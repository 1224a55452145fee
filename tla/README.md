# SynthRAN verification

TLA+ specifications, TLC runs and TLAPS proofs about SynthRAN, the tool set that
deploys a 5G / ambient-IoT testbed on SLICES (POS hosts, R2Lab radios), runs
experiments on it and tears it down. Paths below are relative to the
repository.

## 1. Inventory

### 1.1 The parts and how they interact

SynthRAN has no server. It is a set of short-lived controllers, started by an
operator from several terminals, that meet in files under `.synthran/` and
`results/<run>/`, in two `flock` locks, and in two external providers (the POS
calendar and allocations, the R2Lab lease database).

| Part | State it keeps | Operations | Interacts with |
| --- | --- | --- | --- |
| Deployment controller (`deploy.sh`, `run_deployment.sh`, `synthran/deployment_state.py`, `synthran/acceptance.py`) | deploy lock, active identity `.synthran/deployment-fingerprint.json`, endpoint `.synthran/active-deployment.json`, candidate and evidence of its run | invalidate, acquire, provision, seal, accept, publish, fail | reservation, R2Lab, Ansible |
| Teardown controller (`synthran/teardown_controller.py`, `synthran/teardown.py`) | both locks, `results/<run>/teardown-result.json`, the endpoint status | resolve authority, fence, four phases, complete, fail, retry | reservation release, Ansible, `kubectl` |
| Experiment attachment (`experiment.sh`, `synthran/testbed_attachment.py`, `synthran/experiment_runtime/runner.py`) | experiment lock, attachment snapshot of a run | prepare, prove eligible, run, clean up | endpoint, identity, evidence |
| POS reservation authority (`synthran/reservation.py`) | `.synthran/pos-reservation.json`, calendar events, allocations | acquire the calendar interval, allocate, image, reset, wait for SSH | POS CLI |
| Reservation release (`synthran/reservation_release.py`) | the records above | delete only what the run created | POS, R2Lab |
| R2Lab lease (`deployment/scripts/reserve_r2lab.py`, window in `deploy.sh`) | lease record, lease evidence | find, extend or book a covering lease, verify it | R2Lab API |
| Phase timing (`synthran/phase_timing.py`) | one JSON file of intervals | start, finish, close open phases | every controller |
| Archive (`synthran/archive.py`) | remote objects, receipt, marker | upload, verify, resume | experiment runner |
| MQTT workload (`synthran/workload/replay.py`) | pending acknowledgements, queue, log | publish, acknowledge, drain, collect | broker |
| Campaign of Experiment 2 (`synthran/experiments.py`, `Ex2_*/campaign.py`, `runtime.py`) | frozen design, phase marks, run directories, sentinels | create, resume, calibrate, replay, probe, mark | experiment runner |
| Competing load (`Ex2_*/traffic.py`, `udp_receiver.py`, `udp_sender.py`) | remote receiver and sender, their ssh clients, clock brackets, run directory | start, await, measure clocks, stop, verify coverage | a replay of the campaign |
| Campaign of Experiment 1 (`Ex1_*/campaign.py`, `freeze.py`, `confirmation.py`, `analyze.py`) | selections, design, bundles, index, marks | run simulations in worker processes, select, freeze, analyse | ambient IoT |
| Ambient IoT (`synthran/ambient_iot`, `synthran/model/controller.py`, `backscatter.py`, `bsengine.py`, `receiver.py`) | state machine and slots of each node, mode and buffer of each station, agenda | sense, contend, transmit, receive, bridge, summarise | physical models |
| Testbed identity (`deployment_identity.py`, `cluster_identity.py`, `probe_software_ues.py`, `collect_cluster_snapshot.py`) | sealed implementation identity, acceptance and run evidence | stage, seal, probe, snapshot, compare, publish into pods | `kubectl`, `helm` |
| Trace and delivery (`workload/bundle.py`, `Ex2_*/source.py`, `synthran/results`) | timing arms with their index, copies of a campaign, bundle of a run, summary | transform, index, discover, copy and map, import, reconcile, measure | MQTT workload |
| Models, scenario, CLI | none or configuration | pure | - |

### 1.2 What is hard

* **Two locks, three controllers.** `deploy.sh` holds only the deploy lock,
  `experiment.sh` only the experiment lock, teardown both. The endpoint, the
  active identity and the run's evidence are separate files read one after the
  other by an attachment while a deployment may be replacing them.
* **Multi-file publication.** Acceptance is three writes, a teardown step is a
  write of the result followed by a write of the endpoint. Each write is atomic
  (temporary file, `os.replace`); a death between two of them is a state the
  next controller must cope with.
* **Retry.** A failed teardown is retried from what it retained, so evidence
  must be true, permanent, and not claim what an earlier attempt skipped.
* **Providers.** Calendar events and leases end by themselves, may be owned by
  others, and a release may succeed although its answer is lost.
* **Callbacks and processes.** MQTT acknowledgements come on a callback thread,
  fresh nodes are prepared by a thread pool, Experiment 1 by parallel processes
  of invocations that no lock keeps apart.
* **Remote processes.** Stopping an ssh client or a controller does not stop what
  it started at the other end.
* **Two looks at one thing.** A cluster is observed by many calls and goes on living
  between them; events of one delay are stamped by different clocks.
* **One instant.** Processes of the ambient simulation that wake at the same
  instant run in the order in which they went to sleep.

PROJECT.json lists every hazard with the line where it bites and the properties
that would catch it.

### 1.3 Properties that make each part correct

* Deployment, teardown, experiment: mutual exclusion of teardown; a published
  endpoint names one accepted and sealed run; the fence precedes every mutation;
  retained evidence is true and permanent; torn-down is proven; an attached
  experiment is never fenced; a fenced testbed settles.
* Reservation: what the evidence says is held covers the window; a run releases only
  what it created; what is reported gone is gone; no host is imaged before authority
  over all of them is proven.
* Archive: no receipt before every object is verified; remote objects are immutable and
  a failed archival can be retried, but for what a status cut short leaves (section 4).
* MQTT: an acknowledgement is logged for exactly one publication; the session
  end accounts for every accepted message; nothing is published unheard.
* Campaigns: a finished run is never repeated and an unfinished one never skipped;
  every result can be traced to retained evidence; a replay that counts was loaded
  over all of its observation.
* Ambient IoT: what nodes send is in slots in which stations listen; no sample is sent
  or forwarded twice; the summary balances.
* Identity: nothing is published on what was not sealed, and an undisturbed
  testbed is judged rightly.
* Source: what is summarised is a timing arm that is faithful to the native trace, whatever was
  cut short, edited or used again on the way.
* Delivery: what a summary says is true to within the clock bound it states.

## 2. The deployment lifecycle

### 2.1 Modules

* `TestbedLifecycle` is the core: the three controllers, the shared files and
  locks, what is up in the world and what a run booked. One action is one atomic
  file write, one lock operation or one external command with its outcome.
* `TestbedContract` is the abstract specification: a testbed is published,
  fenced, finished or failed, attached to and withdrawn; no files, no locks.
  `TestbedLifecycle!ContractImplemented` is the refinement: the stage is the
  endpoint status, the current run the endpoint's run, the attached run the
  experiment's snapshot, and a run is still publishable until its endpoint is
  written.
* `TestbedLifecycleInvariant` holds the inductive invariant `IInv`.
* `TestbedLifecycleProofs` holds the theorems, and at its end those of the archive (section 4).
* `MCTestbedLifecycle` gives the constants of the runs.

| State | Code |
| --- | --- |
| `deployLock`, `experimentLock` | `.synthran/deploy.lock`, `.synthran/experiment.lock` |
| `identity` | `.synthran/deployment-fingerprint.json` (status, run) |
| `endpoint` | `.synthran/active-deployment.json` (status, run) |
| `candidate`, `evidence`, `result` | `results/<run>/deployment-fingerprint.json`, `live-deployment-evidence.json`, `teardown-result.json` |
| `running`, `reservation` | UE/RRU resources and namespace that are up; POS event and R2Lab lease booked by the run itself |
| `deploy`, `teardown`, `experiment` | program counter and locals of each controller |

Choices worth knowing:

* A deployment hash identifies its run: `deployment_identity.py` hashes the
  private inputs, among them `deployment-vars.yml`, whose `run_dir` is unique.
  So comparing hashes is comparing runs.
* Provisioning playbooks are one step that may leave any part of the stack up
  when it fails. A teardown phase that fails may have had its effect or not.
* `DeployDies`, `TeardownDies`, `ExperimentDies` stand for a signal, a lost
  terminal or an error that escapes: the flock goes, no file changes. The child
  of `run_step` that may outlive a killed controller is not modelled yet.

### 2.2 Runs

One run, `lifecycle`: a physical run that booked a lease and one that did not, teardowns
with no option and with both, and all three controllers may die. So a physical testbed is
deployed, used, torn down, retried and superseded in one instance.

* `FencedAlone`: a teardown at work excludes the others (`TeardownExcludesOthers`) and
  touches nothing before the endpoint is fenced for its run (`FencedWhileMutating`).
* `EvidenceHolds`: the endpoint names one accepted and sealed deployment
  (`EndpointNamesOneDeployment`), a phase retained as performed has happened
  (`RetainedEvidenceIsTrue`), torn-down is proven (`TornDownIsProven`).
* `SuccessIsRetained`: no step erases a retained success.
* `ContractImplemented`: the refinement of `TestbedContract`; an attachment is never
  fenced there, and a run is published once.
* `FencedTestbedSettles`: a teardown at work ends, and only its death leaves the testbed
  fenced without a verdict.

Bounds. A run identifier is used once, so the number of deployments is the
number of `Runs`. Two are enough for everything that concerns a testbed and its
successor: no file refers to more than one run and no controller remembers more
than one. Teardowns, retries and experiments are not bounded: the state is
finite without it. Between the two runs and the two options every outcome of every
phase occurs.

Fairness. `FairSpec` assumes weak fairness of the started teardown only
(`TeardownProgress`): `execute` is sequential code whose commands terminate or
time out. Nothing is assumed about operators, so no start is fair. A killed teardown
leaves `stopping` behind until an operator returns: the second half of
`FencedTestbedSettles` says that nothing else does.

### 2.3 Proofs

The theorems of `TestbedLifecycleProofs` hold for every set of runs, policies,
options and mortal controllers. The assumptions are the named typing assumptions
of `TestbedLifecycle` and `NoRun \notin Runs`.

None of the safety properties is inductive. `IInv` is the conjunction of

* `LockInv`: a lock is held exactly while its holder is past the step that takes
  it. Exclusion follows, and so does every frame argument below.
* `DeployInv`, `EndpointInv`: what is withdrawn and proven at each step of a
  deployment, so that publication finds no endpoint and a sealed candidate.
* `TeardownInv`: a teardown at work owns the endpoint and the result of its run.
* `EvidenceInv`: a recorded or about-to-be-recorded "performed" has happened, a
  run never published has no recorded phase (so a new deployment cannot revive
  what an old teardown proved gone), the radios of a physical run are never waived.
* `TornDownInv`, `ExperimentInv`: the endpoint says torn-down only over a
  complete result; an experiment's run is never fenced.

`InvariantHolds` proves the three facts with one step per action. The invariants,
the action property `SuccessIsRetained` and the refinement `ImplementsContract`
(initial states map to initial states, each action to a contract step or a
stutter) are corollaries of it.

Only model-checked: the liveness property `FencedTestbedSettles`. `FailedTeardownIsRetryable`
is a definition that no run checks: it does not hold if a retry may die (below).

### 2.4 Known divergences

1. `_static_retry_context` documents the unchanged accepted identity as the authority of
   a retry (teardown.py:70); `_retry_result` (teardown.py:221) also requires the result to
   say `cleanup-failed`, which a retry killed between its two first writes has replaced
   with `stopping`. Such a testbed is locked out of further retries. The model has these
   states.
2. `skipped` counts as retained success (teardown_controller.py:198), so a retry with
   `--delete-namespace` of an attempt that skipped it does not delete the namespace.
3. `deploy.sh` takes only the deploy lock and `experiment.sh` only the experiment lock,
   so a deployment may withdraw the testbed under a running workload. No document says
   which of the two should give way, and no property forbids it.

## 3. Fresh preparation of the hosts

`FreshPreparation` is `prepare_hosts` of `synthran/reservation.py` in its fresh
mode, run again and again under calendar events; `MCFreshPreparation` and
`MachineProofs`, which also has the proofs of section 10, go with it.

| State | Code |
| --- | --- |
| `allocation` | what POS has each node allocated to: id and result folder |
| `authority` | `.synthran/pos-reservation.json`: event, folder, recorded allocations |
| `main`, `todo`, `claim` | where `prepare_hosts` is, the nodes its loop has still to visit, `allocation_states` |
| `worker`, `stop` | the thread of each node with the phases it completed, `stop_event` |
| `evidence` | the status in `reservation-authority.json` |

The event of an allocation is a ghost: the code never learns it, the property is
that it can be inferred from the folder. Two ids per node stand for any number,
because the code only compares a live id with the recorded one; folders are as
many as it takes for a random one to be new. Whoever holds an active calendar
event has the nodes to itself, so other users act between runs only, on the
`Shared` nodes. The outcome of the calendar resolution is the choice of `Begin`.

One run, `fresh_preparation`, with two nodes, one of them shared, two events and
three folders. `MutationIsLawful`: no node is imaged or reset unless every node is
allocated by SynthRAN under the present event (`AuthorityBeforeMutation`), and none after
the verdict (`NoMutationAfterVerdict`). `ReadyIsEarned`: ready evidence means that every
node was prepared. `PreparationConcludes`: every run ends. Two nodes are enough: they meet
only in the loops, which treat one after the other, in `stop` and in the join. Three
folders let a run under another event find a new one unless both nodes still carry other
ones; then `Begin` of that event waits. The proofs cover any number of nodes, events and
folders.
Fairness: the main thread and each worker progress, because commands return and
`_wait_for_ssh` probes a bounded number of times.

`PreparationInv` is inductive. `FolderInv` is the heart of the authority: the
present folder marks allocations of the present event only, which survives every
death and every intervention. `ClaimInv` carries it from the claim to the
dispatch. `ThreadInv` ties `stop` to a failed peer, without which a cancelled
thread, which is not counted as a failure, could turn into ready evidence.

## 4. The archive

`EvidenceArchive` is `synthran/archive.py` for one unit of evidence, with its
three front ends (`kind`): `archive_run`, `archive_campaign_snapshot` and
`archive_cli`. `MCEvidenceArchive` goes with it; its proofs are the last part of
`TestbedLifecycleProofs`.

| State | Code |
| --- | --- |
| `root` | the files in the evidence root, for a snapshot the copies; and `archive-status.json.tmp` (`Temporary`) while it lies there |
| `marker`, `status` | `_ARCHIVED.json`, `archive-status.json` |
| `attempt` | the progress of `archive_directory`: object in hand, objects to put, manifest, and the verdict to be written |
| `told` | what the caller got: the marker, or the reason of the exception |
| `remote` | the objects under the destination |
| `orphan` | an `mc cp` that goes on after its controller was killed |

Each object takes a check, an `mc cp` and a verification, three steps between
which the store may fail, the controller die or an orphan land. The files are
put in any order, a superset of the sorted order of the code. The manifest is
computed at once; a result directory (`"result"`) may change before, between and
after. The files of a run never change, and neither do the artifacts of a
finished phase. Attempts on one unit do not overlap (`experiment.lock`). Stamps
are enough that a marker always differs from those that exist, as time does.

The verdict of an attempt takes two steps, as `_write_json` does: `Concludes` writes
`archive-status.json.tmp` into the evidence root, `Report` renames it. A death in
between, or a write that fails (`ReportFails`; of VERIFIED the handler then makes
FAILED and tries again), leaves the temporary file with one of the `Leftovers` as its
contents. `_safe_files` leaves out only the final name, so the next attempt has it
among its files and in its manifest, and the status of that attempt takes it away again.
A full disk is modelled at the status only; elsewhere it leaves what a death leaves.
One upload at a time outlives its controller. `Outliving` leaves orphans out for result
directories: an orphan that lands after both an edit and a full retry could overwrite
what the retry verified.

The run `archive` has all three kinds, with a result directory changing while it is
archived. `NothingBlocksRetry`: no file left in the store can refuse a retry, and no
manifest either unless a temporary file got there first. `ArchiveIsWhole`: what is sealed
is complete (`SealedIsComplete`), VERIFIED means held (`VerifiedIsHeld`): every file as the
manifest names it, always; the manifest itself unless the state is `Exposed`, that is the
store has a temporary file and an `mc cp` may outlive its controller. `EvidenceIsImmutable`:
no file put is overwritten, nor a manifest unless `Exposed`. `EventuallySealed`: a run
archived until the store works is sealed in the end, unless the manifest in the store
names a temporary file.

What these exceptions leave open does go wrong:

* `RetriesSucceed` is what archive.py:5 promises ("retries only this archival step"). Under
  the same fairness a run can stay unsealed for ever: a controller is killed between
  archive.py:45 and 46, the retry puts a manifest that names the temporary file and fails
  before its marker, its own status renames that file away, and all later attempts
  are refused as different content (archive.py:99).
* `NeverOverwritten` is "Immutable S3 archival" (archive.py:1). The check and the `mc cp` are
  two commands (archive.py:97-103): the upload of a manifest with the temporary file outlives
  its controller and replaces the one that a later attempt found absent and put.

`ArchiveRetries.cfg` and `ArchiveOverwrite.cfg` (with `MCEvidenceArchive`, one file) end with
these counterexamples; they are kept beside the runs, not among them.

Two files, two contents and two leftovers are enough: every property compares one file
with one manifest, the second file is there for partial archives, the second leftover
for temporary files that differ. Fairness: attempts are repeated, `mc` returns, and failures
and deaths stop at some point.

`ArchiveInv` is inductive: what an attempt has behind it is in the store
(`ProgressInv`), the object in hand is put over nothing but itself unless `Exposed`
(`ObjectInv`), an orphan puts what the store may hold already, a temporary file, or a
manifest that names one which is in the store (`OrphanInv`), and a verdict that waits for
its rename is true (`VerdictInv`). The proofs go by one action lemma: every step keeps the
files in the store, and everything else unless `Exposed` (`Grows`). Proved from it:
`SealedIsComplete`, `VerifiedIsHeld`, `NothingBlocksRetry` and the action property
`EvidenceIsImmutable`. `EventuallySealed` is only model-checked.

Known divergence: archive.py:3 says that a rerun "retries only this archival step", but the
marker contains the time of the attempt and is put like evidence (archive.py:233), so
archiving an unchanged run again is refused as different content and its status turns
from VERIFIED to FAILED. The model has this refusal; no property forbids it.

The marker is on the disk before it is in the store. When its put
fails, the next attempt on a snapshot takes the one on the disk for proof and
reports VERIFIED; everything but the marker is then held, which is what
`VerifiedIsHeld` states.

## 5. The traffic phase

`MqttReplay` is one publisher, `replay()` of `synthran/workload/replay.py`;
`MqttDelivery` extends it with the receipt collector, the playbooks `mqtt.yml` and
`cleanup.yml` around them and the summary of `reconcile()`. `MqttDeliveryProofs`, about both,
and `MCMqttDelivery` go with them.

| State | Code |
| --- | --- |
| `pc`, `next`, `held` | where the main thread of `replay` is, the event to release, `mid` and `accepted` between `client.publish` and the log |
| `pending`, `early`, `acks` | `pending`, `early_acks`, `acknowledgements` |
| `nextMid`, `out` | the paho client: the next identifier and the outgoing messages in order |
| `link`, `delivered`, `received` | the connection, how far the broker has read on it, what it got |
| `status`, `acked`, `outstanding`, `ended` | the publisher's log: publish, ack and session records |
| `phase` | the playbooks: broker and collector prepared, barrier, replay, collection, cleanup |
| `collector`, `marker`, `inbox`, `receipts` | the collector service with its subscription, its `--ready-file`, what the broker holds for it, its log |
| `gap` | ghost: the collector lost its connection, died, or was too slow |

Two threads meet in `replay`: paho's network thread queues acknowledgements at any
time, the main thread reads the queue while it waits, and records a publication
after `client.publish` has returned. An event is its rank in the trace. Message
identifiers are a cycle `1..MidLimit`, 65535 in MQTT, and repeat.

What paho and mosquitto do is external and taken from how the code relies on it:
messages leave and are acknowledged in order, a reconnected client sends again
what is outgoing, a clean session forgets its subscription. QoS 1 only; the inflight
window is not distinguished from the queue behind it; a write to the log that
fails is an exception like any other (`Interrupted`). The broker's queue for a
subscriber is `SubscriberQueue`, because the configuration sets none. One publisher:
the others share no state with it but the collector's queue, which loses messages
in the model as well. A publisher that outlives its cleanup because its host is
not reached is kept (`KillPublisher` may do nothing), its interference with the next
attempt is not: that belongs to the attempts of a cell.

`ReplayAssumption` asks for `MaxQueued <= MidLimit`. The code checks no such
bound (line 130 compares `max_queued` with `max_inflight` only); a larger queue
would wrap the identifiers, and `pending[mid]` would forget a publication.

One run, `mqtt_delivery`, with three events, two identifiers and two pending, so that
identifiers are drawn again and the queue is full, and a subscriber queue of two,
which three events exceed. What it shows:

* The log is true: an ack record is the single acknowledgement of an event the
  broker got, although it is matched by a repeated identifier (`AckIsTrue`); no
  acknowledgement is read before its publication is recorded (`NothingIsEarly`:
  `early_acks` is only ever filled after an exception); a refused publication is
  never sent (`RefusedIsNotSent`); a closed log accounts for every event
  (`Accounted`; the run checks them together as `LogHolds`); and `MQTT_ERR_QUEUE_SIZE` means that `max_queued` are pending
  (`RefusedOnlyWhenFull`, the client never refuses what `replay` lets by).
* The barrier works: while events are published everything the broker gets is
  received or on its way unless the stream has a gap (`EverythingIsHeard`).
* `SummaryHolds`: receipts are of this attempt (`ReceiptsAreOfThisRun`), and the logs of
  three processes agree (`SummaryIsConsistent`).
* `PhaseConcludes`: the phase and its publisher end even if the broker never
  answers.

Fairness: the main thread of the publisher is scheduled and its waits have
deadlines, every task of the playbooks ends or times out. Nothing is assumed of the
network, the broker, the collector or paho's thread.

Proved for every number of events and identifiers, and every queue limit within
them. The inductive invariant `ReplayInv` is about a window: what is acknowledged
but not read, followed by what is outgoing, carries exactly the last identifiers
drawn (`WindowInv`, with `Back(m, k)` the identifier drawn `k` publications ago).
There are at most `MaxQueued` of them, so none occurs twice; `pending` is exactly
this window except for the publication being recorded (`PendingInv`, `WholeInv`,
`HeldInv`), so `len(pending) < max_queued` leaves an identifier free and room in
the client. `SentInv` and `LogInv` carry that to the records. `DeliveryRunsReplay`
shows that the phase only takes steps of the publisher's specification, so the
theorems about it hold there too; `DeliveryInv` adds what the barrier and the
collector keep. Liveness is only model-checked.

## 6. The campaign

`CausalCampaign` is a campaign of Experiment 2: `execute()` of
`synthran/experiments.py` and the phases it calls in
`Experiments/Ex2_Flagship_Causal_5G_Transport/campaign.py`, `runtime.py` and
`analysis.py`. `CausalCampaignProofs` and `MCCausalCampaign` go with it.

| State | Code |
| --- | --- |
| `deployed`, `design` | the accepted deployment, the study in the checkout |
| `pc`, `phase`, `full` | where the controller is, the phase, whether it runs all of them |
| `env`, `manifest` | `environment` and `manifest`, read once by `execute` |
| `at`, `upto`, `mine` | the replay at hand as session and ordinal (`NoLoad` is that of the qualification), the end of its matched block, whether this process made its directory |
| `campaign`, `endpoint`, `done` | `campaign.json`, the status in `.synthran/active-ex2.json`, `completed_phases` |
| `calibration`, `frozen` | `load-selection.json`, `frozen-design.json` |
| `run`, `identity`, `kept` | the run directories with the deployment each was prepared on, and how many attempts are in `failed-attempts` |
| `sentinel`, `closed` | `sentinels/*.json`, the sessions with a `summary.json` |

One action is one file that changes what a later invocation does, or one command
that may fail. `Stop` is an exception, an interrupt, a kill or the operator's "no"
at any step; the files stay, the process does not. Invocations do not overlap
(`experiment.lock`), `deploy.sh` holds another lock, so `Redeploy` happens at any
time. A failure that needs no file of its own (clock evidence, background traffic,
a rejected route) is `Stop`; those that write one (a probe, a sentinel) have
an outcome. Deployments are told apart by their identity only, and any of them has
the shape that `requirements_from_deployment` asks for.

Left out: telemetry, clocks and bundles; the archive step between a phase and its
mark (section 4); the directories of former campaigns, which nothing writes again;
what an attempt leaves on the hosts (section 5).

One run, `campaign`: two sessions of two blocks of two arms, a sentinel in each session, two
campaigns, two deployments, two studies, two faults.

* `ReplaysAsPlanned` (`InPlanOrder`, `CheckpointsCovered`): what the loops of
  `confirmation()` do in one go comes out the same when any number of invocations resume
  from the files.
* `RecordsHold`: a record is of one attempt (`RecordIsOneAttempt`); a pause is not a
  confirmation, and the analysis has the whole treatment matrix (`ConfirmedIsComplete`).
* `EvidenceIsKept`: no replay is run twice and no attempt lost (`AttemptsAreRetained`);
  only a sweep that could not measure may be repeated (`SelectionStands`).
* `DriftEndsCampaign`: a sentinel that failed, was killed or never started after its
  replay ends the campaign; no later probe stands in for it.
* `InvocationEnds`: an approved invocation reaches its end. Fairness is weak
  fairness of the controller: its loops are sequential code over commands that return
  or time out. The operator is not fair, so the prompt may wait for ever.

Bounds. `MaxFaults` counts redeployments, interruptions and failures together: two
are needed to interrupt a resumed invocation or to interrupt one on another deployment.
`MaxCampaigns` is two, so that one campaign follows another; a qualification that
would start a third is refused. `MaxDesign` is two. Sessions, blocks and arms are two
each: the order, the checkpoint inside a session and the change of session all occur,
and pauses and resumptions are not bounded.

`CampaignInv` is inductive. `DiskInv` is about the files alone, and so it survives
every way a process can stop: marks follow the order of the phases and what these
left behind, a closed session is whole, a sentinel follows a record. `ControllerInv`
is what the controller may rely on at each step: the phase and the replay it is at,
the directory it made itself, a clean history of sentinels, and nothing missing
behind it. Halting makes it trivial, so early returns and `Stop` need no argument of
their own. All safety and action properties are proved from it, for any sizes of the
plan; `InvocationEnds` is only model-checked.

Known divergences, which the model has and no property forbids:

* README.md:245 says that a campaign "pins the accepted deployment identity". It compares
  identities, but with the deployment that was inspected before the prompt
  (experiments.py:840). Every replay attaches again, to whatever is accepted then
  (runtime.py:322), and no later step compares: a deployment that is replaced at the
  prompt or between replays mixes two testbeds in one campaign.
* Failed attempts are moved away in the confirmation only. A qualification whose replay
  failed after its workload was imported can be neither repeated, because the import
  refuses the directory, nor replaced, because the campaign is reused for the same
  deployment and study.

## 7. Reservations and leases

`ReservationAuthority` is how a deployment gets the testbed and gives it back:
`synthran/reservation.py` with `experiment_environment.py`, the window of `deploy.sh`,
`deployment/scripts/reserve_r2lab.py` and `synthran/reservation_release.py`.
`ReservationAuthorityProofs` and `MCReservationAuthority` go with it. `FreshPreparation`
(section 3) is what happens to the hosts under the event that is acquired here,
`TestbedLifecycle` the place of both in a deployment and a teardown.

| State | Code |
| --- | --- |
| `events`, `leases` | the caller's events for exactly the selected nodes, the leases of the radio room |
| `experiment` | whether the SLICES experiment exists |
| `managed` | `.synthran/pos-reservation.json` |
| `evidence` | `reservation-authority.json` and `r2lab-lease.json` of the latest run |
| `outcome`, `accepted` | what its teardown has recorded, its endpoint |
| `job` | the deployment or teardown in progress with its step and locals |
| `evidence.seen`, `calendar.due` | ghosts: what the run found when it asked, the end it asked for |

A provider's command is refused, carried out, or carried out and its answer lost. A
controller may die at any step. The operator, who has the same account, and other users
book, extend and delete in between (`MaxMeddling`). One tick is the granularity of the
providers: an event that is created now starts now.

Left out: other users' events and events for other nodes, which the code never considers;
overlapping leases, which the provider refuses; `--no-reservation`, credentials, the
steps of `prepare_hosts`, the evidence of earlier runs, which nothing reads. The release
script that runs on the gateway is one command; deleting a lease that has begun cuts it off.

One run, `reservation`: a deployment that creates and books, a second under every
combination of policies that matters (create, require the event, require the lease),
with teardowns.

* `EvidenceCovers`: the event lasts as long as the run asked for, the lease covers the whole
  window, which ends with the event at the latest, and an accepted run left nothing half
  written. A block of a campaign that is begun because it fits into what is left is held to
  its end (`BlocksAreHeld`), if nobody else changes them and the event is known.
* `TeardownSparesOthers`: a teardown takes away nothing that its run found when it asked,
  nor a lease that is no longer as it was recorded.
* `TornDownIsGone`: what is reported released or absent holds the testbed no longer.
* `InvocationEnds`: every invocation ends. Fairness: commands return; the attempts at the
  provider prefix are counted.

Bounds: two runs are enough, because nothing but `managed` and what is booked is left of an
earlier one. `MaxTime` is four ticks with durations of two and three, so that an event
ends within a run, before a teardown and between two runs, and the lease window is cut by
the end of the event. One meddling per instance: it can come at any step, and each property
is about one thing that is no longer what it was. Deadlock is not checked: time ends.

Proved for any number of runs, any policies, durations, passage of time and meddling:
`EvidenceIsEnough` (of `EvidenceCovers`), `TeardownIsSparing` and `TornDownStaysGone`. Two
invariants are inductive. `ReservationInv` is what the teardown needs. `CalendarInv`
says that an event counts as created only under an id that the run had not found; ids are
given once, so a creation whose answer is lost leaves an event that a later run finds
and spares. A lease is recognised by its place rather than its id, and verification
may meet any lease that covers the window: `LeaseInv` needs `WindowIsNew`, that no
lease the run had found lies in the window from the decision to book on. It is kept
because others prolong a lease only while it lasts, and then it would have been in the
window. `GoneInv` needs that names are unique (`Named`) and that a deployment clears the
outcome. `EvidenceInv` is what a deployment needs: the files follow the step of the job, and a
run is accepted only when both are whole (`ChainInv`); what is recorded of the event reaches
the end that was due, and of the lease covers the window, which the event's end cuts off
(`CoverInv`); while nobody meddles, what is recorded is in the calendar (`StandsInv`); and
identifiers and times are within their bounds (`BoundInv`). Only `InvocationEnds` is left to TLC.

Known divergences:

* The documents of Experiment 2 say "If reservation coverage is absent or expired,
  Experiment 2 stops" (its README.md:90) and that it pauses before a block that does not
  fit (its protocol, line 101). When the calendar event is missing or has expired, `coverage_end` is None
  (experiment_environment.py:106), `remaining` is None or is the lease's alone, and the block
  starts (campaign.py:554). `BlocksAreHeld` speaks of a known event only. The coverage is
  computed once per invocation.
* docs/reservation-authority.md:52 says that an active event that was originally booked for
  the configured duration may be reused. A rerun a minute later asks for an end a minute later, which the event does not reach,
  and is refused (reservation.py:370, 396).

## 8. The ambient simulation

`AmbientAccess` is the native Ambient-IoT simulation: the controllers and backscatter modules
of the nodes, the base stations, the three schedules, the bridge to the 5G replay and the
summary. `Receiver` is the decision which packets of one slot are decoded, with
interference and successive cancellation, as operators. `MCAmbientAccess` and
`AmbientAccessProofs` go with them.

| State | Code |
| --- | --- |
| `agenda` | the queue of simpy: wake-ups in the order in which they run |
| `node[n]` | `Controller` and `Backscatter`: state, samples, slots, registration, opportunities |
| `station[b]` | `BSBehavior`: mode, frame, buffer of the slot |
| `sent`, `heard` | transmissions, and what each station made of them (`rx_packets`) |
| `ending` | how the simulation ended: a horizon, an exception |

An action is one step of a simpy process up to its next yield. Time is a grid of which every
duration is a multiple. A capacitor is what the controller asks of it when it wakes: above
the high threshold, below the low one, or between. Powers are integers. The slot a node
draws is a choice.

`ambient`: two nodes, one with a harvester and one always powered, two stations, one that
receives them with unequal powers (capture, cancellation) and one alike (collision), every
protocol, with and without registration, to a horizon of 22, with one loss of power. Decoded,
captured, recovered and collided packets, packets cut off by a loss of energy, deferred
transmissions, samples that the horizon censors and a second sample per node all occur.

* `NobodyIsUnheard`: under a static schedule no transmission that a station sees is ever
  reported unheard, also at the instant at which one slot closes and the next one opens.
* `SampleIsSentOnce`: a sample is on the air once, after it was processed, and is one event of
  the replay however many stations decode it; a node is registered only if its identifier was
  decoded (`RegistrationIsEarned`).
* `OpportunitiesAccounted`: every opportunity to sense is on record; attempts, losses and
  measurement windows add up (`SummaryBalances`).
* `ReceptionIsSound`: every buffer is decoded by the definition of the threshold, whatever
  the order of arrival.
* `SimulationEnds`: no two processes wake each other for ever at one instant. `FairSpec`
  says that simpy runs on until the agenda is empty, the horizon is reached or a process raises.

`ambient_ack` (violation) checks `AckedNodesGoOn` without registration in advance. The
commands of backscatter.py document an `ack` after which a node "can now send data". An ID that
is sent in a data slot is acknowledged in the next frame, after its node drew a slot again.
The acknowledgement empties `rx_slots` and leaves `chosen_slot_idx`; the next wake-up indexes
the empty list and the simulation ends with an IndexError (controller.py:286). Deadlock is not
checked in either run: a simulation ends.

`SampleIsSentOnce` is proved (`SamplesAreSentOnce`) for any number of nodes and stations, any
gains, durations, protocols and energy. `AmbientInv` is inductive (`AmbientInvariant`):

* `AmbientTypes`: the types, and that each process has one wake-up in the agenda at most. A
  step takes the head of the agenda and puts back what its process waits for.
* `SamplesHold`: what a node has to send was processed by the time it wakes, and is newer than all
  that it sent. The controller looks at the same sample in every round until it is on the air;
  it goes from the node in the step that sends it.
* `LogIsSound`: what was sent was processed, and is in the log once.
* `BuffersHold`: a packet is once in the buffer of a station, and not while it waits there for
  the next window. The two ways into the buffer exclude each other.
* `HeardHolds`: a station decides once on a packet at an instant, because every decision lies before
  its own next turn. So of receptions at one instant with one strength, the first
  station's is one, and the event that is kept is unique.
* `RegistrationHolds`: whom a station will acknowledge, and who is registered, was decoded.

`ReceptionIsSound` is proved as well (`SoundReceptions`), for any packets, gains, thresholds and
cancellation. `WorkHolds` is kept by every packet that is considered: each decoded packet stood out
from what was left when its turn came. A pass decodes something or leaves none that stands out,
so that the passes end quiet, for no packet is decoded twice (`PassKeeps`, `ReceptionsEndQuiet`).
The instants at which the code evaluates interference are enough, because what is on the air at any
other was on the air at the last of these (`InstantsSuffice`). With the packets in the opposite order
every step is the mirror image, if no two are equally strong (`PassTurned`); a sum does not depend on
its direction (`TotalBackwards`).

The agenda is sorted by insertion, and the buffers and the log are changed by recursive functions.
The lemmas on "Numbers", "Sequences" and "The agenda" say what those do, by the least place at which
they would not.

Not modelled: custom schedules, the interrupt path, logs, the energy account, propagation.

## 9. Experiment 1

`Ex1Campaign` is the campaign of Experiment 1 with any number of invocations at work on it:
no lock keeps them apart, and each has worker processes. `Ex1Selection` has the two selection
rules as operators. `Ex1CampaignProofs` and `MCEx1Campaign` go with them.

A file is the set of its contents. `code` is the checkout, which may be edited at any time:
a process executes what it imported and records what it finds on the disk. `world` is what
each state of the code would measure. A run of the simulation is built in a staging directory
and moved into place; `orphans` are workers that outlive their invocation.

`ex1_campaign`: two invocations with two workers, three powers, three populations, two
runs of the confirmation, a unit that fails or a bundle that is damaged, one kill and one
edit.

* `EvidenceChain`: an analysis can be traced through the index of its frozen design to bundles
  that are still there and had the frozen treatment, and from the design to selections that
  the retained calibration runs still yield.
* `MarksAreEarned`: a phase that is marked left what it produces, and so did every phase before
  it, though `_mark_phase` overwrites what another invocation marked in between.
* `EvidenceStands`: bundles and selections that are in place never change, and an analysis is
  only ever replaced by one of the same runs, powers and number of sensors.

All three are proved for any number of invocations, workers, candidates, campaigns, kills and
edits, and whatever each tree measures (`EvidenceIsTraceable`, `MarksEarned`, `EvidenceIsKept`),
from `Inv`, which is inductive together with the types of the variables (`CampaignInvariant`).
The assumptions are that the plans are one phase or all of them, as the command line allows, and
that a tree has one outcome for each candidate. There is no lock to argue from. Instead,
every step lets a campaign only grow (`Grows`): bundles stay, what exists is not removed, and a
selection that is written again is the same, because it is a function of bundles that stay
(`PowersKept`, `CountsKept`). So what an invocation has read
remains true while it is at work (`ProcHolds`), a worker that outlives it still has a unit that
is due (`OrphanInv`), and a mark that is written from a stale copy of `campaign.json` is still
earned. Only the qualification is replaced without a check; it is safe because a campaign is
qualified by the invocation that made it, once (`StartInv`). The proof needs that the
selections exist and are unique: `BestIsCombination` shows that the order of
`_select_power_points` has a least element, so its CHOOSE is about something.

The seeds of a candidate are one run with its mean, percentages are integers, the JSON of a
phase is written in one step, the qualification is one step. Archiving is disabled in the
manifest of this experiment. No liveness: nothing in the code retries.

Known divergences: the document of Experiment 1 (line 191) asks that the code that qualified is
the code that is used, and docs/experiment-suite.md:78 calls the frozen design immutable; an
edit between two phases, and two invocations that freeze at the same time, contradict them in
the model. What an analysis then reports is still traceable. The proof showed more than the run:
with three freezes pending at the same time and a checkout that is edited to and fro, two
analyses of designs with different trees can be pending, and the later one replaces the summary
of the earlier without looking at it again (analyze.py:436). The runs, powers and number of
sensors are the same, the tree that the frozen design names is not. This needs three invocations
and three edits, more than the run has.

## 10. The competing load

`CompetingLoad` is one replay of Experiment 2 over all its attempts, with the receiver on the
broker and the sender at the competing UE, started through ssh clients whose end does not stop
them. `MachineProofs` and `MCCompetingLoad` go with it.

| State | Code |
| --- | --- |
| `pc`, `deadline`, `attempt`, `kind` | where the controller is in `run_loaded_replay` or a probe, what it waits for |
| `offset`, `clock` | the true offset of the competitor's clock, its measured bracket |
| `client`, `receiver`, `sender` | ssh clients of the attempt, remote processes of every attempt |
| `session` | the start of the publisher |
| `dir`, `retained`, `record`, `over` | the run directory, `failed-attempts/`, `run-record.json`, whether a probe has failed |

One packet per tick stands for the rate, an outage of `path` for loss, `FallBehind` for a rate
out of bounds. What is due happens at its tick. Failures and kills are `Interrupt`.

`competing_load`: two attempts of either kind, two faults; remote processes start up to three
ticks late, so that one of an earlier attempt may hold the port or still send. `AcceptedIsCovered`:
a replay on record was loaded over all of its observation by the true clocks, given that the
measured bracket is what is compared. `AcceptedIsWhole`: what is on record is the directory of
one attempt with its own summary, and no attempt is lost.

Proved for any durations, offsets, attempts and faults: `LoadInvariant`, `RecordedIsCovered`,
`RecordedIsWhole`. `LoadInv` is inductive: the bracket holds the offset (`ClockInv`), a controller
at work is in the directory of its own attempt and has its summary when it waits for the sender
(`WorkInv`), there is at most one directory and none is retained under its attempt (`DirInv`).

Known divergences: campaign.py:380 calls a replay "one indivisible physical attempt", but a
sender that outlives an interrupted attempt still loads the next one. The clock contract asks
for NTP on publisher and broker, not on the competitor (runtime.py:185).

## 11. The identity of a testbed

`TestbedIdentity` is what `accepted` and `eligible` mean in the lifecycle: what is sealed of a
software testbed, what is observed of the cluster call by call, and what is granted for it.
`StudyProofs`, which also has the proofs of section 12, and `MCTestbedIdentity` go with it.

The cluster goes on living while it is looked at: pods are replaced and get new names, sessions
are lost and come back with other addresses, releases are upgraded, a tag is moved, files are
edited, the clock is set back (`MaxChanges` together; recovery is free). The content of a file, an
image or a release is a number. An observation lists the pods, visits the UEs one by one (release,
tunnel, ping), then reads pods, releases and attestation and writes the evidence; the probe is
tried again when code 6 says that something was replaced under it.

`testbed_identity`: two UEs in pods of their own, a slice with two addresses and one
foreign address, two changes, a deployment and two experiment runs.

* `PublishedAsSealed`: a publisher runs on the image that was sealed and sends through the tunnel
  of its own UE, whatever happened since the cluster was last looked at.
* `JudgedRight`: of a testbed that nothing touches while it is observed, the judgement is right
  both ways.

Deadlock is not checked: it ends when the runs are used up.

Both are proved, for any number of UEs, pods, addresses, changes and runs. `IdentityInv` is
inductive: the controller is where its purpose allows (`CourseInv`); generations only grow, so
nothing that was found has a name of the future, and what still has its name was not replaced
(`NameInv`); bindings are of the UEs visited so far and of their slices (`ProbeInv`); a binding
whose pod still has its name is in the snapshot with its image, and what is granted was compared
with what was sealed (`ImageInv`); what was read in quiet is what is there (`QuietInv`).
`QuietJudgement` (of `JudgedRight`) needs no more. `SealedIsPublished` (of `PublishedAsSealed`)
has the hypothesis `OwnPods`, that every UE has a pod of its own: without it the property is
false, which is the first divergence below; the instance has it as well.

Left out: UEs that share a pod, the R2Lab probe, failure evidence, the bindings of older evidence,
the hash equalities of the evidence files (section 2 has their order).

Known divergences: sessions of UEs in one pod (srsRAN) may swap addresses between observation and
start (main.yml:223); private inputs are hashed when they are sealed and not when they are staged;
a staged file that is edited and restored is not noticed; the age of the cluster snapshot itself is
not checked for eligibility; a runtime that was stopped cannot be started again in the same pod
(software_ue_publish main.yml:57).

## 12. From the trace to the summary

`TimingArms` is pure: the native trace of one source seed, what `transform_bundle` makes of it,
what `validate_bundle` and `_verify_arm_invariants` demand, and what an arm promises (`Faithful`).
`PreparedSource` has the way of an arm from its preparation to the bundle of a run (`source.py`,
`runtime.py`, `bundle.py`, `runner.py`), `DeliveryMeasurement` the replay of a bundle by gateways
with clocks of their own, the log of the collector and `results/reconcile.py` with `metrics.py`.
`ArmToSummary` composes them: at each bundle that is imported, a behaviour goes on with the campaign,
for which a replay is one step (`Summarise`), or follows that replay to its summary
(`ReplayImported`). What the campaign did before is then forgotten, which loses nothing, because a
replay and its summary depend on the bundle alone. `MqttDelivery` has the replay in detail.
`MCArmToSummary` and `StudyProofs` go with them.

The one run is `arm_to_summary`: two cohorts, three arms of four events, one of them in the warm-up,
with gaps of two and one; two sensors on one gateway or on two, whose clocks differ by up to two; one
fault of the campaign and one mishap of the replay. That is enough for a cohort that is passed over,
or a copy that is cut short and used again; the theorem has any number of faults. Deadlock is not
checked: a study ends at its summary or its refusal.

### 12.1 The prepared source

| State | Code |
| --- | --- |
| `writer`, `begun`, `cohort` | `prepare_latest` at work, the directories under `ex2-source/`, the arms in them |
| `index` | their `prepared-index.json` |
| `inputs` | the arms the campaign has copied to `inputs/` |
| `frozen`, `phase` | the frozen design, and how far the campaign is |
| `stage`, `chosen`, `run` | the replay: its arm and the bundle in its directory |

`_remap_bundle` copies an arm to its final place and maps it there to the workload UE:
`ChooseArm` is the whole of it, `CopyingDies` a kill on the way, which leaves a part, a copy that is
whole and not mapped, or one mapped in part. A copy that is there is used again if its own manifest
holds, whatever cohort it is of. `Discovered` is the newest cohort that is whole; a damaged one is
passed over. That it is the frozen one is asked where an invocation of the confirmation begins.
`ImportArm` copies to the run's directory, `Summarise` is the validation of `reconcile`. A confirmation
moves what is left of an attempt away; a qualification finds it and stops.

Declared abstractions: one source seed; all cohorts have its native trace and are told apart by the
`origin` in their manifests; the gateways are those the trace was generated for or the workload UE,
and the deployment does not change; edits fall between validation and copy of one call, not within;
the content of an edited trace is left open, because nothing validates it.

`ArmsAreFaithful`: an indexed arm holds the same events with the same gaps, a permutation of them or
equal ones, and ages are reported only where nothing is released before it exists. A summary is about
the arm of its name of some indexed cohort, its events as they were indexed, on deployed UEs.

Two stronger statements do not hold; `SourceFrozenCohort.cfg` and `SourceWorkloadGateway.cfg` (with
`MCArmToSummary`) end with the counterexamples, and are kept beside the runs:

* `FrozenCohortIsRun`: what is confirmed is of the frozen cohort. README.md:94 of Experiment 2 says
  that "the frozen design retains ... source cohort identity", and campaign.py:275-277 asks for it
  once, when an invocation begins. A qualification copies an arm of the first cohort, the second is
  prepared and frozen, and runtime.py:84 takes the copy again, on its own manifest alone.
* `WorkloadCarriesSensors`: experiment.yml:20-21 says that the first UE is the workload gateway
  and the second the competing one. A kill after `copytree` (runtime.py:90) and before the mapping
  is written (runtime.py:99) leaves a copy for the UEs the trace was generated for, which is whole,
  and is used as it is if those UEs are deployed.

`ArmsAreFaithful` is proved (`FaithfulArms`) for any trace, set of arms, cohorts, UEs and faults.
The theorem is of `SourceSpec`; of the composition only the step to a replay is no step of it, and that
step leaves the source as `SourceInit` has it.
`ArmInv` is inductive (`ArmInvariant`): an arm that lies in a cohort was made for its name; what is
indexed matched the native arm and is never written over (`CohortInv`); each copy in `inputs/` and
the bundle of a run are an indexed arm of that name, mapped or not, edited or not, and what was
summarised is not edited (`CampaignInv`). Reuse without asking for the cohort keeps it, because
any copy was of an indexed arm when it was made; that is also why the two divergences above are
compatible with it. That an indexed arm is faithful is `FaithfulArm`: offsets are sums of gaps, so
that different offsets with one multiset of gaps are a permutation, and equal ones have the same
end. The assumption on `Native` is what `source.py` makes of every trace: events in the order of
release, each with its own name, released no earlier than it exists.

### 12.2 The measurement

`bundle` and `mapping` are the bundle of the run; `sent`, `receipts` and `lastRecord` the logs;
`arrivals`, `offset` and `clock` what really happened. The roles copy `events.jsonl` to a publisher and no
manifest, so `StartReplay` validates nothing (replay.py:111): an edited trace is replayed, and
refused by `Reconcile`. Copies arrive twice, strays arrive, messages are lost, the collector stops
early or is killed, the bundle is edited (`MaxMishaps`). What an edited trace contains is left open,
as no summary is made of it.

`SummaryIsTrue`: counts are true; an event is late exactly if every true delay exceeds the deadline
by more than its gateway's clock explains; the median delay is right within twice the
uncertainty; ages, unknown time and violations are those of a reference definition, tick by tick.

The rules are those of the code for sessions with one start and a stated clock bound.

Left out: sessions that start apart, peaks and quantiles other than the median, the counters of the
ambient part, deployment evidence, the fields of the payload, edits that also rewrite the manifest.

Known divergences: docs/experiment-readiness.md:263 says that negative delays are exposed, but a
message of the warm-up that is received, by its clock, before it was generated makes `age_process`
raise, and there is no summary (metrics.py:36, 53). The application's age is reported also if the
collector stopped before the window ended. The documents speak of `model.measurement`, reconcile
reads `measurement` (reconcile.py:217). A `prepare_latest` that is killed leaves a directory that
every later attempt refuses (source.py:232).

## 13. Plan

Done: the lifecycle with its contract, `FreshPreparation`, `EvidenceArchive`, `MqttReplay` with
`MqttDelivery`, `CausalCampaign`, `CompetingLoad`, `ReservationAuthority`, `TestbedIdentity`,
`Ex1Campaign` with `Ex1Selection`, `AmbientAccess` with `Receiver`, `PreparedSource` and
`DeliveryMeasurement` with `TimingArms`, and `ArmToSummary` of the two. Each has proofs of its
safety properties but those named in section 14.

Next, in this order:

1. Proofs of the remaining invariants of `AmbientAccess` on top of `AmbientInv`.
2. The orphaned child of `run_step`, as an extension of the lifecycle.
3. The composition of `ReservationAuthority` with `FreshPreparation`, whose `Begin` takes the result
   of the calendar as a choice.
4. What an attempt leaves on the hosts.
5. Several source seeds and a deployment that changes within a campaign, in `PreparedSource`.

## 14. Not modelled

Rendering and validation of configuration (scenario, profiles, CLI, wizard), which are pure and
covered by the repository's contract tools; hash computations; Ansible playbooks beyond "succeeds,
fails or dies" except those named above; the real-valued physical models and their plots
(`propagation.py`, `capacitor.py`, `packet_analysis.py`); the statistics of the analyses; the
maintenance tools under `tools/`, which are contract checks of the repository itself.

Only model-checked:

* the liveness properties and everything about fairness, which the prover does not treat;
* `NobodyIsUnheard`, which relates the plans of all stations over several frames, and
  `OpportunitiesAccounted`, whose balance is over the whole agenda and log: `AmbientInv` is what
  such a proof would start from;
* `SummaryIsTrue`: the reference of the ages is tick by tick, the code's integral is not.

The installed provers cannot instantiate the library's induction theorems. Where a proof needs what
a sum or a recursive function computes, it takes the least place at which the claim would fail
(`NatMin`, `UpTo` and `StepByStep` in `AmbientAccessProofs`, and their like in `StudyProofs`).
