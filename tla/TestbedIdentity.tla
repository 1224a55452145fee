--------------------------- MODULE TestbedIdentity ---------------------------
(***************************************************************************)
(* The identity of a software testbed, from staging to publication: what   *)
(* is sealed, what is observed of the cluster while it goes on living, and *)
(* what is granted on the strength of it (inventory.py,                    *)
(* deployment_identity.py, cluster_identity.py, acceptance.py,             *)
(* testbed_attachment.py, probe_software_ues.py,                           *)
(* collect_cluster_snapshot.py; runner.py of the experiments).             *)
(*                                                                         *)
(* An observation is many kubectl, helm and ping calls.  Pods are replaced *)
(* and get new names, sessions are lost and get new addresses, releases    *)
(* are upgraded and files edited between any two of them.  A value of a    *)
(* file, an image or a release is a number: two contents are told apart    *)
(* and nothing else.                                                       *)
(***************************************************************************)
EXTENDS Integers, FiniteSets

CONSTANTS
    UEs,          \* 1 .. n, in the order of the contract
    PodOf,        \* the pod that a selector of the contract names
    Core,         \* the pod of the user plane
    Addresses,
    Pool,         \* the session network of each UE
    Attempts,     \* how often the probe is tried
    AcceptAge, EligibleAge,   \* how old evidence may be, in ticks
    MaxRuns, MaxChanges       \* bounds

Pods == {PodOf[u] : u \in UEs} \cup {Core}

ASSUME ContractAssumption ==
    /\ IsFiniteSet(UEs) /\ UEs = 1 .. Cardinality(UEs) /\ UEs # {}
    /\ Core \notin {PodOf[u] : u \in UEs}
    /\ \A u \in UEs : Pool[u] \subseteq Addresses
    /\ 0 \notin Addresses
    /\ {Attempts, AcceptAge, EligibleAge, MaxRuns, MaxChanges} \subseteq Nat

VARIABLES
    pc,           \* the step of the controller
    purpose,      \* what it observes for: "seal", "accept" or "run"
    status,       \* of the deployment identity
    (* the cluster *)
    pod,          \* generation, image, readiness and publisher runtime of each
    tunnel,       \* the address of each UE, 0 without a session
    release,      \* values and status of the Helm release of each pod
    attested,     \* the configuration the ConfigMap names
    registry,     \* what the tag of the images means now
    (* files *)
    checkout, staged, manifest, private, prerequisite,
    sealed,       \* the implementation identity, empty until sealed
    (* the observation in progress *)
    tries, ue,
    listed,       \* the pods as the probe has listed them
    bindings,     \* what it has found of each UE, then the evidence
    snapshot,     \* the parts of the snapshot that are read
    age,          \* of the evidence
    (* bounds, and what the properties speak of *)
    runs, changes, quiet, verdict, published

cluster == <<pod, tunnel, release, attested, registry>>
files   == <<checkout, staged, manifest, private, prerequisite>>
found   == <<tries, ue, listed, bindings, snapshot, age>>
ghosts  == <<quiet, verdict, published>>
vars    == <<pc, purpose, status, cluster, files, sealed, found, runs, changes, ghosts>>

NoSession == 0
Selected  == 1     \* the value that the contract, or the first staging, has
NoSnapshot == [pods |-> {}, releases |-> {}, attested |-> {}]

Init ==
    /\ pc = "stage" /\ purpose = "seal" /\ status = "candidate"
    /\ pod = [p \in Pods |-> [gen |-> 0, image |-> 1, ready |-> FALSE, runtime |-> "none"]]
    /\ tunnel = [u \in UEs |-> NoSession]
    /\ release = [p \in Pods |-> [values |-> Selected, state |-> "absent"]]
    /\ attested = 0 /\ registry = 1
    /\ checkout = Selected /\ staged = 0 /\ manifest = 0 /\ private = 0 /\ prerequisite = 0
    /\ sealed = {}
    /\ tries = 0 /\ ue = 1 /\ listed = {} /\ bindings = {} /\ snapshot = NoSnapshot /\ age = 0
    /\ runs = 0 /\ changes = 0 /\ quiet = FALSE /\ verdict = {} /\ published = {}

AtStep(s) == pc = s
GoesTo(s) == pc' = s

(* --------------------- staging and provisioning ------------------------ *)
\* The selected files are copied and the copies hashed.
Stage ==
    /\ AtStep("stage")
    /\ staged' = checkout /\ manifest' = checkout /\ private' = Selected
    /\ GoesTo("provision")
    /\ UNCHANGED <<purpose, status, cluster, checkout, prerequisite, sealed, found, runs,
                   changes, ghosts>>

\* Ansible brings the testbed up, each UE in its session network, and attests it.
Provision ==
    /\ AtStep("provision")
    /\ pod' = [p \in Pods |-> [gen |-> 1, image |-> registry, ready |-> TRUE, runtime |-> "none"]]
    /\ release' = [p \in Pods |-> [values |-> Selected, state |-> "deployed"]]
    /\ tunnel' \in [UEs -> Addresses]
    /\ \A u, v \in UEs : tunnel'[u] \in Pool[u] /\ (u # v => tunnel'[u] # tunnel'[v])
    /\ attested' = Selected /\ prerequisite' = Selected
    /\ GoesTo("pods")
    /\ UNCHANGED <<purpose, status, registry, checkout, staged, manifest, private, sealed,
                   found, runs, changes, ghosts>>

(* ----------------------- how the controller ends ----------------------- *)
\* acceptance.fail, or the run of an experiment ends.
GivesUp ==
    IF purpose = "run" THEN GoesTo("idle") /\ UNCHANGED status
                       ELSE GoesTo("over") /\ status' = "failed"

(* --------------------- the probe of software UEs ----------------------- *)
Looked(p) == CHOOSE l \in listed : l.pod = p

\* Exec by the name that was listed.
Reachable(p, gen) == pod[p].gen = gen

StartObservation(why) ==
    /\ purpose' = why
    /\ tries' = 0 /\ ue' = 1 /\ listed' = {} /\ bindings' = {} /\ snapshot' = NoSnapshot
    /\ age' = 0
    /\ quiet' = TRUE
    /\ GoesTo("list")

ListPods ==
    /\ AtStep("list")
    /\ listed' = {[pod |-> p, gen |-> pod[p].gen, ready |-> pod[p].ready] : p \in Pods}
    /\ ue' = 1 /\ bindings' = {}
    /\ GoesTo("release")
    /\ UNCHANGED <<purpose, status, cluster, files, sealed, tries, snapshot, age, runs,
                   changes, ghosts>>

\* Whether the release is deployed, now, and the pod ready, when it was listed.
RuntimeFound ==
    release[PodOf[ue]].state = "deployed" /\ Looked(PodOf[ue]).ready

ReadRelease ==
    /\ AtStep("release") /\ RuntimeFound
    /\ GoesTo("tunnel")
    /\ UNCHANGED <<purpose, status, cluster, files, sealed, found, runs, changes, ghosts>>

TunnelFound ==
    /\ Reachable(PodOf[ue], Looked(PodOf[ue]).gen)
    /\ tunnel[ue] \in Pool[ue]

ReadTunnel ==
    /\ AtStep("tunnel") /\ TunnelFound
    /\ bindings' = bindings \cup {[ue |-> ue, gen |-> Looked(PodOf[ue]).gen,
                                   address |-> tunnel[ue]]}
    /\ GoesTo("ping")
    /\ UNCHANGED <<purpose, status, cluster, files, sealed, tries, ue, listed, snapshot,
                   age, runs, changes, ghosts>>

\* ping -I <interface>: whatever its address is by now.
UserPlane ==
    /\ Reachable(PodOf[ue], Looked(PodOf[ue]).gen)
    /\ tunnel[ue] # NoSession /\ pod[Core].ready

Ping ==
    /\ AtStep("ping") /\ UserPlane
    /\ IF ue + 1 \in UEs THEN ue' = ue + 1 /\ GoesTo("release")
                         ELSE ue' = ue /\ GoesTo("pods")
    /\ UNCHANGED <<purpose, status, cluster, files, sealed, tries, listed, bindings,
                   snapshot, age, runs, changes, ghosts>>

ProbeFailed ==
    \/ AtStep("release") /\ ~RuntimeFound
    \/ AtStep("tunnel") /\ ~TunnelFound
    \/ AtStep("ping") /\ ~UserPlane

(* ------------------------- the cluster snapshot ------------------------ *)
\* Mutant of ReadPods: the runtime of an experiment counts as a workload.
EphemeralCounted ==
    /\ AtStep("pods")
    /\ snapshot' = [snapshot EXCEPT !.pods =
           {[pod |-> p, image |-> IF pod[p].runtime = "none" THEN pod[p].image ELSE 0,
             ready |-> pod[p].ready] : p \in Pods}]
    /\ GoesTo("releases")
    /\ UNCHANGED <<purpose, status, cluster, files, sealed, tries, ue, listed, bindings, age,
                   runs, changes, ghosts>>

\* The containers of a pod, without the ephemeral ones.
ReadPods ==
    /\ AtStep("pods")
    /\ snapshot' = [snapshot EXCEPT !.pods =
           {[pod |-> p, image |-> pod[p].image, ready |-> pod[p].ready] : p \in Pods}]
    /\ GoesTo("releases")
    /\ UNCHANGED <<purpose, status, cluster, files, sealed, tries, ue, listed, bindings, age,
                   runs, changes, ghosts>>

ReadReleases ==
    /\ AtStep("releases")
    /\ snapshot' = [snapshot EXCEPT !.releases =
           {[pod |-> p, values |-> release[p].values, state |-> release[p].state] :
               p \in {q \in Pods : release[q].state # "absent"}}]
    /\ GoesTo("attestation")
    /\ UNCHANGED <<purpose, status, cluster, files, sealed, tries, ue, listed, bindings, age,
                   runs, changes, ghosts>>

ReadAttestation ==
    /\ AtStep("attestation")
    /\ snapshot' = [snapshot EXCEPT !.attested = {attested}]
    /\ GoesTo(IF purpose = "seal" THEN "seal" ELSE "evidence")
    /\ UNCHANGED <<purpose, status, cluster, files, sealed, tries, ue, listed, bindings, age,
                   runs, changes, ghosts>>

(* --------------------------- what is validated ------------------------- *)
\* selected_cluster_runtime: raises unless all is ready and deployed.
Complete == /\ \A p \in snapshot.pods : p.ready
            /\ \A r \in snapshot.releases : r.state = "deployed"

Runtime == [workloads |-> {[pod |-> p.pod, image |-> p.image] : p \in snapshot.pods},
            releases |-> {[pod |-> r.pod, values |-> r.values] : r \in snapshot.releases}]

CurrentRuntime ==
    /\ Complete /\ snapshot.attested = {Selected}
    /\ \A s \in sealed : Runtime = s.runtime

Retained ==
    /\ staged = manifest
    /\ \A s \in sealed : private = s.private

Prerequisites == \A s \in sealed : prerequisite = s.prerequisite

\* bindings_match_deployment: one binding of each UE, in its session network.
BindingsMatch ==
    /\ {b.ue : b \in bindings} = UEs /\ Cardinality(bindings) = Cardinality(UEs)
    /\ \A b \in bindings : b.address \in Pool[b.ue]

LiveEvidence(maximum) == BindingsMatch /\ age \in 0 .. maximum

Grantable ==
    /\ LiveEvidence(IF purpose = "run" THEN EligibleAge ELSE AcceptAge)
    /\ CurrentRuntime /\ Retained /\ Prerequisites

(* ----------------------- sealing and judging --------------------------- *)
\* The implementation is the one of the checkout; private inputs are as they are now.
Sealable == manifest = checkout /\ Complete

Seal ==
    /\ AtStep("seal") /\ Sealable
    /\ sealed' = {[runtime |-> Runtime, private |-> private, prerequisite |-> prerequisite]}
    /\ status' = "provisioning-complete"
    /\ StartObservation("accept")
    /\ UNCHANGED <<cluster, files, runs, changes, verdict, published>>

RefuseSeal ==
    /\ AtStep("seal") /\ ~Sealable
    /\ GivesUp
    /\ UNCHANGED <<purpose, cluster, files, sealed, found, runs, changes, ghosts>>

\* What the testbed really is, for the property.
Intact ==
    /\ \A s \in sealed :
        /\ s.runtime.workloads = {[pod |-> p, image |-> pod[p].image] : p \in Pods}
        /\ s.runtime.releases = {[pod |-> p, values |-> release[p].values] : p \in Pods}
        /\ private = s.private /\ prerequisite = s.prerequisite
    /\ \A p \in Pods : pod[p].ready /\ release[p].state = "deployed"
    /\ \A u \in UEs : tunnel[u] \in Pool[u]
    /\ attested = Selected /\ staged = manifest

Judged(granted, fresh) ==
    verdict' = {[quiet |-> quiet, intact |-> Intact, fresh |-> fresh, granted |-> granted]}

ProbeAgain ==
    /\ ProbeFailed /\ tries + 1 < Attempts
    /\ tries' = tries + 1
    /\ GoesTo("list")
    /\ UNCHANGED <<purpose, status, cluster, files, sealed, ue, listed, bindings, snapshot,
                   age, runs, changes, ghosts>>

ObservationFails ==
    /\ \/ ProbeFailed /\ tries + 1 >= Attempts
       \/ AtStep("evidence") /\ snapshot.attested # {Selected}
    /\ Judged(FALSE, TRUE)
    /\ GivesUp
    /\ UNCHANGED <<purpose, cluster, files, sealed, found, runs, changes, quiet, published>>

WriteEvidence ==
    /\ AtStep("evidence") /\ snapshot.attested = {Selected}
    /\ age' = 0
    /\ GoesTo("judge")
    /\ UNCHANGED <<purpose, status, cluster, files, sealed, tries, ue, listed, bindings,
                   snapshot, runs, changes, ghosts>>

Fresh == age \in 0 .. (IF purpose = "run" THEN EligibleAge ELSE AcceptAge)

Accept ==
    /\ AtStep("judge") /\ purpose = "accept" /\ Grantable
    /\ status' = "accepted-testbed"
    /\ Judged(TRUE, Fresh)
    /\ GoesTo("idle")
    /\ UNCHANGED <<purpose, cluster, files, sealed, found, runs, changes, quiet, published>>

ProveEligible ==
    /\ AtStep("judge") /\ purpose = "run" /\ Grantable
    /\ Judged(TRUE, Fresh)
    /\ GoesTo("install")
    /\ UNCHANGED <<purpose, status, cluster, files, sealed, found, runs, changes, quiet, published>>

Refuse ==
    /\ AtStep("judge") /\ ~Grantable
    /\ Judged(FALSE, Fresh)
    /\ GivesUp
    /\ UNCHANGED <<purpose, cluster, files, sealed, found, runs, changes, quiet, published>>

(* ------------------------ the run of an experiment --------------------- *)
\* requirements_from_deployment: the shape (core, RAN, platform, radio, profile
\* and nodes) and the UEs of the scenario, exactly.
Requirements == [shape : {Selected, 2}, devices : SUBSET UEs]

\* validate_requirements: each key of the shape as accepted, and the same UEs.
Satisfies(required) ==
    /\ required.shape = Selected
    /\ required.devices \subseteq UEs /\ UEs \subseteq required.devices

Attachable(required) ==
    status = "accepted-testbed" /\ Retained /\ Prerequisites /\ Satisfies(required)

AttachRun(required) ==
    /\ AtStep("idle") /\ runs < MaxRuns
    /\ runs' = runs + 1
    /\ IF Attachable(required) THEN StartObservation("run")
                              ELSE UNCHANGED <<pc, purpose, found, quiet>>
    /\ UNCHANGED <<status, cluster, files, sealed, changes, verdict, published>>

Exists(b) == Reachable(PodOf[b.ue], b.gen)

\* A publisher runtime is added to each pod that has none, and not revived.
Install ==
    /\ AtStep("install")
    /\ \A b \in bindings : Exists(b) /\ pod[PodOf[b.ue]].runtime # "stopped"
    /\ pod' = [p \in Pods |->
           IF p \in {PodOf[b.ue] : b \in bindings} THEN [pod[p] EXCEPT !.runtime = "running"]
                                                   ELSE pod[p]]
    /\ GoesTo("reach")
    /\ UNCHANGED <<purpose, status, tunnel, release, attested, registry, files, sealed, found,
                   runs, changes, ghosts>>

\* The tunnels that what is bound to the address goes through.
Through(b) == {u \in UEs : PodOf[u] = PodOf[b.ue] /\ tunnel[u] = b.address}

Binds(b) == Exists(b) /\ pod[PodOf[b.ue]].runtime = "running" /\ Through(b) # {}

Reach ==
    /\ AtStep("reach")
    /\ pod[Core].ready /\ \A b \in bindings : Binds(b)
    /\ ue' = 1
    /\ GoesTo("start")
    /\ UNCHANGED <<purpose, status, cluster, files, sealed, tries, listed, bindings, snapshot,
                   age, runs, changes, ghosts>>

\* Mutant of Start: the pod is selected as the probe does, not by its name.
StartBySelector ==
    /\ AtStep("start")
    /\ published' = published \cup
           {[ue |-> ue, through |-> Through(b), pod |-> PodOf[ue], image |-> pod[PodOf[ue]].image] :
               b \in {c \in bindings : c.ue = ue}}
    /\ IF ue + 1 \in UEs THEN ue' = ue + 1 /\ UNCHANGED pc ELSE ue' = ue /\ GoesTo("idle")
    /\ UNCHANGED <<purpose, status, cluster, files, sealed, tries, listed, bindings, snapshot,
                   age, runs, changes, quiet, verdict>>

\* One publisher after the other is started; one that cannot bind ends by itself.
Start ==
    /\ AtStep("start")
    /\ published' = published \cup
           {[ue |-> ue, through |-> Through(b), pod |-> PodOf[ue], image |-> pod[PodOf[ue]].image] :
               b \in {c \in bindings : c.ue = ue /\ Binds(c)}}
    /\ IF ue + 1 \in UEs THEN ue' = ue + 1 /\ UNCHANGED pc ELSE ue' = ue /\ GoesTo("idle")
    /\ UNCHANGED <<purpose, status, cluster, files, sealed, tries, listed, bindings, snapshot,
                   age, runs, changes, quiet, verdict>>

RunFails ==
    /\ \/ /\ AtStep("install")
          /\ \E b \in bindings : ~Exists(b) \/ pod[PodOf[b.ue]].runtime = "stopped"
       \/ AtStep("reach") /\ (~pod[Core].ready \/ \E b \in bindings : ~Binds(b))
    /\ GivesUp
    /\ UNCHANGED <<purpose, cluster, files, sealed, found, runs, changes, ghosts>>

(* ------------------- what goes on in the meantime ----------------------- *)
Ended == AtStep("over") \/ (AtStep("idle") /\ runs = MaxRuns)
Provisioned == pc \notin {"stage", "provision"} /\ ~Ended
Change == Provisioned /\ changes < MaxChanges /\ changes' = changes + 1 /\ quiet' = FALSE

SessionsLost(p) ==
    [u \in UEs |-> IF p = Core \/ PodOf[u] = p THEN NoSession ELSE tunnel[u]]

Successor(p) == [gen |-> pod[p].gen + 1, image |-> registry, ready |-> FALSE, runtime |-> "none"]

ReplacePod(p) ==
    /\ Change
    /\ pod' = [pod EXCEPT ![p] = Successor(p)]
    /\ tunnel' = SessionsLost(p)
    /\ UNCHANGED <<pc, purpose, status, release, attested, registry, files, sealed, found,
                   runs, verdict, published>>

LoseSession(u) ==
    /\ tunnel[u] # NoSession /\ Change
    /\ tunnel' = [tunnel EXCEPT ![u] = NoSession]
    /\ UNCHANGED <<pc, purpose, status, pod, release, attested, registry, files, sealed,
                   found, runs, verdict, published>>

StopRuntime(p) ==
    /\ pod[p].runtime = "running" /\ Change
    /\ pod' = [pod EXCEPT ![p].runtime = "stopped"]
    /\ UNCHANGED <<pc, purpose, status, tunnel, release, attested, registry, files, sealed,
                   found, runs, verdict, published>>

MoveTag ==
    /\ registry = 1 /\ Change
    /\ registry' = 2
    /\ UNCHANGED <<pc, purpose, status, pod, tunnel, release, attested, files, sealed, found,
                   runs, verdict, published>>

Upgrade(p) ==
    /\ release[p].state = "deployed" /\ Change
    /\ release' = [release EXCEPT ![p] = [values |-> 2, state |-> "pending"]]
    /\ UNCHANGED <<pc, purpose, status, pod, tunnel, attested, registry, files, sealed, found,
                   runs, verdict, published>>

Attest ==
    /\ attested = Selected /\ Change
    /\ attested' = 2
    /\ UNCHANGED <<pc, purpose, status, pod, tunnel, release, registry, files, sealed, found,
                   runs, verdict, published>>

Other(value) == 3 - value

Edit ==
    /\ Change
    /\ \/ checkout' = Other(checkout) /\ UNCHANGED <<staged, private, prerequisite>>
       \/ staged' = Other(staged) /\ UNCHANGED <<checkout, private, prerequisite>>
       \/ private' = Other(private) /\ UNCHANGED <<checkout, staged, prerequisite>>
       \/ prerequisite' = Other(prerequisite) /\ UNCHANGED <<checkout, staged, private>>
    /\ UNCHANGED <<pc, purpose, status, cluster, manifest, sealed, found, runs, verdict, published>>

\* The cluster goes on by itself.
Heals == quiet' = FALSE
         /\ UNCHANGED <<pc, purpose, status, attested, registry, files, sealed, found, runs,
                        changes, verdict, published>>

PodReady(p) ==
    /\ Provisioned /\ ~pod[p].ready
    /\ pod' = [pod EXCEPT ![p].ready = TRUE]
    /\ UNCHANGED <<tunnel, release>> /\ Heals

\* A UE whose release has other values may end up in another network.
Granted(u) == IF release[PodOf[u]].values = Selected THEN Pool[u] ELSE Addresses

Register(u) ==
    /\ Provisioned /\ tunnel[u] = NoSession
    /\ pod[PodOf[u]].ready /\ pod[Core].ready
    /\ \E a \in Granted(u) \ {tunnel[v] : v \in UEs} : tunnel' = [tunnel EXCEPT ![u] = a]
    /\ UNCHANGED <<pod, release>> /\ Heals

RollOut(p) ==
    /\ Provisioned /\ release[p].state = "pending"
    /\ release' = [release EXCEPT ![p].state = "deployed"]
    /\ pod' = [pod EXCEPT ![p] = Successor(p)]
    /\ tunnel' = SessionsLost(p)
    /\ Heals

\* Time passes between the evidence and the judgement; a clock may be set back.
Wait ==
    /\ AtStep("judge") /\ age <= AcceptAge
    /\ age' = age + 1
    /\ UNCHANGED <<pc, purpose, status, cluster, files, sealed, tries, ue, listed, bindings,
                   snapshot, runs, changes, ghosts>>

SetClockBack ==
    /\ AtStep("judge") /\ age = 0 /\ changes < MaxChanges
    /\ age' = -1 /\ changes' = changes + 1
    /\ UNCHANGED <<pc, purpose, status, cluster, files, sealed, tries, ue, listed, bindings,
                   snapshot, runs, ghosts>>

Controller ==
    \/ Stage \/ Provision
    \/ ListPods \/ ReadRelease \/ ReadTunnel \/ Ping \/ ProbeAgain \/ ObservationFails
    \/ ReadPods \/ ReadReleases \/ ReadAttestation \/ Seal \/ RefuseSeal
    \/ WriteEvidence \/ Accept \/ ProveEligible \/ Refuse
    \/ \E required \in Requirements : AttachRun(required)
    \/ Install \/ Reach \/ Start \/ RunFails

Environment ==
    \/ \E p \in Pods : ReplacePod(p) \/ StopRuntime(p) \/ Upgrade(p) \/ PodReady(p) \/ RollOut(p)
    \/ \E u \in UEs : LoseSession(u) \/ Register(u)
    \/ MoveTag \/ Attest \/ Edit \/ Wait \/ SetClockBack

Rest == Ended /\ UNCHANGED vars

Next == Controller \/ Environment \/ Rest

Spec == Init /\ [][Next]_vars

(* ------------------------------ properties ----------------------------- *)
(* A publisher only runs on the image that was sealed, and what it sends     *)
(* goes through the tunnel of its own UE, in the network of its slice,       *)
(* whatever was replaced, moved or registered anew since the cluster was     *)
(* last looked at (software_ue_publish; cluster_identity.py).                *)
PublishedAsSealed ==
    \A s \in sealed, p \in published :
        /\ [pod |-> p.pod, image |-> p.image] \in s.runtime.workloads
        /\ p.through = {p.ue}

(* Of a testbed that nobody and nothing touches while it is observed, the    *)
(* judgement is right both ways: it is granted if it is what was sealed, in  *)
(* full and with all its user planes, and the evidence neither old nor of    *)
(* the future, and refused otherwise.  What an experiment has left in the    *)
(* pods is no difference (testbed_attachment.py; acceptance.py).             *)
JudgedRight == \A v \in verdict : v.quiet => (v.granted <=> v.intact /\ v.fresh)
=============================================================================
