---------------------------- MODULE StudyProofs ----------------------------
(***************************************************************************)
(* A study is of what was prepared for it: the publishers of a software    *)
(* testbed are the sealed ones (TestbedIdentity), and what is replayed and *)
(* summarised is a timing arm that is faithful to the native trace         *)
(* (PreparedSource with TimingArms).                                       *)
(*                                                                         *)
(* What is granted and published of a software testbed is what was sealed, *)
(* for any number of UEs, pods, runs and changes.                          *)
(*                                                                         *)
(* The argument: the name of a pod fixes its image, and pods only move on  *)
(* to later names.  A binding is of a name that was listed before the      *)
(* snapshot was read, so that a pod which still has that name is the one   *)
(* in the snapshot, and what was granted on the snapshot holds of it.      *)
(* While nothing is touched, what was read is what is there.               *)
(***************************************************************************)
EXTENDS TestbedIdentity, PreparedSource, FiniteSetTheorems, FunctionTheorems,
        SequenceTheorems, WellFoundedInduction, TLAPS

Steps == {"stage", "provision", "list", "release", "tunnel", "ping", "pods", "releases",
          "attestation", "seal", "evidence", "judge", "idle", "over", "install", "reach", "start"}

PodStates == [gen : Nat, image : Int, ready : BOOLEAN, runtime : {"none", "running", "stopped"}]
Releases  == [values : Int, state : {"absent", "deployed", "pending"}]
Listings  == [pod : Pods, gen : Nat, ready : BOOLEAN]
Bindings  == [ue : UEs, gen : Nat, address : Addresses]
Snapshots == [pods : SUBSET [pod : Pods, image : Int, ready : BOOLEAN],
              releases : SUBSET [pod : Pods, values : Int, state : {"absent", "deployed", "pending"}],
              attested : SUBSET Int]

ClusterTyped ==
    /\ pod \in [Pods -> PodStates]
    /\ tunnel \in [UEs -> Addresses \cup {NoSession}]
    /\ release \in [Pods -> Releases]
    /\ attested \in Int /\ registry \in Int

FoundTyped ==
    /\ ue \in UEs
    /\ listed \subseteq Listings
    /\ bindings \subseteq Bindings
    /\ snapshot \in Snapshots
    /\ age \in Int

Typed ==
    /\ pc \in Steps /\ purpose \in {"seal", "accept", "run"} /\ quiet \in BOOLEAN
    /\ ClusterTyped /\ FoundTyped

\* What the controller is about, where it is.
CourseInv ==
    /\ pc \in {"stage", "provision", "seal"} => purpose = "seal"
    /\ pc \in {"list", "release", "tunnel", "ping", "evidence", "judge", "idle"} => purpose # "seal"
    /\ pc \in {"install", "reach", "start"} => purpose = "run"
    /\ purpose = "seal" <=> sealed = {}
    /\ purpose = "seal" => ~quiet /\ published = {} /\ bindings = {} /\ listed = {}
    /\ pc \notin {"stage", "provision"} => \A p \in Pods : release[p].state # "absent"

\* Nothing that was found has a name of the future.
NameInv ==
    /\ \A l \in listed : l.gen <= pod[l.pod].gen
    /\ \A b \in bindings : b.gen <= pod[PodOf[b.ue]].gen

\* The probe visits one UE after the other.
Visited == {b.ue : b \in bindings}

ProbeInv ==
    /\ pc \in {"release", "tunnel", "ping"} =>
           \A p \in Pods : Looked(p) \in listed /\ Looked(p).pod = p
    /\ \A b \in bindings : b.address \in Pool[b.ue]
    /\ \A b, c \in bindings : b.ue = c.ue => b = c
    /\ purpose # "seal" =>
           /\ pc \in {"release", "tunnel"} => Visited = 1 .. ue - 1
           /\ pc = "ping" => Visited = 1 .. ue
           /\ pc \in {"pods", "releases", "attestation", "evidence", "judge"} => Visited = UEs

\* A pod that still has the name by which it was bound is in the snapshot with its image.
Imaged(b) ==
    \E q \in snapshot.pods : q.pod = PodOf[b.ue] /\ q.image = pod[PodOf[b.ue]].image

AfterPods == {"releases", "attestation", "seal", "evidence", "judge", "install", "reach", "start"}

ImageInv ==
    /\ pc \in AfterPods => \A b \in bindings : Exists(b) => Imaged(b)
    /\ pc \in {"install", "reach", "start"} => \A s \in sealed : Runtime = s.runtime

\* As long as nothing is touched, what was read is what is there.
QuietInv ==
    quiet =>
        /\ pc \in {"release", "tunnel", "ping"} =>
               \A p \in Pods : Looked(p).gen = pod[p].gen /\ Looked(p).ready = pod[p].ready
        /\ \A b \in bindings : b.address = tunnel[b.ue]
        /\ pc \in {"releases", "attestation", "evidence", "judge"} =>
               snapshot.pods = {[pod |-> p, image |-> pod[p].image, ready |-> pod[p].ready] :
                                    p \in Pods}
        /\ pc \in {"attestation", "evidence", "judge"} =>
               snapshot.releases = {[pod |-> p, values |-> release[p].values,
                                     state |-> release[p].state] : p \in Pods}
        /\ pc \in {"evidence", "judge"} => snapshot.attested = {attested}

\* What was sealed is a runtime.
SealedInv ==
    \A s \in sealed : s.runtime = [workloads |-> s.runtime.workloads,
                                  releases |-> s.runtime.releases]

IdentityInv ==
    /\ Typed /\ CourseInv /\ NameInv /\ ProbeInv /\ ImageInv /\ QuietInv /\ SealedInv
    /\ JudgedRight

\* Every UE has a pod of its own.
OwnPods == \A u, v \in UEs : PodOf[u] = PodOf[v] => u = v

----------------------------------------------------------------------------
(* What the steps do.                                                       *)

LEMMA PodsOfUEs == Core \in Pods /\ \A u \in UEs : PodOf[u] \in Pods
BY DEF Pods

\* A pod is replaced by one of the next generation.
LEMMA SuccessorTyped ==
    ASSUME ClusterTyped, NEW p \in Pods
    PROVE  /\ Successor(p) \in PodStates
           /\ Successor(p).gen = pod[p].gen + 1
BY DEF ClusterTyped, PodStates, Successor

LEMMA SessionsLostTyped ==
    ASSUME ClusterTyped, NEW p \in Pods
    PROVE  SessionsLost(p) \in [UEs -> Addresses \cup {NoSession}]
BY DEF ClusterTyped, SessionsLost

\* What the cluster and those around it do, to what the controller keeps and
\* to the names of pods; whoever touches the testbed ends the quiet.
Names ==
    \A p \in Pods : \/ pod'[p].gen > pod[p].gen
                    \/ pod'[p].gen = pod[p].gen /\ pod'[p].image = pod[p].image

Lasting == \A p \in Pods : release[p].state # "absent" => release'[p].state # "absent"

Noticed == ~quiet' \/ (quiet /\ UNCHANGED <<pod, tunnel, release, attested>>)

Kept == UNCHANGED <<pc, purpose, sealed, tries, ue, listed, bindings, snapshot, verdict, published>>

Outside == Kept /\ ClusterTyped' /\ age' \in Int /\ quiet' \in BOOLEAN /\ Names /\ Lasting /\ Noticed

LEMMA EnvironmentEffect ==
    ASSUME Typed, Environment
    PROVE  Outside
<1> USE DEF Typed, ClusterTyped, FoundTyped, Outside, Kept, Names, Lasting, Noticed, Change, Heals,
            found, files, cluster, ghosts
<1>1. ASSUME NEW p \in Pods, ReplacePod(p) PROVE Outside
  <2>1. /\ pod' = [pod EXCEPT ![p] = Successor(p)] /\ tunnel' = SessionsLost(p)
        /\ quiet' = FALSE /\ UNCHANGED <<release, attested, registry, age>> /\ Kept
    BY <1>1 DEF ReplacePod
  <2>2. pod' \in [Pods -> PodStates] /\ tunnel' \in [UEs -> Addresses \cup {NoSession}]
    BY <2>1, SuccessorTyped, SessionsLostTyped
  <2>3. Names
    BY <2>1, SuccessorTyped DEF PodStates
  <2> QED
    BY <2>1, <2>2, <2>3
<1>2. ASSUME NEW p \in Pods, StopRuntime(p) PROVE Outside
  BY <1>2 DEF StopRuntime, PodStates
<1>3. ASSUME NEW p \in Pods, Upgrade(p) PROVE Outside
  <2>1. /\ release' = [release EXCEPT ![p] = [values |-> 2, state |-> "pending"]]
        /\ quiet' = FALSE /\ UNCHANGED <<pod, tunnel, attested, registry, age>> /\ Kept
    BY <1>3 DEF Upgrade
  <2>2. release' \in [Pods -> Releases] /\ Lasting
    BY <2>1 DEF Releases
  <2> QED
    BY <2>1, <2>2
<1>4. ASSUME NEW p \in Pods, PodReady(p) PROVE Outside
  BY <1>4 DEF PodReady, PodStates
<1>5. ASSUME NEW p \in Pods, RollOut(p) PROVE Outside
  <2>1. /\ pod' = [pod EXCEPT ![p] = Successor(p)] /\ tunnel' = SessionsLost(p)
        /\ release' = [release EXCEPT ![p].state = "deployed"]
        /\ quiet' = FALSE /\ UNCHANGED <<attested, registry, age>> /\ Kept
    BY <1>5 DEF RollOut
  <2>2. pod' \in [Pods -> PodStates] /\ tunnel' \in [UEs -> Addresses \cup {NoSession}]
    BY <2>1, SuccessorTyped, SessionsLostTyped
  <2>3. Names
    BY <2>1, SuccessorTyped DEF PodStates
  <2>4. release' \in [Pods -> Releases] /\ Lasting
    BY <2>1 DEF Releases
  <2> QED
    BY <2>1, <2>2, <2>3, <2>4
<1>6. ASSUME NEW u \in UEs, LoseSession(u) PROVE Outside
  BY <1>6 DEF LoseSession
<1>7. ASSUME NEW u \in UEs, Register(u) PROVE Outside
  <2>1. PICK a \in Granted(u) : tunnel' = [tunnel EXCEPT ![u] = a]
    BY <1>7 DEF Register
  <2>2. a \in Addresses
    BY <2>1, ContractAssumption DEF Granted
  <2> QED
    BY <1>7, <2>1, <2>2 DEF Register
<1>8. CASE MoveTag \/ Attest \/ Edit
  <2>1. /\ UNCHANGED <<pod, tunnel, release, age>> /\ quiet' = FALSE /\ Kept
        /\ attested' \in Int /\ registry' \in Int
    BY <1>8 DEF MoveTag, Attest, Edit
  <2> QED
    BY <2>1
<1>9. CASE Wait \/ SetClockBack
  <2>1. /\ UNCHANGED <<pod, tunnel, release, attested, registry, quiet>> /\ Kept
        /\ age' \in Int
    BY <1>9 DEF Wait, SetClockBack
  <2> QED
    BY <2>1
<1> QED
  BY <1>1, <1>2, <1>3, <1>4, <1>5, <1>6, <1>7, <1>8, <1>9 DEF Environment

\* All the controller does to the cluster is to bring it up and to add runtimes.
Steady == UNCHANGED <<pod, tunnel, release, attested, registry>>

Watching ==
    \/ ListPods \/ ReadRelease \/ ReadTunnel \/ Ping \/ ProbeAgain \/ ObservationFails
    \/ ReadPods \/ ReadReleases \/ ReadAttestation \/ Seal \/ RefuseSeal
    \/ WriteEvidence \/ Accept \/ ProveEligible \/ Refuse
    \/ \E required \in Requirements : AttachRun(required)
    \/ Reach \/ Start \/ RunFails

LEMMA ControllerSplit ==
    Controller <=> Stage \/ Provision \/ Install \/ Watching
BY DEF Controller, Watching

LEMMA WatchingIsSteady == ASSUME Watching PROVE Steady
BY DEF Watching, Steady, ListPods, ReadRelease, ReadTunnel, Ping, ProbeAgain, ObservationFails,
       ReadPods, ReadReleases, ReadAttestation, Seal, RefuseSeal, WriteEvidence, Accept,
       ProveEligible, Refuse, AttachRun, Reach, Start, RunFails, cluster

\* A granted observation is attested and what was sealed.
LEMMA Begins ==
    ASSUME NEW why, StartObservation(why)
    PROVE  /\ pc' = "list" /\ purpose' = why /\ quiet' = TRUE /\ ue' = 1 /\ age' = 0
           /\ listed' = {} /\ bindings' = {} /\ snapshot' = NoSnapshot
BY DEF StartObservation, GoesTo

LEMMA FirstUE == 1 \in UEs
<1>1. PICK n \in UEs : TRUE
  BY ContractAssumption
<1>2. Cardinality(UEs) \in Nat
  BY ContractAssumption, FS_CardinalityType
<1> QED
  BY <1>1, <1>2, ContractAssumption

LEMMA NoSnapshotTyped == NoSnapshot \in Snapshots
BY DEF NoSnapshot, Snapshots

\* What Install does to a pod.
LEMMA InstallEffect ==
    ASSUME Typed, Install
    PROVE  /\ pod' \in [Pods -> PodStates]
           /\ \A p \in Pods : /\ pod'[p].gen = pod[p].gen /\ pod'[p].image = pod[p].image
                              /\ pod'[p].ready = pod[p].ready
<1>1. pod' = [p \in Pods |->
           IF p \in {PodOf[b.ue] : b \in bindings} THEN [pod[p] EXCEPT !.runtime = "running"]
                                                   ELSE pod[p]]
  BY DEF Install
<1>2. pod \in [Pods -> PodStates]
  BY DEF Typed, ClusterTyped
<1>3. \A p \in Pods : [pod[p] EXCEPT !.runtime = "running"] \in PodStates
  BY <1>2 DEF PodStates
<1>4. \A p \in Pods : pod'[p] \in {pod[p], [pod[p] EXCEPT !.runtime = "running"]}
  BY <1>1
<1>5. pod' \in [Pods -> PodStates]
  BY <1>1, <1>2, <1>3
<1> QED
  BY <1>2, <1>4, <1>5 DEF PodStates

LEMMA ProvisionEffect ==
    ASSUME Typed, Provision
    PROVE  /\ ClusterTyped' /\ \A p \in Pods : release'[p].state # "absent"
<1>1. /\ pod' = [p \in Pods |-> [gen |-> 1, image |-> registry, ready |-> TRUE, runtime |-> "none"]]
      /\ release' = [p \in Pods |-> [values |-> Selected, state |-> "deployed"]]
      /\ tunnel' \in [UEs -> Addresses]
      /\ attested' = Selected /\ registry' = registry
  BY DEF Provision
<1> QED
  BY <1>1 DEF Typed, ClusterTyped, PodStates, Releases, Selected

----------------------------------------------------------------------------
(* The invariant.                                                           *)

LEMMA TypedInit == ASSUME Init PROVE Typed
<1>1. ClusterTyped
  BY DEF Init, ClusterTyped, PodStates, Releases, Selected
<1>2. FoundTyped
  BY FirstUE, NoSnapshotTyped DEF Init, FoundTyped
<1> QED
  BY <1>1, <1>2 DEF Init, Typed, Steps

LEMMA FoundStays ==
    ASSUME Typed, UNCHANGED <<ue, listed, bindings, snapshot, age>>
    PROVE  FoundTyped'
BY DEF Typed, FoundTyped

LEMMA FoundBegins ==
    ASSUME Typed, NEW why, StartObservation(why)
    PROVE  FoundTyped'
<1>1. /\ ue' = 1 /\ age' = 0 /\ listed' = {} /\ bindings' = {} /\ snapshot' = NoSnapshot
  BY Begins
<1> QED
  BY <1>1, FirstUE, NoSnapshotTyped DEF FoundTyped

LEMMA FoundNext ==
    ASSUME Typed, ProbeInv, Watching
    PROVE  FoundTyped'
<1>1. CASE \/ ReadRelease \/ ProbeAgain \/ ObservationFails \/ RefuseSeal \/ Accept
           \/ ProveEligible \/ Refuse \/ RunFails
  BY <1>1, FoundStays DEF ReadRelease, ProbeAgain, ObservationFails, RefuseSeal, Accept,
     ProveEligible, Refuse, RunFails, found
<1>2. CASE Seal
  BY <1>2, FoundBegins DEF Seal
<1>3. ASSUME NEW required \in Requirements, AttachRun(required) PROVE FoundTyped'
  <2>1. CASE Attachable(required)
    BY <1>3, <2>1, FoundBegins DEF AttachRun
  <2>2. CASE ~Attachable(required)
    BY <1>3, <2>2, FoundStays DEF AttachRun, found
  <2> QED
    BY <2>1, <2>2
<1>4. CASE ListPods
  <2>1. {[pod |-> p, gen |-> pod[p].gen, ready |-> pod[p].ready] : p \in Pods} \subseteq Listings
    BY DEF Typed, ClusterTyped, PodStates, Listings
  <2> QED
    BY <1>4, <2>1, FirstUE DEF ListPods, Typed, FoundTyped
<1>5. CASE ReadTunnel
  <2>1. /\ Looked(PodOf[ue]) \in Listings /\ ue \in UEs /\ tunnel[ue] \in Pool[ue]
        /\ pc = "tunnel"
    BY <1>5, PodsOfUEs DEF ReadTunnel, TunnelFound, AtStep, ProbeInv, Typed, FoundTyped
  <2>2. [ue |-> ue, gen |-> Looked(PodOf[ue]).gen, address |-> tunnel[ue]] \in Bindings
    BY <2>1, ContractAssumption DEF Listings, Bindings
  <2> QED
    BY <1>5, <2>2 DEF ReadTunnel, Typed, FoundTyped
<1>6. CASE Ping \/ Reach \/ Start
  <2>1. ue' \in UEs /\ UNCHANGED <<listed, bindings, snapshot, age>>
    BY <1>6, FirstUE DEF Ping, Reach, Start, Typed, FoundTyped
  <2> QED
    BY <2>1 DEF Typed, FoundTyped
<1>7. CASE ReadPods
  <2>1. {[pod |-> p, image |-> pod[p].image, ready |-> pod[p].ready] : p \in Pods}
            \in SUBSET [pod : Pods, image : Int, ready : BOOLEAN]
    BY DEF Typed, ClusterTyped, PodStates
  <2>2. snapshot' \in Snapshots
    BY <1>7, <2>1 DEF ReadPods, Typed, FoundTyped, Snapshots
  <2> QED
    BY <1>7, <2>2 DEF ReadPods, Typed, FoundTyped
<1>8. CASE ReadReleases
  <2>1. {[pod |-> p, values |-> release[p].values, state |-> release[p].state] :
               p \in {q \in Pods : release[q].state # "absent"}}
            \in SUBSET [pod : Pods, values : Int, state : {"absent", "deployed", "pending"}]
    BY DEF Typed, ClusterTyped, Releases
  <2>2. snapshot' \in Snapshots
    BY <1>8, <2>1 DEF ReadReleases, Typed, FoundTyped, Snapshots
  <2> QED
    BY <1>8, <2>2 DEF ReadReleases, Typed, FoundTyped
<1>9. CASE ReadAttestation
  <2>1. snapshot' \in Snapshots
    BY <1>9 DEF ReadAttestation, Typed, ClusterTyped, FoundTyped, Snapshots
  <2> QED
    BY <1>9, <2>1 DEF ReadAttestation, Typed, FoundTyped
<1>10. CASE WriteEvidence
  BY <1>10 DEF WriteEvidence, Typed, FoundTyped
<1> QED
  BY <1>1, <1>2, <1>3, <1>4, <1>5, <1>6, <1>7, <1>8, <1>9, <1>10 DEF Watching

\* Where the controller goes.
LEMMA ControlNext ==
    ASSUME Typed, Controller
    PROVE  pc' \in Steps /\ purpose' \in {"seal", "accept", "run"} /\ quiet' \in BOOLEAN
BY DEF Typed, Steps, Controller, Stage, Provision, ListPods, ReadRelease, ReadTunnel, Ping,
       ProbeAgain, ObservationFails, ReadPods, ReadReleases, ReadAttestation, Seal, RefuseSeal,
       WriteEvidence, Accept, ProveEligible, Refuse, AttachRun, Install, Reach, Start, RunFails,
       StartObservation, GivesUp, GoesTo, ghosts

LEMMA TypedNext ==
    ASSUME Typed, ProbeInv, [Next]_vars
    PROVE  Typed'
<1>1. CASE Controller
  <2>1. pc' \in Steps /\ purpose' \in {"seal", "accept", "run"} /\ quiet' \in BOOLEAN
    BY <1>1, ControlNext
  <2>2. CASE Stage \/ Provision \/ Install
    <3>1. FoundTyped'
      BY <2>2, FoundStays DEF Stage, Provision, Install, found
    <3>2. ClusterTyped'
      BY <2>2, ProvisionEffect, InstallEffect
         DEF Stage, Install, cluster, Typed, ClusterTyped
    <3> QED
      BY <2>1, <3>1, <3>2 DEF Typed
  <2>3. CASE Watching
    BY <2>1, <2>3, FoundNext, WatchingIsSteady DEF Typed, ClusterTyped, Steady
  <2> QED
    BY <1>1, <2>2, <2>3, ControllerSplit
<1>2. CASE Environment
  BY <1>2, EnvironmentEffect DEF Outside, Kept, Typed, FoundTyped
<1>3. CASE UNCHANGED vars
  BY <1>3 DEF vars, cluster, files, found, ghosts, Typed, ClusterTyped, FoundTyped
<1> QED
  BY <1>1, <1>2, <1>3 DEF Next, Rest

LEMMA CourseNext ==
    ASSUME Typed, CourseInv, [Next]_vars
    PROVE  CourseInv'
<1> USE DEF CourseInv
<1>1. CASE Stage
  BY <1>1 DEF Stage, AtStep, GoesTo, ghosts, found
<1>2. CASE Provision
  BY <1>2, ProvisionEffect DEF Provision, AtStep, GoesTo, ghosts, found
<1>3. CASE Install
  BY <1>3 DEF Install, AtStep, GoesTo, ghosts, found
<1>4. CASE Watching
  <2>1. UNCHANGED release
    BY <1>4, WatchingIsSteady DEF Steady
  <2>2. CASE \/ ListPods \/ ReadRelease \/ ReadTunnel \/ Ping \/ ProbeAgain \/ ReadPods
             \/ ReadReleases \/ ReadAttestation \/ WriteEvidence
    BY <2>1, <2>2 DEF ListPods, ReadRelease, ReadTunnel, Ping, ProbeAgain, ReadPods, ReadReleases,
       ReadAttestation, WriteEvidence, AtStep, GoesTo, ghosts, found, ProbeFailed
  <2>3. CASE ObservationFails \/ RefuseSeal \/ Refuse \/ RunFails
    <3>1. /\ UNCHANGED <<purpose, quiet, sealed, published, listed, bindings>>
          /\ pc' = "over" \/ (pc' = "idle" /\ purpose = "run")
          /\ pc \notin {"stage", "provision"}
      BY <2>3 DEF ObservationFails, RefuseSeal, Refuse, RunFails, GivesUp, ProbeFailed,
         AtStep, GoesTo, ghosts, found
    <3> QED
      BY <2>1, <3>1
  <2>4. CASE Seal
    <3>1. pc' = "list" /\ purpose' = "accept" /\ sealed' # {} /\ pc = "seal"
      BY <2>4, Begins DEF Seal, AtStep
    <3> QED
      BY <2>1, <3>1
  <2>5. ASSUME NEW required \in Requirements, AttachRun(required) PROVE CourseInv'
    <3>1. CASE Attachable(required)
      <4>1. /\ pc' = "list" /\ purpose' = "run" /\ pc = "idle" /\ UNCHANGED <<sealed, published>>
        BY <2>5, <3>1, Begins DEF AttachRun, AtStep
      <4> QED
        BY <2>1, <4>1
    <3>2. CASE ~Attachable(required)
      BY <2>1, <2>5, <3>2 DEF AttachRun, found
    <3> QED
      BY <3>1, <3>2
  <2>6. CASE Accept \/ ProveEligible \/ Reach \/ Start
    BY <2>1, <2>6 DEF Accept, ProveEligible, Reach, Start, AtStep, GoesTo, ghosts, found
  <2> QED
    BY <1>4, <2>2, <2>3, <2>4, <2>5, <2>6 DEF Watching
<1>5. CASE Environment
  <2>1. Kept /\ Lasting /\ Noticed
    BY <1>5, EnvironmentEffect DEF Outside
  <2> QED
    BY <2>1 DEF Kept, Lasting, Noticed, Typed
<1>6. CASE UNCHANGED vars
  BY <1>6 DEF vars, cluster, files, found, ghosts
<1> QED
  BY <1>1, <1>2, <1>3, <1>4, <1>5, <1>6, ControllerSplit DEF Next, Rest

\* Names only move on.
LEMMA NameKept ==
    ASSUME Typed, NameInv, UNCHANGED <<listed, bindings>>, pod' \in [Pods -> PodStates],
           \A p \in Pods : pod'[p].gen >= pod[p].gen
    PROVE  NameInv'
<1>1. /\ \A l \in listed : l.pod \in Pods /\ l.gen \in Nat
      /\ \A b \in bindings : PodOf[b.ue] \in Pods /\ b.gen \in Nat
  BY PodsOfUEs DEF Typed, FoundTyped, Listings, Bindings
<1>2. \A p \in Pods : pod[p].gen \in Nat /\ pod'[p].gen \in Nat
  BY DEF Typed, ClusterTyped, PodStates
<1> QED
  BY <1>1, <1>2 DEF NameInv

LEMMA NameNext ==
    ASSUME Typed, CourseInv, NameInv, ProbeInv, [Next]_vars
    PROVE  NameInv'
<1>0. \A p \in Pods : pod[p].gen \in Nat
  BY DEF Typed, ClusterTyped, PodStates
<1>1. CASE Stage \/ Provision
  BY <1>1 DEF Stage, Provision, CourseInv, AtStep, found, NameInv
<1>2. CASE Install
  <2>1. UNCHANGED <<listed, bindings>>
    BY <1>2 DEF Install, found
  <2>2. pod' \in [Pods -> PodStates] /\ \A p \in Pods : pod'[p].gen >= pod[p].gen
    BY <1>0, <1>2, InstallEffect
  <2> QED
    BY <2>1, <2>2, NameKept
<1>3. CASE ListPods
  <2>1. UNCHANGED pod /\ bindings' = {}
        /\ listed' = {[pod |-> p, gen |-> pod[p].gen, ready |-> pod[p].ready] : p \in Pods}
    BY <1>3, WatchingIsSteady DEF ListPods, Watching, Steady
  <2> QED
    BY <1>0, <2>1 DEF NameInv
<1>4. CASE ReadTunnel
  <2>1. /\ UNCHANGED <<pod, listed>>
        /\ bindings' = bindings \cup {[ue |-> ue, gen |-> Looked(PodOf[ue]).gen,
                                       address |-> tunnel[ue]]}
        /\ Looked(PodOf[ue]) \in listed /\ Looked(PodOf[ue]).pod = PodOf[ue]
    BY <1>4, PodsOfUEs DEF ReadTunnel, cluster, AtStep, ProbeInv, Typed, FoundTyped
  <2>2. Looked(PodOf[ue]).gen <= pod[PodOf[ue]].gen
    BY <2>1 DEF NameInv
  <2> QED
    BY <2>1, <2>2 DEF NameInv
<1>5. CASE Watching /\ ~ListPods /\ ~ReadTunnel
  <2>1. UNCHANGED pod
    BY <1>5, WatchingIsSteady DEF Steady
  <2>2. UNCHANGED <<listed, bindings>> \/ (listed' = {} /\ bindings' = {})
    BY <1>5, Begins DEF Watching, ReadRelease, Ping, ProbeAgain, ObservationFails, ReadPods,
       ReadReleases, ReadAttestation, Seal, RefuseSeal, WriteEvidence, Accept, ProveEligible,
       Refuse, AttachRun, Reach, Start, RunFails, found
  <2> QED
    BY <2>1, <2>2 DEF NameInv
<1>6. CASE Environment
  <2>1. UNCHANGED <<listed, bindings>> /\ pod' \in [Pods -> PodStates] /\ Names
    BY <1>6, EnvironmentEffect DEF Outside, Kept, ClusterTyped
  <2>2. \A p \in Pods : pod'[p].gen \in Nat
    BY <2>1 DEF PodStates
  <2>3. \A p \in Pods : pod'[p].gen >= pod[p].gen
    BY <1>0, <2>1, <2>2 DEF Names
  <2> QED
    BY <2>1, <2>3, NameKept
<1>7. CASE UNCHANGED vars
  BY <1>7 DEF vars, cluster, files, found, ghosts, NameInv
<1> QED
  BY <1>1, <1>2, <1>3, <1>4, <1>5, <1>6, <1>7, ControllerSplit DEF Next, Rest

----------------------------------------------------------------------------
\* The listing has each pod once.
LEMMA ListingLooked ==
    ASSUME ListPods
    PROVE  \A p \in Pods :
               Looked(p)' = [pod |-> p, gen |-> pod[p].gen, ready |-> pod[p].ready]
<1>1. listed' = {[pod |-> p, gen |-> pod[p].gen, ready |-> pod[p].ready] : p \in Pods}
  BY DEF ListPods
<1> TAKE p \in Pods
<1>2. [pod |-> p, gen |-> pod[p].gen, ready |-> pod[p].ready] \in listed'
  BY <1>1
<1>3. \A l \in listed' : l.pod = p => l = [pod |-> p, gen |-> pod[p].gen, ready |-> pod[p].ready]
  BY <1>1
<1> QED
  BY <1>2, <1>3 DEF Looked

LEMMA LookedStays == ASSUME UNCHANGED listed PROVE \A p \in Pods : Looked(p)' = Looked(p)
BY DEF Looked

\* The last UE is the one after which there is none.
LEMMA UEsInOrder ==
    ASSUME NEW u \in UEs
    PROVE  /\ UEs \subseteq Nat \ {0}
           /\ u + 1 \in UEs => 1 .. u + 1 \subseteq UEs
           /\ u + 1 \notin UEs => UEs = 1 .. u
<1>1. Cardinality(UEs) \in Nat
  BY ContractAssumption, FS_CardinalityType
<1>2. UEs = 1 .. Cardinality(UEs)
  BY ContractAssumption
<1> QED
  BY <1>1, <1>2

LEMMA ProbeNext ==
    ASSUME Typed, CourseInv, ProbeInv, [Next]_vars
    PROVE  ProbeInv'
<1>1. CASE Stage \/ Provision \/ Install
  <2>1. UNCHANGED <<listed, bindings, ue, purpose>> /\ pc' \in {"provision", "pods", "reach"}
        /\ (pc' = "pods" => purpose = "seal")
    BY <1>1 DEF Stage, Provision, Install, found, GoesTo, AtStep, CourseInv
  <2> QED
    BY <2>1 DEF ProbeInv, Visited
<1>2. CASE ListPods
  <2>1. pc' = "release" /\ ue' = 1 /\ bindings' = {}
    BY <1>2 DEF ListPods, GoesTo
  <2>2. \A p \in Pods : Looked(p)' \in listed' /\ Looked(p)'.pod = p
    BY <1>2, ListingLooked DEF ListPods
  <2>3. Visited' = 1 .. ue' - 1
    BY <2>1 DEF Visited
  <2> QED
    BY <2>1, <2>2, <2>3 DEF ProbeInv
<1>3. CASE ReadRelease
  BY <1>3, LookedStays DEF ReadRelease, found, AtStep, GoesTo, ProbeInv, Visited
<1>4. CASE ReadTunnel
  <2> DEFINE new == [ue |-> ue, gen |-> Looked(PodOf[ue]).gen, address |-> tunnel[ue]]
  <2>1. /\ UNCHANGED <<listed, ue, purpose>> /\ pc = "tunnel" /\ pc' = "ping"
        /\ bindings' = bindings \cup {new} /\ tunnel[ue] \in Pool[ue] /\ ue \in UEs
        /\ purpose # "seal"
    BY <1>4 DEF ReadTunnel, TunnelFound, AtStep, GoesTo, Typed, FoundTyped, CourseInv
  <2>2. Visited = 1 .. ue - 1
    BY <2>1 DEF ProbeInv
  <2>3. ue \in Nat \ {0}
    BY <2>1, UEsInOrder
  <2>4. \A b \in bindings : b.ue # ue
    BY <2>2, <2>3 DEF Visited
  <2>5. Visited' = 1 .. ue'
    <3>1. new.ue = ue
      OBVIOUS
    <3> HIDE DEF new
    <3>2. Visited' = Visited \cup {ue}
      BY <2>1, <3>1 DEF Visited
    <3> QED
      BY <2>1, <2>2, <2>3, <3>2
  <2>6. \A b \in bindings' : b.address \in Pool[b.ue]
    BY <2>1 DEF ProbeInv
  <2>7. \A b, c \in bindings' : b.ue = c.ue => b = c
    BY <2>1, <2>4 DEF ProbeInv
  <2> HIDE DEF new
  <2> QED
    BY <2>1, <2>5, <2>6, <2>7, LookedStays DEF ProbeInv
<1>5. CASE Ping
  <2>1. /\ UNCHANGED <<listed, bindings, purpose>> /\ pc = "ping" /\ ue \in UEs
        /\ purpose # "seal"
        /\ \/ ue + 1 \in UEs /\ ue' = ue + 1 /\ pc' = "release"
           \/ ue + 1 \notin UEs /\ pc' = "pods"
    BY <1>5 DEF Ping, AtStep, GoesTo, Typed, FoundTyped, CourseInv
  <2>2. Visited' = 1 .. ue /\ ue \in Nat
    BY <2>1, UEsInOrder DEF ProbeInv, Visited
  <2>3. pc' = "release" => Visited' = 1 .. ue' - 1
    BY <2>1, <2>2
  <2>4. pc' = "pods" => Visited' = UEs
    BY <2>1, <2>2, UEsInOrder
  <2> QED
    BY <2>1, <2>3, <2>4, LookedStays DEF ProbeInv
<1>6. CASE \/ ReadPods \/ ReadReleases \/ ReadAttestation \/ WriteEvidence \/ Accept
           \/ ProveEligible \/ Reach \/ Start
  <2>1. /\ UNCHANGED <<listed, bindings, purpose>>
        /\ pc \in {"pods", "releases", "attestation", "evidence", "judge", "reach", "start"}
        /\ pc' \in {"releases", "attestation", "seal", "evidence", "judge", "idle", "install",
                    "start"}
        /\ pc \in {"reach", "start"} => pc' \in {"start", "idle"}
    BY <1>6 DEF ReadPods, ReadReleases, ReadAttestation, WriteEvidence, Accept, ProveEligible,
       Reach, Start, AtStep, GoesTo, found
  <2> QED
    BY <2>1 DEF ProbeInv, Visited
<1>7. CASE ProbeAgain \/ ObservationFails \/ RefuseSeal \/ Refuse \/ RunFails
  <2>1. UNCHANGED <<listed, bindings, purpose>> /\ pc' \in {"list", "idle", "over"}
    BY <1>7 DEF ProbeAgain, ObservationFails, RefuseSeal, Refuse, RunFails, GivesUp, GoesTo, found
  <2> QED
    BY <2>1 DEF ProbeInv, Visited
<1>8. ASSUME NEW why, StartObservation(why) PROVE ProbeInv'
  <2>1. pc' = "list" /\ bindings' = {}
    BY <1>8, Begins
  <2> QED
    BY <2>1 DEF ProbeInv
<1>9. CASE Seal
  BY <1>8, <1>9 DEF Seal
<1>10. ASSUME NEW required \in Requirements, AttachRun(required) PROVE ProbeInv'
  <2>1. CASE Attachable(required)
    BY <1>8, <1>10, <2>1 DEF AttachRun
  <2>2. CASE ~Attachable(required)
    BY <1>10, <2>2, LookedStays DEF AttachRun, found, ProbeInv, Visited
  <2> QED
    BY <2>1, <2>2
<1>11. CASE Environment
  <2>1. UNCHANGED <<pc, purpose, listed, bindings, ue>>
    BY <1>11, EnvironmentEffect DEF Outside, Kept
  <2> QED
    BY <2>1, LookedStays DEF ProbeInv, Visited
<1>12. CASE UNCHANGED vars
  BY <1>12, LookedStays DEF vars, found, ProbeInv, Visited
<1> QED
  BY <1>1, <1>2, <1>3, <1>4, <1>5, <1>6, <1>7, <1>9, <1>10, <1>11, <1>12, ControllerSplit
     DEF Next, Rest, Watching

----------------------------------------------------------------------------
\* A binding that still has its name has its image, whatever happened to the pods.
LEMMA ImagesKept ==
    ASSUME Typed, NameInv, UNCHANGED bindings, snapshot'.pods = snapshot.pods,
           pod' \in [Pods -> PodStates], Names,
           \A b \in bindings : Exists(b) => Imaged(b)
    PROVE  (\A b \in bindings : Exists(b) => Imaged(b))'
<1> SUFFICES ASSUME NEW b \in bindings, Exists(b)' PROVE Imaged(b)'
  OBVIOUS
<1>1. PodOf[b.ue] \in Pods /\ b.gen \in Nat /\ b.gen <= pod[PodOf[b.ue]].gen
  BY PodsOfUEs DEF Typed, FoundTyped, Bindings, NameInv
<1>2. pod'[PodOf[b.ue]].gen \in Nat /\ pod[PodOf[b.ue]].gen \in Nat
  BY <1>1 DEF Typed, ClusterTyped, PodStates
<1>3. pod'[PodOf[b.ue]].gen = b.gen
  BY DEF Exists, Reachable
<1>4. pod'[PodOf[b.ue]].gen = pod[PodOf[b.ue]].gen /\ pod'[PodOf[b.ue]].image = pod[PodOf[b.ue]].image
  BY <1>1, <1>2, <1>3 DEF Names
<1>5. Imaged(b)
  BY <1>3, <1>4 DEF Exists, Reachable
<1> QED
  BY <1>4, <1>5 DEF Imaged

LEMMA SteadyNames == ASSUME Typed, Steady PROVE Names /\ pod' \in [Pods -> PodStates]
BY DEF Steady, Names, Typed, ClusterTyped

Granting == {"install", "reach", "start"}

LEMMA ImageNext ==
    ASSUME Typed, CourseInv, NameInv, ImageInv, [Next]_vars
    PROVE  ImageInv'
<1>1. CASE Stage \/ Provision
  BY <1>1 DEF Stage, Provision, GoesTo, ImageInv, AfterPods
<1>2. CASE Install
  <2>1. /\ UNCHANGED <<bindings, snapshot, sealed>> /\ pc = "install" /\ pc' = "reach"
    BY <1>2 DEF Install, found, AtStep, GoesTo
  <2>2. Names /\ pod' \in [Pods -> PodStates]
    BY <1>2, InstallEffect DEF Names
  <2>3. (\A b \in bindings : Exists(b) => Imaged(b))'
    BY <2>1, <2>2, ImagesKept DEF ImageInv, AfterPods
  <2> QED
    BY <2>1, <2>3 DEF ImageInv, Runtime
<1>3. CASE ReadPods
  <2>1. /\ UNCHANGED <<bindings, pod>> /\ pc' = "releases"
        /\ snapshot' = [snapshot EXCEPT !.pods =
               {[pod |-> p, image |-> pod[p].image, ready |-> pod[p].ready] : p \in Pods}]
    BY <1>3 DEF ReadPods, cluster, GoesTo
  <2>2. snapshot'.pods = {[pod |-> p, image |-> pod[p].image, ready |-> pod[p].ready] : p \in Pods}
    BY <2>1 DEF Typed, FoundTyped, Snapshots
  <2>3. \A b \in bindings : PodOf[b.ue] \in Pods
    BY PodsOfUEs DEF Typed, FoundTyped, Bindings
  <2>4. ASSUME NEW b \in bindings' PROVE Imaged(b)'
    <3>1. /\ [pod |-> PodOf[b.ue], image |-> pod[PodOf[b.ue]].image,
              ready |-> pod[PodOf[b.ue]].ready] \in snapshot'.pods
      BY <2>1, <2>2, <2>3
    <3> QED
      BY <2>1, <3>1 DEF Imaged
  <2> QED
    BY <2>1, <2>4 DEF ImageInv
<1>4. CASE ReadReleases \/ ReadAttestation \/ WriteEvidence
  <2>1. /\ UNCHANGED bindings /\ pc \in AfterPods /\ pc' \notin Granting
        /\ snapshot'.pods = snapshot.pods
    BY <1>4 DEF ReadReleases, ReadAttestation, WriteEvidence, AtStep, GoesTo, AfterPods, Granting,
       Typed, FoundTyped, Snapshots
  <2>2. Names /\ pod' \in [Pods -> PodStates]
    BY <1>4, WatchingIsSteady, SteadyNames DEF Watching
  <2>3. (\A b \in bindings : Exists(b) => Imaged(b))'
    BY <2>1, <2>2, ImagesKept DEF ImageInv
  <2> QED
    BY <2>1, <2>3 DEF ImageInv, Granting
<1>5. CASE ProveEligible \/ Reach \/ Start
  <2>1. UNCHANGED <<bindings, snapshot, sealed>> /\ pc \in AfterPods
    BY <1>5 DEF ProveEligible, Reach, Start, AtStep, AfterPods, found
  <2>2. Names /\ pod' \in [Pods -> PodStates]
    BY <1>5, WatchingIsSteady, SteadyNames DEF Watching
  <2>3. (\A b \in bindings : Exists(b) => Imaged(b))'
    BY <2>1, <2>2, ImagesKept DEF ImageInv
  <2>4. \A s \in sealed : Runtime = s.runtime
    BY <1>5 DEF ProveEligible, Reach, Start, AtStep, Grantable, CurrentRuntime, ImageInv
  <2> QED
    BY <2>1, <2>3, <2>4 DEF ImageInv, Runtime
<1>6. CASE \/ ListPods \/ ReadRelease \/ ReadTunnel \/ Ping \/ ProbeAgain \/ ObservationFails
           \/ RefuseSeal \/ Refuse \/ RunFails \/ Accept
  <2>1. pc' \in {"list", "release", "tunnel", "ping", "pods", "idle", "over"}
    BY <1>6 DEF ListPods, ReadRelease, ReadTunnel, Ping, ProbeAgain, ObservationFails,
       RefuseSeal, Refuse, RunFails, Accept, GivesUp, GoesTo
  <2> QED
    BY <2>1 DEF ImageInv, AfterPods
<1>7. ASSUME NEW why, StartObservation(why) PROVE ImageInv'
  <2>1. pc' = "list"
    BY <1>7, Begins
  <2> QED
    BY <2>1 DEF ImageInv, AfterPods
<1>8. CASE Seal
  BY <1>7, <1>8 DEF Seal
<1>9. ASSUME NEW required \in Requirements, AttachRun(required) PROVE ImageInv'
  <2>1. CASE Attachable(required)
    BY <1>7, <1>9, <2>1 DEF AttachRun
  <2>2. CASE ~Attachable(required)
    BY <1>9, <2>2 DEF AttachRun, AtStep, ImageInv, AfterPods
  <2> QED
    BY <2>1, <2>2
<1>10. CASE Environment
  <2>1. /\ UNCHANGED <<pc, sealed, bindings, snapshot>> /\ Names
        /\ pod' \in [Pods -> PodStates]
    BY <1>10, EnvironmentEffect DEF Outside, Kept, ClusterTyped
  <2>2. pc \in AfterPods => (\A b \in bindings : Exists(b) => Imaged(b))'
    BY <2>1, ImagesKept DEF ImageInv
  <2> QED
    BY <2>1, <2>2 DEF ImageInv, Runtime
<1>11. CASE UNCHANGED vars
  BY <1>11 DEF vars, cluster, found, ImageInv, Runtime, Imaged, Exists, Reachable
<1> QED
  BY <1>1, <1>2, <1>3, <1>4, <1>5, <1>6, <1>8, <1>9, <1>10, <1>11, ControllerSplit
     DEF Next, Rest, Watching

----------------------------------------------------------------------------
LEMMA QuietNext ==
    ASSUME Typed, CourseInv, ProbeInv, QuietInv, [Next]_vars
    PROVE  QuietInv'
<1>1. CASE Stage \/ Provision
  <2>1. ~quiet'
    BY <1>1 DEF Stage, Provision, CourseInv, AtStep, ghosts
  <2> QED
    BY <2>1 DEF QuietInv
<1>2. CASE Install
  <2>1. pc' = "reach" /\ UNCHANGED <<bindings, tunnel, quiet>>
    BY <1>2 DEF Install, found, ghosts, GoesTo
  <2> QED
    BY <2>1 DEF QuietInv
<1>3. CASE ListPods
  <2>1. pc' = "release" /\ bindings' = {} /\ UNCHANGED pod
    BY <1>3 DEF ListPods, GoesTo, cluster
  <2>2. \A p \in Pods : Looked(p)'.gen = pod'[p].gen /\ Looked(p)'.ready = pod'[p].ready
    BY <1>3, <2>1, ListingLooked
  <2> QED
    BY <2>1, <2>2 DEF QuietInv
<1>4. CASE ReadTunnel
  <2>1. /\ UNCHANGED <<listed, pod, tunnel, quiet>> /\ pc = "tunnel" /\ pc' = "ping"
        /\ bindings' = bindings \cup {[ue |-> ue, gen |-> Looked(PodOf[ue]).gen,
                                       address |-> tunnel[ue]]}
    BY <1>4 DEF ReadTunnel, AtStep, GoesTo, cluster, ghosts
  <2>2. quiet => \A b \in bindings' : b.address = tunnel[b.ue]
    BY <2>1 DEF QuietInv
  <2> QED
    BY <2>1, <2>2, LookedStays DEF QuietInv
<1>5. CASE ReadRelease \/ Ping
  <2>1. /\ UNCHANGED <<listed, bindings, pod, tunnel, quiet>>
        /\ pc \in {"release", "ping"} /\ pc' \in {"tunnel", "release", "pods"}
    BY <1>5 DEF ReadRelease, Ping, AtStep, GoesTo, cluster, ghosts, found
  <2> QED
    BY <2>1, LookedStays DEF QuietInv
<1>6. CASE ReadPods
  <2>1. /\ UNCHANGED <<bindings, pod, tunnel, quiet>> /\ pc' = "releases"
        /\ snapshot' = [snapshot EXCEPT !.pods =
               {[pod |-> p, image |-> pod[p].image, ready |-> pod[p].ready] : p \in Pods}]
    BY <1>6 DEF ReadPods, cluster, GoesTo, ghosts
  <2>2. snapshot'.pods = {[pod |-> p, image |-> pod[p].image, ready |-> pod[p].ready] : p \in Pods}
    BY <2>1 DEF Typed, FoundTyped, Snapshots
  <2> QED
    BY <2>1, <2>2 DEF QuietInv
<1>7. CASE ReadReleases
  <2>1. /\ UNCHANGED <<bindings, pod, tunnel, release, quiet>> /\ pc = "releases"
        /\ pc' = "attestation"
        /\ snapshot' = [snapshot EXCEPT !.releases =
               {[pod |-> p, values |-> release[p].values, state |-> release[p].state] :
                   p \in {q \in Pods : release[q].state # "absent"}}]
    BY <1>7 DEF ReadReleases, cluster, AtStep, GoesTo, ghosts
  <2>2. {q \in Pods : release[q].state # "absent"} = Pods
    BY <2>1 DEF CourseInv
  <2>3. /\ snapshot'.pods = snapshot.pods
        /\ snapshot'.releases = {[pod |-> p, values |-> release[p].values,
                                  state |-> release[p].state] : p \in Pods}
    BY <2>1, <2>2 DEF Typed, FoundTyped, Snapshots
  <2> QED
    BY <2>1, <2>3 DEF QuietInv
<1>8. CASE ReadAttestation
  <2>1. /\ UNCHANGED <<bindings, pod, tunnel, release, attested, quiet>> /\ pc = "attestation"
        /\ pc' \in {"seal", "evidence"}
        /\ snapshot' = [snapshot EXCEPT !.attested = {attested}]
    BY <1>8 DEF ReadAttestation, cluster, AtStep, GoesTo, ghosts
  <2>2. /\ snapshot'.pods = snapshot.pods /\ snapshot'.releases = snapshot.releases
        /\ snapshot'.attested = {attested}
    BY <2>1 DEF Typed, FoundTyped, Snapshots
  <2> QED
    BY <2>1, <2>2 DEF QuietInv
<1>9. CASE WriteEvidence
  <2>1. /\ UNCHANGED <<bindings, snapshot, pod, tunnel, release, attested, quiet>>
        /\ pc = "evidence" /\ pc' = "judge"
    BY <1>9 DEF WriteEvidence, cluster, AtStep, GoesTo, ghosts
  <2> QED
    BY <2>1 DEF QuietInv
<1>10. CASE \/ ProbeAgain \/ ObservationFails \/ RefuseSeal \/ Accept \/ ProveEligible \/ Refuse
            \/ Reach \/ Start \/ RunFails
  <2>1. /\ UNCHANGED <<bindings, tunnel, quiet>>
        /\ pc' \in {"list", "idle", "over", "install", "start"}
    BY <1>10 DEF ProbeAgain, ObservationFails, RefuseSeal, Accept, ProveEligible, Refuse, Reach,
       Start, RunFails, GivesUp, GoesTo, AtStep, cluster, ghosts, found
  <2> QED
    BY <2>1 DEF QuietInv
<1>11. ASSUME NEW why, StartObservation(why) PROVE QuietInv'
  <2>1. pc' = "list" /\ bindings' = {}
    BY <1>11, Begins
  <2> QED
    BY <2>1 DEF QuietInv
<1>12. CASE Seal
  BY <1>11, <1>12 DEF Seal
<1>13. ASSUME NEW required \in Requirements, AttachRun(required) PROVE QuietInv'
  <2>1. CASE Attachable(required)
    BY <1>11, <1>13, <2>1 DEF AttachRun
  <2>2. CASE ~Attachable(required)
    <3>1. pc = "idle" /\ UNCHANGED <<pc, bindings, tunnel, quiet>>
      BY <1>13, <2>2 DEF AttachRun, AtStep, found, cluster
    <3> QED
      BY <3>1 DEF QuietInv
  <2> QED
    BY <2>1, <2>2
<1>14. CASE Environment
  <2>1. /\ UNCHANGED <<pc, listed, bindings, snapshot>>
        /\ ~quiet' \/ (quiet /\ UNCHANGED <<pod, tunnel, release, attested>>)
    BY <1>14, EnvironmentEffect DEF Outside, Kept, Noticed
  <2> QED
    BY <2>1, LookedStays DEF QuietInv
<1>15. CASE UNCHANGED vars
  <2>1. UNCHANGED <<pc, listed, bindings, snapshot, quiet, pod, tunnel, release, attested>>
    BY <1>15 DEF vars, cluster, found, ghosts
  <2> QED
    BY <2>1, LookedStays DEF QuietInv
<1> QED
  BY <1>1, <1>2, <1>3, <1>4, <1>5, <1>6, <1>7, <1>8, <1>9, <1>10, <1>12, <1>13, <1>14, <1>15,
     ControllerSplit DEF Next, Rest, Watching

----------------------------------------------------------------------------
(* The judgement.                                                           *)

\* A probe that fails in quiet has found something amiss.
LEMMA FailureIsReal ==
    ASSUME Typed, ProbeInv, QuietInv, quiet, ProbeFailed
    PROVE  ~Intact
<1>1. PodOf[ue] \in Pods /\ Core \in Pods /\ ue \in UEs
  BY PodsOfUEs DEF Typed, FoundTyped
<1>2. CASE pc = "release" /\ ~RuntimeFound
  <2>1. release[PodOf[ue]].state # "deployed" \/ ~pod[PodOf[ue]].ready
    BY <1>1, <1>2 DEF RuntimeFound, QuietInv
  <2> QED
    BY <1>1, <2>1 DEF Intact
<1>3. CASE pc = "tunnel" /\ ~TunnelFound
  <2>1. tunnel[ue] \notin Pool[ue]
    BY <1>1, <1>3 DEF TunnelFound, Reachable, QuietInv
  <2> QED
    BY <1>1, <2>1 DEF Intact
<1>4. CASE pc = "ping" /\ ~UserPlane
  <2>1. tunnel[ue] = NoSession \/ ~pod[Core].ready
    BY <1>1, <1>4 DEF UserPlane, Reachable, QuietInv
  <2>2. NoSession \notin Pool[ue]
    BY <1>1, ContractAssumption DEF NoSession
  <2> QED
    BY <1>1, <2>1, <2>2 DEF Intact
<1> QED
  BY <1>2, <1>3, <1>4 DEF ProbeFailed, AtStep

\* What the snapshot of a quiet cluster amounts to.
LEMMA QuietSnapshot ==
    ASSUME Typed, QuietInv, quiet, pc = "judge"
    PROVE  /\ Complete <=> \A p \in Pods : pod[p].ready /\ release[p].state = "deployed"
           /\ Runtime.workloads = {[pod |-> p, image |-> pod[p].image] : p \in Pods}
           /\ Runtime.releases = {[pod |-> p, values |-> release[p].values] : p \in Pods}
           /\ snapshot.attested = {Selected} <=> attested = Selected
<1>1. /\ snapshot.pods = {[pod |-> p, image |-> pod[p].image, ready |-> pod[p].ready] : p \in Pods}
      /\ snapshot.releases = {[pod |-> p, values |-> release[p].values,
                               state |-> release[p].state] : p \in Pods}
      /\ snapshot.attested = {attested}
  BY DEF QuietInv
<1>7. /\ \A p \in Pods : \E q \in snapshot.pods :
                q.pod = p /\ q.image = pod[p].image /\ q.ready = pod[p].ready
      /\ \A q \in snapshot.pods : \E p \in Pods :
                q.pod = p /\ q.image = pod[p].image /\ q.ready = pod[p].ready
  <2> DEFINE entry(p) == [pod |-> p, image |-> pod[p].image, ready |-> pod[p].ready]
  <2>1. \A p \in Pods : /\ entry(p).pod = p /\ entry(p).image = pod[p].image
                         /\ entry(p).ready = pod[p].ready
    OBVIOUS
  <2>2. snapshot.pods = {entry(p) : p \in Pods}
    BY <1>1
  <2> HIDE DEF entry
  <2> QED
    BY <2>1, <2>2
<1>8. /\ \A p \in Pods : \E r \in snapshot.releases :
                r.pod = p /\ r.values = release[p].values /\ r.state = release[p].state
      /\ \A r \in snapshot.releases : \E p \in Pods :
                r.pod = p /\ r.values = release[p].values /\ r.state = release[p].state
  <2> DEFINE entry(p) == [pod |-> p, values |-> release[p].values, state |-> release[p].state]
  <2>1. \A p \in Pods : /\ entry(p).pod = p /\ entry(p).values = release[p].values
                         /\ entry(p).state = release[p].state
    OBVIOUS
  <2>2. snapshot.releases = {entry(p) : p \in Pods}
    BY <1>1
  <2> HIDE DEF entry
  <2> QED
    BY <2>1, <2>2
<1>2. (\A p \in snapshot.pods : p.ready) <=> \A p \in Pods : pod[p].ready
  BY <1>7
<1>3. (\A r \in snapshot.releases : r.state = "deployed")
          <=> \A p \in Pods : release[p].state = "deployed"
  BY <1>8
<1>4. {[pod |-> p.pod, image |-> p.image] : p \in snapshot.pods}
          = {[pod |-> p, image |-> pod[p].image] : p \in Pods}
  BY <1>7
<1>5. {[pod |-> r.pod, values |-> r.values] : r \in snapshot.releases}
          = {[pod |-> p, values |-> release[p].values] : p \in Pods}
  BY <1>8
<1>6. snapshot.attested = {Selected} <=> attested = Selected
  BY <1>1
<1> QED
  BY <1>2, <1>3, <1>4, <1>5, <1>6 DEF Complete, Runtime

\* One binding for each UE, as many as there are.
LEMMA BindingsAreMatched ==
    ASSUME ProbeInv, Visited = UEs
    PROVE  BindingsMatch
<1> DEFINE f == [b \in bindings |-> b.ue]
<1>1. f \in Bijection(bindings, UEs)
  <2>1. f \in [bindings -> UEs]
    BY DEF Visited
  <2>2. \A b, c \in bindings : f[b] = f[c] => b = c
    BY DEF ProbeInv
  <2>3. \A u \in UEs : \E b \in bindings : f[b] = u
    BY DEF Visited
  <2> QED
    BY <2>1, <2>2, <2>3 DEF Bijection, Injection, Surjection, IsInjective
<1>2. Cardinality(bindings) = Cardinality(UEs)
  <2>1. IsFiniteSet(UEs)
    BY ContractAssumption
  <2>2. ExistsBijection(bindings, UEs)
    BY <1>1 DEF ExistsBijection
  <2>3. ExistsBijection(UEs, bindings)
    BY <2>2, Fun_ExistsBijSymmetric
  <2> QED
    BY <2>1, <2>3, FS_Bijection
<1> QED
  BY <1>2 DEF BindingsMatch, ProbeInv, Visited

\* In quiet, what may be granted is what is intact, and of its age.
LEMMA GrantedIsIntact ==
    ASSUME Typed, CourseInv, SealedInv, ProbeInv, QuietInv, quiet, pc = "judge"
    PROVE  Grantable <=> Intact /\ Fresh
<1>1. Visited = UEs /\ BindingsMatch
  BY BindingsAreMatched DEF ProbeInv, CourseInv
<1>2. \A u \in UEs : tunnel[u] \in Pool[u]
  <2> TAKE u \in UEs
  <2>1. PICK b \in bindings : b.ue = u
    BY <1>1 DEF Visited
  <2> QED
    BY <2>1 DEF QuietInv, ProbeInv
<1>3. LiveEvidence(IF purpose = "run" THEN EligibleAge ELSE AcceptAge) <=> Fresh
  BY <1>1 DEF LiveEvidence, Fresh
<1>4. (\A s \in sealed : Runtime = s.runtime) <=>
      \A s \in sealed :
          /\ s.runtime.workloads = {[pod |-> p, image |-> pod[p].image] : p \in Pods}
          /\ s.runtime.releases = {[pod |-> p, values |-> release[p].values] : p \in Pods}
  <2>1. \A s \in sealed : s.runtime = [workloads |-> s.runtime.workloads,
                                       releases |-> s.runtime.releases]
    BY DEF SealedInv
  <2>2. Runtime = [workloads |-> Runtime.workloads, releases |-> Runtime.releases]
    BY DEF Runtime
  <2>3. \A s \in sealed : Runtime = s.runtime <=> /\ s.runtime.workloads = Runtime.workloads
                                                  /\ s.runtime.releases = Runtime.releases
    BY <2>1, <2>2
  <2> QED
    BY <2>3, QuietSnapshot
<1>5. CurrentRuntime <=>
          /\ \A p \in Pods : pod[p].ready /\ release[p].state = "deployed"
          /\ attested = Selected
          /\ \A s \in sealed : Runtime = s.runtime
  BY QuietSnapshot DEF CurrentRuntime
<1>6. Intact <=> CurrentRuntime /\ Retained /\ Prerequisites
  BY <1>2, <1>4, <1>5 DEF Intact, Retained, Prerequisites
<1> QED
  BY <1>3, <1>6 DEF Grantable

LEMMA JudgedNext ==
    ASSUME Typed, CourseInv, SealedInv, ProbeInv, QuietInv, JudgedRight, [Next]_vars
    PROVE  JudgedRight'
<1>0. ASSUME NEW granted \in BOOLEAN, NEW fresh \in BOOLEAN, Judged(granted, fresh),
             quiet => (granted <=> Intact /\ fresh)
      PROVE  JudgedRight'
  <2> DEFINE v == [quiet |-> quiet, intact |-> Intact, fresh |-> fresh, granted |-> granted]
  <2>1. verdict' = {v}
    BY <1>0 DEF Judged
  <2>2. v.quiet = quiet /\ v.intact = Intact /\ v.fresh = fresh /\ v.granted = granted
    OBVIOUS
  <2> QED
    BY <1>0, <2>1, <2>2 DEF JudgedRight
<1>1. CASE ObservationFails
  <2>1. Judged(FALSE, TRUE)
    BY <1>1 DEF ObservationFails
  <2>2. quiet => ~Intact
    <3>1. CASE ProbeFailed
      BY <3>1, FailureIsReal
    <3>2. CASE pc = "evidence" /\ snapshot.attested # {Selected}
      BY <3>2 DEF QuietInv, Intact
    <3> QED
      BY <1>1, <3>1, <3>2 DEF ObservationFails, AtStep
  <2> QED
    BY <1>0, <2>1, <2>2
<1>2. CASE Accept \/ ProveEligible
  <2>1. Judged(TRUE, Fresh) /\ Grantable /\ pc = "judge"
    BY <1>2 DEF Accept, ProveEligible, AtStep
  <2>2. Fresh \in BOOLEAN
    BY DEF Fresh
  <2> QED
    BY <1>0, <2>1, <2>2, GrantedIsIntact
<1>3. CASE Refuse
  <2>1. Judged(FALSE, Fresh) /\ ~Grantable /\ pc = "judge"
    BY <1>3 DEF Refuse, AtStep
  <2>2. Fresh \in BOOLEAN
    BY DEF Fresh
  <2> QED
    BY <1>0, <2>1, <2>2, GrantedIsIntact
<1>4. CASE Stage \/ Provision \/ Install
  BY <1>4 DEF Stage, Provision, Install, ghosts, JudgedRight
<1>5. CASE \/ ListPods \/ ReadRelease \/ ReadTunnel \/ Ping \/ ProbeAgain \/ ReadPods \/ ReadReleases
           \/ ReadAttestation \/ Seal \/ RefuseSeal \/ WriteEvidence \/ Reach \/ Start \/ RunFails
           \/ \E required \in Requirements : AttachRun(required)
  BY <1>5 DEF ListPods, ReadRelease, ReadTunnel, Ping, ProbeAgain, ReadPods, ReadReleases,
     ReadAttestation, Seal, RefuseSeal, WriteEvidence, Reach, Start, RunFails, AttachRun, ghosts,
     JudgedRight
<1>6. CASE Environment
  BY <1>6, EnvironmentEffect DEF Outside, Kept, JudgedRight
<1>7. CASE UNCHANGED vars
  BY <1>7 DEF vars, ghosts, JudgedRight
<1> QED
  BY <1>1, <1>2, <1>3, <1>4, <1>5, <1>6, <1>7, ControllerSplit DEF Next, Rest, Watching

----------------------------------------------------------------------------
(* What is published.                                                       *)

LEMMA PublishedNext ==
    ASSUME OwnPods, Typed, CourseInv, ImageInv, PublishedAsSealed, [Next]_vars
    PROVE  PublishedAsSealed'
<1>1. CASE Start
  <2>1. /\ pc = "start" /\ UNCHANGED sealed
        /\ published' = published \cup
             {[ue |-> ue, through |-> Through(b), pod |-> PodOf[ue], image |-> pod[PodOf[ue]].image] :
                b \in {c \in bindings : c.ue = ue /\ Binds(c)}}
    BY <1>1 DEF Start, AtStep
  <2>2. ASSUME NEW s \in sealed, NEW b \in bindings, b.ue = ue, Binds(b)
        PROVE  /\ [pod |-> PodOf[ue], image |-> pod[PodOf[ue]].image] \in s.runtime.workloads
               /\ Through(b) = {ue}
    <3>1. Through(b) = {ue}
      BY <2>2 DEF Binds, Through, OwnPods, Typed, FoundTyped
    <3>2. PICK q \in snapshot.pods : q.pod = PodOf[b.ue] /\ q.image = pod[PodOf[b.ue]].image
      BY <2>1, <2>2 DEF Binds, ImageInv, AfterPods, Imaged
    <3>3. Runtime = s.runtime
      BY <2>1 DEF ImageInv
    <3>4. [pod |-> q.pod, image |-> q.image] \in Runtime.workloads
      BY DEF Runtime
    <3> QED
      BY <2>2, <3>1, <3>2, <3>3, <3>4
  <2> SUFFICES ASSUME NEW s \in sealed, NEW p \in published'
               PROVE  [pod |-> p.pod, image |-> p.image] \in s.runtime.workloads
                      /\ p.through = {p.ue}
    BY <2>1 DEF PublishedAsSealed
  <2>3. CASE p \in published
    BY <2>3 DEF PublishedAsSealed
  <2>4. CASE p \notin published
    <3>1. PICK b \in bindings :
              /\ b.ue = ue /\ Binds(b)
              /\ p = [ue |-> ue, through |-> Through(b), pod |-> PodOf[ue],
                      image |-> pod[PodOf[ue]].image]
      BY <2>1, <2>4
    <3> QED
      BY <2>2, <3>1
  <2> QED
    BY <2>3, <2>4
<1>2. CASE Seal
  <2>1. published' = {}
    BY <1>2 DEF Seal, CourseInv, AtStep
  <2> QED
    BY <2>1 DEF PublishedAsSealed
<1>3. CASE Stage \/ Provision \/ Install
  BY <1>3 DEF Stage, Provision, Install, ghosts, PublishedAsSealed
<1>4. CASE \/ ListPods \/ ReadRelease \/ ReadTunnel \/ Ping \/ ProbeAgain \/ ReadPods \/ ReadReleases
           \/ ReadAttestation \/ RefuseSeal \/ WriteEvidence \/ Reach \/ RunFails
           \/ ObservationFails \/ Accept \/ ProveEligible \/ Refuse
           \/ \E required \in Requirements : AttachRun(required)
  <2>1. UNCHANGED <<sealed, published>>
    BY <1>4 DEF ListPods, ReadRelease, ReadTunnel, Ping, ProbeAgain, ReadPods, ReadReleases,
     ReadAttestation, RefuseSeal, WriteEvidence, Reach, RunFails, AttachRun, ObservationFails,
     Accept, ProveEligible, Refuse, ghosts
  <2> QED
    BY <2>1 DEF PublishedAsSealed
<1>5. CASE Environment
  BY <1>5, EnvironmentEffect DEF Outside, Kept, PublishedAsSealed
<1>6. CASE UNCHANGED vars
  BY <1>6 DEF vars, ghosts, PublishedAsSealed
<1> QED
  BY <1>1, <1>2, <1>3, <1>4, <1>5, <1>6, ControllerSplit DEF Next, Rest, Watching

----------------------------------------------------------------------------
LEMMA SealedNext ==
    ASSUME SealedInv, [Next]_vars
    PROVE  SealedInv'
<1>1. CASE Seal
  BY <1>1 DEF Seal, SealedInv, Runtime
<1>2. CASE Environment
  <2>1. UNCHANGED sealed
    BY <1>2 DEF Environment, ReplacePod, StopRuntime, Upgrade, PodReady, RollOut, LoseSession,
       Register, MoveTag, Attest, Edit, Wait, SetClockBack, Heals
  <2> QED
    BY <2>1 DEF SealedInv
<1>3. CASE Controller /\ ~Seal
  <2>1. UNCHANGED sealed
    BY <1>3 DEF Controller, Stage, Provision, Install, ListPods, ReadRelease, ReadTunnel, Ping,
       ProbeAgain, ReadPods, ReadReleases, ReadAttestation, RefuseSeal, WriteEvidence, Reach,
       Start, RunFails, AttachRun, ObservationFails, Accept, ProveEligible, Refuse
  <2> QED
    BY <2>1 DEF SealedInv
<1>4. CASE UNCHANGED vars
  BY <1>4 DEF vars, SealedInv
<1> QED
  BY <1>1, <1>2, <1>3, <1>4 DEF Next, Rest

LEMMA IdentityInit == ASSUME Init PROVE IdentityInv
<1>1. Typed
  BY TypedInit
<1>2. CourseInv
  BY DEF Init, CourseInv
<1>3. NameInv /\ ProbeInv /\ ImageInv /\ QuietInv /\ SealedInv /\ JudgedRight
  BY DEF Init, NameInv, ProbeInv, Visited, ImageInv, AfterPods, QuietInv, SealedInv, JudgedRight
<1> QED
  BY <1>1, <1>2, <1>3 DEF IdentityInv

LEMMA IdentityNext == ASSUME IdentityInv, [Next]_vars PROVE IdentityInv'
BY TypedNext, CourseNext, NameNext, ProbeNext, ImageNext, QuietNext, SealedNext, JudgedNext
   DEF IdentityInv

\* The invariant of an observation is inductive: everything is of its type, the
\* controller is where its purpose allows, names are of the past, bindings are of
\* the UEs visited, what still has its name has its image in the snapshot, and
\* what was read in quiet is what is there (probe_software_ues.py,
\* collect_cluster_snapshot.py, run_deployment.sh).
THEOREM IdentityInvariant == Spec => []IdentityInv
<1>1. Init => IdentityInv
  BY IdentityInit
<1>2. IdentityInv /\ [Next]_vars => IdentityInv'
  BY IdentityNext
<1> QED
  BY <1>1, <1>2, PTL DEF Spec

\* Of a testbed that nothing touches while it is observed, acceptance and
\* eligibility are granted exactly if it is what was sealed, in full, and the
\* evidence of its age, with any number of UEs, attempts and runs
\* (acceptance.py, testbed_attachment.py).
THEOREM QuietJudgement == Spec => []JudgedRight
<1>1. IdentityInv => JudgedRight
  BY DEF IdentityInv
<1> QED
  BY <1>1, IdentityInvariant, PTL

\* If every UE has a pod of its own, a publisher only runs on the image that was
\* sealed and sends through the tunnel of its own UE, however often pods, tags,
\* sessions and releases change (software_ue_publish, cluster_identity.py).
THEOREM SealedIsPublished == ASSUME OwnPods PROVE Spec => []PublishedAsSealed
<1>1. Init => PublishedAsSealed
  BY DEF Init, PublishedAsSealed
<1>2. PublishedAsSealed /\ IdentityInv /\ [Next]_vars => PublishedAsSealed'
  BY PublishedNext, OwnPods DEF IdentityInv
<1> QED
  BY <1>1, <1>2, IdentityInvariant, PTL DEF Spec

----------------------------------------------------------------------------
(***************************************************************************)
(* The timing arms, for every native trace, every contract and any number  *)
(* of edits and kills.                                                     *)
(*                                                                         *)
(* The argument: whatever an arm's timing is, it starts and ends where the *)
(* native one does, and its gaps are the native ones in another order or   *)
(* all alike, as far as rounding allows: the sum of the gaps does not      *)
(* depend on their order, so that no sum of some of them passes the end.   *)
(* A bundle that is made of such a timing and matches is faithful, and the *)
(* index is only ever of bundles that were made and matched, and is not    *)
(* written over: what was copied of an indexed arm, mapped or not, remains *)
(* a copy of it whichever cohort is discovered later.  Sums over           *)
(* finite sets have no step-by-step rule of their own in the library: it   *)
(* is shown here, each time by the least counterexample.                   *)
(***************************************************************************)

LEMMA NatMin ==
    ASSUME NEW T, T \subseteq Nat, T # {}
    PROVE  \E x \in T : \A y \in T : x <= y
<1> DEFINE R == {ss \in Nat \X Nat : ss[1] < ss[2]}
<1>1. IsWellFoundedOn(R, Nat)
  BY NatLessThanWellFounded DEF OpToRel
<1>2. \E x \in T : \A y \in T : ~(<<y, x>> \in R)
  <2> HIDE DEF R
  <2> QED
    BY <1>1, WFMin
<1>3. \A x, y \in Nat : ~(<<y, x>> \in R) => x <= y
  BY DEF R
<1> HIDE DEF R
<1> QED
  BY <1>2, <1>3

LEMMA NatInduct ==
    ASSUME NEW A \in SUBSET Nat, 0 \in A, \A n \in A : n + 1 \in A
    PROVE  A = Nat
<1> SUFFICES ASSUME A # Nat PROVE FALSE
  OBVIOUS
<1>1. PICK n \in Nat \ A : \A m \in Nat \ A : n <= m
  BY NatMin
<1>2. n - 1 \in A
  BY <1>1
<1> QED
  BY <1>1, <1>2

LEMMA NatStrong ==
    ASSUME NEW A \in SUBSET Nat, \A n \in Nat : (\A m \in Nat : m < n => m \in A) => n \in A
    PROVE  A = Nat
<1> SUFFICES ASSUME A # Nat PROVE FALSE
  OBVIOUS
<1>1. PICK n \in Nat \ A : \A m \in Nat \ A : n <= m
  BY NatMin
<1> QED
  BY <1>1

Pick(S) == CHOOSE x \in S : TRUE

\* g is the running sum of f over the subsets of S.
Sums(g, f, S) ==
    g = [s \in SUBSET S |-> IF s = {} THEN 0 ELSE f[Pick(s)] + g[s \ {Pick(s)}]]

Ints(f, S) == \A x \in S : f[x] \in Int

LEMMA SumIsRunningSum ==
    ASSUME NEW f, NEW S
    PROVE  SumFunctionOnSet(f, S) = (CHOOSE g : Sums(g, f, S))[S]
BY DEF SumFunctionOnSet, FoldFunctionOnSet, MapThenFoldSet, Sums, Pick

LEMMA PickIsOne == ASSUME NEW S, S # {} PROVE Pick(S) \in S
BY DEF Pick

\* One element less.
LEMMA Fewer ==
    ASSUME NEW S, IsFiniteSet(S), NEW s \in SUBSET S, NEW x \in s
    PROVE  /\ s \ {x} \in SUBSET S
           /\ IsFiniteSet(s) /\ Cardinality(s) \in Nat
           /\ Cardinality(s \ {x}) = Cardinality(s) - 1 /\ Cardinality(s \ {x}) \in Nat
<1>1. IsFiniteSet(s)
  BY FS_Subset
<1>2. Cardinality(s) \in Nat
  BY <1>1, FS_CardinalityType
<1>3. IsFiniteSet(s \ {x}) /\ Cardinality(s \ {x}) = Cardinality(s) - 1
  BY <1>1, FS_RemoveElement
<1>4. Cardinality(s \ {x}) \in Nat
  BY <1>3, FS_CardinalityType
<1> QED
  BY <1>1, <1>2, <1>3, <1>4

LEMMA RunningSumExists ==
    ASSUME NEW S, IsFiniteSet(S), NEW f, Ints(f, S)
    PROVE  \E g : Sums(g, f, S)
<1> DEFINE Value(g, s) == IF s = {} THEN 0 ELSE f[Pick(s)] + g[s \ {Pick(s)}]
           UpTo(g, n) == \A s \in SUBSET S : Cardinality(s) <= n => g[s] = Value(g, s)
           A == {n \in Nat : \E g \in [SUBSET S -> Int] : UpTo(g, n)}
<1>1. 0 \in A
  <2> DEFINE g == [s \in SUBSET S |-> 0]
  <2>1. g \in [SUBSET S -> Int]
    OBVIOUS
  <2>2. ASSUME NEW s \in SUBSET S, Cardinality(s) <= 0 PROVE g[s] = Value(g, s)
    <3>1. s = {}
      BY <2>2, FS_Subset, FS_CardinalityType, FS_EmptySet
    <3> QED
      BY <3>1
  <2> QED
    BY <2>1, <2>2
<1>2. ASSUME NEW n \in A PROVE n + 1 \in A
  <2>1. PICK h \in [SUBSET S -> Int] : UpTo(h, n)
    BY <1>2
  <2> DEFINE g == [s \in SUBSET S |-> IF Cardinality(s) <= n THEN h[s] ELSE Value(h, s)]
  <2>2. \A s \in SUBSET S : Value(h, s) \in Int
    BY PickIsOne DEF Ints
  <2>3. g \in [SUBSET S -> Int]
    BY <2>2
  <2>4. ASSUME NEW s \in SUBSET S, Cardinality(s) <= n + 1 PROVE g[s] = Value(g, s)
    <3>1. CASE s = {}
      BY <3>1, <2>1, FS_EmptySet
    <3>2. CASE s # {}
      <4>1. Pick(s) \in s
        BY <3>2, PickIsOne
      <4> DEFINE t == s \ {Pick(s)}
      <4>2. t \in SUBSET S /\ Cardinality(t) <= n
        BY <4>1, <2>4, Fewer
      <4>3. g[t] = h[t]
        BY <4>2
      <4>4. g[s] = Value(h, s)
        BY <2>1, <2>4
      <4>5. Value(g, s) = Value(h, s)
        <5> HIDE DEF g
        <5> QED
          BY <4>3
      <4> QED
        BY <4>4, <4>5
    <3> QED
      BY <3>1, <3>2
  <2>5. n + 1 \in Nat
    OBVIOUS
  <2> HIDE DEF g, Value
  <2>6. UpTo(g, n + 1)
    BY <2>4
  <2> HIDE DEF UpTo
  <2> QED
    BY <2>3, <2>5, <2>6
<1>3. Cardinality(S) \in A
  <2>1. A \in SUBSET Nat
    OBVIOUS
  <2>2. Cardinality(S) \in Nat
    BY FS_CardinalityType
  <2> HIDE DEF A
  <2>3. A = Nat
    BY <1>1, <1>2, <2>1, NatInduct
  <2> QED
    BY <2>2, <2>3
<1>4. PICK g \in [SUBSET S -> Int] : UpTo(g, Cardinality(S))
  BY <1>3
<1>5. \A s \in SUBSET S : g[s] = Value(g, s)
  BY <1>4, FS_Subset
<1>6. g = [s \in SUBSET S |-> Value(g, s)]
  BY <1>5
<1> QED
  BY <1>6 DEF Sums

\* What a running sum is where nothing is left, and with one element more.
LEMMA RunningSumStep ==
    ASSUME NEW S, NEW f, NEW g, Sums(g, f, S), NEW s \in SUBSET S
    PROVE  /\ s = {} => g[s] = 0
           /\ s # {} => g[s] = f[Pick(s)] + g[s \ {Pick(s)}]
<1>1. g[s] = IF s = {} THEN 0 ELSE f[Pick(s)] + g[s \ {Pick(s)}]
  BY DEF Sums
<1> QED
  BY <1>1

LEMMA RunningSumType ==
    ASSUME NEW S, IsFiniteSet(S), NEW f, Ints(f, S), NEW g, Sums(g, f, S)
    PROVE  \A s \in SUBSET S : g[s] \in Int
<1> DEFINE A == {n \in Nat : \A s \in SUBSET S : Cardinality(s) = n => g[s] \in Int}
<1>1. ASSUME NEW n \in Nat, \A m \in Nat : m < n => m \in A PROVE n \in A
  <2> SUFFICES ASSUME NEW s \in SUBSET S, Cardinality(s) = n PROVE g[s] \in Int
    OBVIOUS
  <2>1. CASE s = {}
    BY <2>1, RunningSumStep
  <2>2. CASE s # {}
    <3>1. Pick(s) \in s
      BY <2>2, PickIsOne
    <3>2. g[s \ {Pick(s)}] \in Int
      BY <3>1, <1>1, Fewer
    <3> QED
      BY <3>1, <3>2, <2>2, RunningSumStep DEF Ints
  <2> QED
    BY <2>1, <2>2
<1>2. A = Nat
  BY <1>1, NatStrong
<1> QED
  BY <1>2, FS_Subset, FS_CardinalityType

\* The order in which elements are added does not matter.
LEMMA RunningSumRemove ==
    ASSUME NEW S, IsFiniteSet(S), NEW f, Ints(f, S), NEW g, Sums(g, f, S)
    PROVE  \A s \in SUBSET S : \A x \in s : g[s] = f[x] + g[s \ {x}]
<1> DEFINE A == {n \in Nat : \A s \in SUBSET S : Cardinality(s) = n =>
                                \A x \in s : g[s] = f[x] + g[s \ {x}]}
<1>1. ASSUME NEW n \in Nat, \A m \in Nat : m < n => m \in A PROVE n \in A
  <2> SUFFICES ASSUME NEW s \in SUBSET S, Cardinality(s) = n, NEW x \in s
               PROVE  g[s] = f[x] + g[s \ {x}]
    OBVIOUS
  <2>1. PICK p \in s : g[s] = f[p] + g[s \ {p}]
    BY PickIsOne, RunningSumStep
  <2>2. ASSUME NEW t \in SUBSET S, Cardinality(t) = n - 1, n - 1 \in Nat, NEW y \in t
        PROVE  g[t] = f[y] + g[t \ {y}]
    BY <1>1, <2>2
  <2>3. CASE x # p
    <3>1. g[s \ {p}] = f[x] + g[(s \ {p}) \ {x}]
      <4>1. x \in s \ {p}
        BY <2>3
      <4>2. Cardinality(s \ {p}) = n - 1 /\ n - 1 \in Nat /\ s \ {p} \in SUBSET S
        BY Fewer
      <4> QED
        BY <4>1, <4>2, <2>2
    <3>2. g[s \ {x}] = f[p] + g[(s \ {x}) \ {p}]
      <4>1. p \in s \ {x}
        BY <2>3
      <4>2. Cardinality(s \ {x}) = n - 1 /\ n - 1 \in Nat /\ s \ {x} \in SUBSET S
        BY Fewer
      <4> QED
        BY <4>1, <4>2, <2>2
    <3>3. (s \ {p}) \ {x} = (s \ {x}) \ {p}
      OBVIOUS
    <3>4. f[x] \in Int /\ f[p] \in Int /\ g[(s \ {p}) \ {x}] \in Int
      BY RunningSumType DEF Ints
    <3>5. g[s] = f[p] + (f[x] + g[(s \ {p}) \ {x}])
      BY <2>1, <3>1
    <3>6. g[s \ {x}] = f[p] + g[(s \ {p}) \ {x}]
      BY <3>2, <3>3
    <3> QED
      BY <3>4, <3>5, <3>6
  <2> QED
    BY <2>1, <2>3
<1>2. A = Nat
  BY <1>1, NatStrong
<1> QED
  BY <1>2, FS_Subset, FS_CardinalityType

\* Running sums of functions that agree on the set agree.
LEMMA RunningSumsAgree ==
    ASSUME NEW S, IsFiniteSet(S), NEW f, Ints(f, S), NEW g, Sums(g, f, S),
           NEW T, IsFiniteSet(T), NEW e, Ints(e, T), NEW h, Sums(h, e, T),
           NEW U \in SUBSET (S \cap T), \A x \in U : f[x] = e[x]
    PROVE  g[U] = h[U]
<1> DEFINE A == {n \in Nat : \A s \in SUBSET U : Cardinality(s) = n => g[s] = h[s]}
<1>1. ASSUME NEW n \in Nat, \A m \in Nat : m < n => m \in A PROVE n \in A
  <2> SUFFICES ASSUME NEW s \in SUBSET U, Cardinality(s) = n PROVE g[s] = h[s]
    OBVIOUS
  <2>1. CASE s = {}
    BY <2>1, RunningSumStep
  <2>2. CASE s # {}
    <3>1. Pick(s) \in s
      BY <2>2, PickIsOne
    <3>2. g[s \ {Pick(s)}] = h[s \ {Pick(s)}]
      BY <3>1, <1>1, Fewer
    <3>3. g[s] = f[Pick(s)] + g[s \ {Pick(s)}]
      BY <2>2, RunningSumStep
    <3>4. h[s] = e[Pick(s)] + h[s \ {Pick(s)}]
      BY <2>2, RunningSumStep
    <3> QED
      BY <3>1, <3>2, <3>3, <3>4
  <2> QED
    BY <2>1, <2>2
<1>2. A = Nat
  BY <1>1, NatStrong
<1>3. Cardinality(U) \in Nat
  BY FS_Subset, FS_CardinalityType
<1> QED
  BY <1>2, <1>3

\* What the sum of a function over a finite set is.
LEMMA SumRules ==
    ASSUME NEW S, IsFiniteSet(S), NEW f, Ints(f, S)
    PROVE  /\ SumFunctionOnSet(f, S) \in Int
           /\ S = {} => SumFunctionOnSet(f, S) = 0
           /\ \A x \in S : SumFunctionOnSet(f, S) = f[x] + SumFunctionOnSet(f, S \ {x})
<1> DEFINE g == CHOOSE g : Sums(g, f, S)
<1>1. Sums(g, f, S)
  BY RunningSumExists
<1>2. SumFunctionOnSet(f, S) = g[S]
  BY SumIsRunningSum
<1>3. ASSUME NEW x \in S PROVE SumFunctionOnSet(f, S \ {x}) = g[S \ {x}]
  <2> DEFINE h == CHOOSE h : Sums(h, f, S \ {x})
  <2>1. IsFiniteSet(S \ {x}) /\ Ints(f, S \ {x})
    BY FS_RemoveElement DEF Ints
  <2>2. Sums(h, f, S \ {x})
    BY <2>1, RunningSumExists
  <2>3. SumFunctionOnSet(f, S \ {x}) = h[S \ {x}]
    BY SumIsRunningSum
  <2> HIDE DEF g, h
  <2>4. S \ {x} \in SUBSET (S \cap (S \ {x}))
    OBVIOUS
  <2> QED
    BY <1>1, <2>1, <2>2, <2>3, <2>4, RunningSumsAgree
<1> HIDE DEF g
<1>4. g[S] \in Int
  BY <1>1, RunningSumType
<1>5. S = {} => g[S] = 0
  BY <1>1, RunningSumStep
<1>6. \A x \in S : g[S] = f[x] + g[S \ {x}]
  BY <1>1, RunningSumRemove
<1> QED
  BY <1>2, <1>3, <1>4, <1>5, <1>6

----------------------------------------------------------------------------
(* The order in which the gaps are put back.                                *)

\* A set of positions that is closed downwards is a prefix.
LEMMA DownwardIsPrefix ==
    ASSUME NEW n \in Nat, NEW D \in SUBSET (1..n), \A i \in D : \A j \in 1..i : j \in D
    PROVE  Cardinality(D) \in 0..n /\ D = 1..Cardinality(D)
<1>1. \E k \in 0..n : D = 1..k
  <2>1. CASE D = 1..n
    BY <2>1
  <2>2. CASE D # 1..n
    <3> DEFINE T == (1..n) \ D
    <3>1. T \subseteq Nat /\ T # {}
      <4>1. T \subseteq Nat
        BY SMT
      <4> QED
        BY <2>2, <4>1, Zenon
    <3>2. PICK k \in T : \A y \in T : k <= y
      <4> HIDE DEF T
      <4> QED
        BY <3>1, NatMin
    <3>3. \A i \in D : i < k
      BY <3>2
    <3>4. \A i \in 1..k-1 : i \in D
      BY <3>2
    <3>5. k - 1 \in 0..n /\ D \subseteq 1..k-1
      BY <3>2, <3>3
    <3>6. 1..k-1 \subseteq D
      BY <3>4
    <3> QED
      BY <3>5, <3>6
  <2> QED
    BY <2>1, <2>2
<1>2. PICK k \in 0..n : D = 1..k
  BY <1>1
<1>3. Cardinality(D) = k
  BY <1>2, FS_Interval
<1> QED
  BY <1>2, <1>3

\* The sum of values taken at the images of a set under an injection.
LEMMA SumOfImages ==
    ASSUME NEW m \in Nat, NEW order \in Orders(m), NEW f, Ints(f, 1..m),
           NEW e, \A i \in 1..m : e[i] = f[order[i]]
    PROVE  SumFunctionOnSet(e, 1..m) = SumFunctionOnSet(f, 1..m)
<1> DEFINE Image(s) == {order[i] : i \in s}
           A == {n \in Nat : \A s \in SUBSET (1..m) : Cardinality(s) = n =>
                    SumFunctionOnSet(e, s) = SumFunctionOnSet(f, Image(s))}
<1>0. /\ order \in [1..m -> 1..m] /\ IsFiniteSet(1..m)
      /\ \A i, j \in 1..m : order[i] = order[j] => i = j
  <2>1. IsFiniteSet(1..m)
    BY FS_Interval
  <2> QED
    BY <2>1 DEF Orders
<1>1. ASSUME NEW n \in Nat, \A k \in Nat : k < n => k \in A PROVE n \in A
  <2> SUFFICES ASSUME NEW s \in SUBSET (1..m), Cardinality(s) = n
               PROVE  SumFunctionOnSet(e, s) = SumFunctionOnSet(f, Image(s))
    OBVIOUS
  <2>1. IsFiniteSet(s) /\ Image(s) \in SUBSET (1..m) /\ IsFiniteSet(Image(s))
    <3>1. Image(s) \in SUBSET (1..m)
      BY <1>0
    <3> QED
      BY <1>0, <3>1, FS_Subset
  <2>2. Ints(e, s) /\ Ints(f, Image(s))
    BY <1>0, <2>1 DEF Ints
  <2>3. CASE s = {}
    BY <2>1, <2>2, <2>3, SumRules
  <2>4. CASE s # {}
    <3>1. PICK x \in s : TRUE
      BY <2>4
    <3>2. Image(s \ {x}) = Image(s) \ {order[x]} /\ order[x] \in Image(s)
      <4>1. \A i \in s \ {x} : order[i] # order[x]
        BY <1>0
      <4> QED
        BY <4>1
    <3>3. SumFunctionOnSet(e, s \ {x}) = SumFunctionOnSet(f, Image(s \ {x}))
      <4>1. /\ s \ {x} \in SUBSET (1..m)
            /\ Cardinality(s \ {x}) \in Nat /\ Cardinality(s \ {x}) < n
        <5>1. s \ {x} \in SUBSET (1..m)
          OBVIOUS
        <5>2. Cardinality(s \ {x}) = Cardinality(s) - 1
          BY <2>1, FS_RemoveElement
        <5>3. Cardinality(s) \in Nat /\ Cardinality(s \ {x}) \in Nat
          BY <2>1, FS_RemoveElement, FS_CardinalityType
        <5> QED
          BY <5>1, <5>2, <5>3
      <4>2. Cardinality(s \ {x}) \in A
        BY <4>1, <1>1
      <4> QED
        BY <4>1, <4>2
    <3> HIDE DEF Image
    <3>4. SumFunctionOnSet(e, s) = e[x] + SumFunctionOnSet(e, s \ {x})
      BY <2>1, <2>2, SumRules
    <3>5. SumFunctionOnSet(f, Image(s))
            = f[order[x]] + SumFunctionOnSet(f, Image(s) \ {order[x]})
      BY <2>1, <2>2, <3>2, SumRules
    <3> QED
      BY <3>2, <3>3, <3>4, <3>5
  <2> QED
    BY <2>3, <2>4
<1>2. A = Nat
  BY <1>1, NatStrong
<1>3. SumFunctionOnSet(e, 1..m) = SumFunctionOnSet(f, Image(1..m))
  BY <1>2, <1>0, FS_CardinalityType
<1>4. Image(1..m) = 1..m
  <2>1. order \in Injection(1..m, 1..m)
    BY <1>0 DEF Injection, IsInjective
  <2>2. order \in Surjection(1..m, 1..m)
    BY <1>0, <2>1, FS_Injection
  <2> QED
    BY <1>0, <2>2 DEF Surjection
<1> QED
  BY <1>3, <1>4

\* Sums over 1, 2, ... k: from one to the next.
LEMMA SumToStep ==
    ASSUME NEW m \in Nat, NEW f, Ints(f, 1..m), NEW k \in 1..m
    PROVE  /\ SumTo(f, 0) = 0
           /\ SumTo(f, k) \in Int /\ SumTo(f, k - 1) \in Int
           /\ SumTo(f, k) = SumTo(f, k - 1) + f[k]
<1>1. IsFiniteSet(1..k) /\ IsFiniteSet(1..k-1) /\ IsFiniteSet(1..0) /\ 1..0 = {}
  <2>1. IsFiniteSet(1..k)
    BY FS_Interval
  <2>2. IsFiniteSet(1..k-1)
    BY <2>1, FS_Subset
  <2> QED
    BY <2>1, <2>2, FS_EmptySet
<1>2. Ints(f, 1..k) /\ Ints(f, 1..k-1) /\ Ints(f, 1..0)
  BY DEF Ints
<1>3. (1..k) \ {k} = 1..k-1 /\ f[k] \in Int
  BY DEF Ints
<1>4. SumTo(f, 0) = 0
  BY <1>1, <1>2, SumRules DEF SumTo
<1>5. SumTo(f, k) \in Int /\ SumTo(f, k - 1) \in Int
  BY <1>1, <1>2, SumRules DEF SumTo
<1>6. SumFunctionOnSet(f, 1..k) = f[k] + SumFunctionOnSet(f, (1..k) \ {k})
  BY <1>1, <1>2, SumRules
<1> QED
  <2>1. SumTo(f, k) = f[k] + SumTo(f, k - 1)
    BY <1>3, <1>6 DEF SumTo
  <2> QED
    BY <1>3, <1>4, <1>5, <2>1

\* The gaps of a sequence add up to the way from its start.
LEMMA GapsAddUp ==
    ASSUME NEW n \in Nat, n >= 1, NEW o \in [1..n -> Int],
           NEW f, \A i \in 1..n-1 : f[i] = o[i + 1] - o[i]
    PROVE  \A k \in 0..n-1 : SumTo(f, k) = o[k + 1] - o[1]
<1> DEFINE A == {k \in Nat : k <= n - 1 => SumTo(f, k) = o[k + 1] - o[1]}
<1>1. Ints(f, 1..n-1)
  BY DEF Ints
<1>2. SumTo(f, 0) = 0
  <2>1. 1..0 = {} /\ IsFiniteSet({})
    BY FS_EmptySet
  <2> QED
    BY <2>1, SumRules DEF SumTo, Ints
<1>3. 0 \in A
  BY <1>2
<1>4. ASSUME NEW k \in A PROVE k + 1 \in A
  <2> SUFFICES ASSUME k + 1 <= n - 1 PROVE SumTo(f, k + 1) = o[k + 1 + 1] - o[1]
    OBVIOUS
  <2>1. SumTo(f, k + 1) = SumTo(f, k + 1 - 1) + f[k + 1]
    BY <1>1, SumToStep
  <2>2. SumTo(f, k) = o[k + 1] - o[1]
    OBVIOUS
  <2> QED
    BY <2>1, <2>2
<1>5. A = Nat
  <2>1. A \in SUBSET Nat
    OBVIOUS
  <2> HIDE DEF A
  <2> QED
    BY <1>3, <1>4, <2>1, NatInduct
<1> HIDE DEF A
<1>6. \A k \in 0..n-1 : k \in A
  BY <1>5
<1> QED
  BY <1>6 DEF A

----------------------------------------------------------------------------
\* How many events are measured.
M == Cardinality(Measured(Native))

\* The native offsets, as a function.
NativeOffsets == [i \in 1..M |-> Native[Before + i].at]

LEMMA NativeTyped ==
    /\ Len(Native) \in Nat /\ DOMAIN Native = 1..Len(Native)
    /\ \A i \in 1..Len(Native) :
        /\ Native[i] \in [id : Ids, sensor : Sensors, born : Int, at : Int]
        /\ Native[i].at \in Int /\ Native[i].born \in Int
<1> DEFINE R == [id : Ids, sensor : Sensors, born : Int, at : Int]
<1>1. Native \in Seq(R)
  BY ArmsAssumption
<1> HIDE DEF R
<1>2. Len(Native) \in Nat /\ DOMAIN Native = 1..Len(Native)
  BY <1>1, LenProperties
<1>3. \A i \in 1..Len(Native) : Native[i] \in R
  BY <1>1, ElementOfSeq
<1> USE DEF R
<1>4. \A i \in 1..Len(Native) : Native[i].at \in Int /\ Native[i].born \in Int
  BY <1>3
<1> QED
  BY <1>2, <1>3, <1>4

\* The trace is sorted, and its events are named apart.
LEMMA NativeOrdered ==
    ASSUME NEW i \in 1..Len(Native), NEW j \in 1..Len(Native)
    PROVE  /\ i <= j => Native[i].at <= Native[j].at
           /\ i # j => Native[i].id # Native[j].id
           /\ Native[i].born <= Native[i].at /\ Native[i].at < Duration
<1>1. i \in DOMAIN Native /\ j \in DOMAIN Native /\ i \in Int /\ j \in Int
  BY NativeTyped
<1>2. Native[i].at \in Int /\ Native[j].at \in Int
  BY NativeTyped
<1>3. Native[i].born <= Native[i].at /\ Native[i].at < Duration
  BY <1>1, ArmsAssumption
<1>4. i < j => Native[i].at <= Native[j].at /\ Native[i].id # Native[j].id
  BY <1>1, ArmsAssumption
<1>5. j < i => Native[i].id # Native[j].id
  BY <1>1, ArmsAssumption
<1> QED
  BY <1>1, <1>2, <1>3, <1>4, <1>5

LEMMA ConstantsTyped == Warmup \in Nat /\ Duration \in Nat /\ Rounding \in Nat
BY ArmsAssumption

\* The measured events are those after the warm-up's.
LEMMA MeasuredIsSuffix ==
    /\ Before \in 0..Len(Native) /\ M \in Nat /\ M = Len(Native) - Before
    /\ Measured(Native) = Before + 1..Len(Native)
    /\ \A i \in 1..Before : Native[i].at < Warmup
<1> DEFINE N == Len(Native)
           D == DOMAIN Native \ Measured(Native)
<1>1. N \in Nat /\ D \in SUBSET (1..N)
  BY NativeTyped
<1>2. \A i \in D : \A j \in 1..i : j \in D
  <2> SUFFICES ASSUME NEW i \in D, NEW j \in 1..i PROVE j \in D
    OBVIOUS
  <2>1. i \in 1..N /\ j \in 1..N /\ Native[i].at < Warmup
    BY NativeTyped, ConstantsTyped DEF Measured
  <2>2. Native[j].at <= Native[i].at
    BY <2>1, NativeOrdered
  <2> QED
    BY <2>1, <2>2, NativeTyped, ConstantsTyped DEF Measured
<1>3. Before \in 0..N /\ D = 1..Before
  BY <1>1, <1>2, DownwardIsPrefix DEF Before
<1>4. Measured(Native) = Before + 1..N
  <2>1. Measured(Native) = DOMAIN Native \ D
    BY DEF Measured
  <2> HIDE DEF D
  <2> QED
    BY <1>1, <1>3, <2>1, NativeTyped
<1>5. M = N - Before
  <2>1. Cardinality(Before + 1..N) = IF Before + 1 > N THEN 0 ELSE N - (Before + 1) + 1
    <3>1. Before + 1 \in Int /\ N \in Int
      BY <1>1, <1>3
    <3> HIDE DEF N
    <3> QED
      BY <3>1, FS_Interval
  <2> QED
    BY <1>1, <1>3, <1>4, <2>1 DEF M
<1>6. \A i \in 1..Before : Native[i].at < Warmup
  BY <1>3, NativeTyped, ConstantsTyped DEF Measured
<1> QED
  BY <1>1, <1>3, <1>4, <1>5, <1>6

LEMMA NativeOffsetsTyped ==
    /\ OffsetsOf(Native) = NativeOffsets /\ NativeOffsets \in [1..M -> Int]
    /\ Len(NativeOffsets) = M /\ M \in Nat
    /\ \A i, j \in 1..M : i <= j => NativeOffsets[i] <= NativeOffsets[j]
<1>1. \A i \in 1..M : Before + i \in 1..Len(Native) /\ Before + i \in DOMAIN Native
  BY MeasuredIsSuffix, NativeTyped
<1>2. NativeOffsets \in [1..M -> Int]
  BY <1>1, NativeTyped DEF NativeOffsets
<1>3. Len(NativeOffsets) = M /\ M \in Nat
  BY MeasuredIsSuffix DEF NativeOffsets
<1>4. ASSUME NEW i \in 1..M, NEW j \in 1..M, i <= j PROVE NativeOffsets[i] <= NativeOffsets[j]
  <2>1. CASE i = j
    BY <1>2, <2>1
  <2>2. CASE i < j
    BY <1>1, <1>4, NativeOrdered, MeasuredIsSuffix DEF NativeOffsets
  <2> QED
    BY <1>4, <2>1, <2>2, <1>3
<1> QED
  BY <1>2, <1>3, <1>4 DEF OffsetsOf, NativeOffsets, M

----------------------------------------------------------------------------
(* The timings of an arm.                                                   *)

\* A gap permutation: its gaps are the native ones in some order, as far as
\* rounding allows, from the same start to the same end.
Permuted(offsets) ==
    /\ offsets \in [1..M -> Int]
    /\ offsets[1] = NativeOffsets[1] /\ offsets[M] = NativeOffsets[M]
    /\ \E p \in Orders(M - 1) : \A i \in 1..M - 1 :
        (offsets[i + 1] - offsets[i]) - (NativeOffsets[p[i] + 1] - NativeOffsets[p[i]])
            \in -Rounding..Rounding

\* The native gaps in another order.
GapsInOrder(order) == [i \in 1..M - 1 |-> Gap(NativeOffsets, order[i])]

\* The sums of gaps in another order stay between the native ends.
LEMMA SumsOfOrder ==
    ASSUME M >= 2, NEW order \in Orders(M - 1)
    PROVE  LET gap == GapsInOrder(order)
           IN  /\ \A k \in 0..M - 1 : SumTo(gap, k) \in Int
               /\ SumTo(gap, 0) = 0
               /\ \A k \in 1..M - 1 : SumTo(gap, k) = SumTo(gap, k - 1) + gap[k] /\ gap[k] >= 0
               /\ SumTo(gap, M - 1) = NativeOffsets[M] - NativeOffsets[1]
               /\ \A k \in 0..M - 1 : SumTo(gap, k) <= NativeOffsets[M] - NativeOffsets[1]
<1> DEFINE gap == GapsInOrder(order)
           native == [i \in 1..M - 1 |-> Gap(NativeOffsets, i)]
           m == M - 1
<1>1. m \in Nat /\ order \in [1..m -> 1..m] /\ M \in Nat
  BY MeasuredIsSuffix DEF Orders
<1>2. \A i \in 1..m : native[i] \in Int /\ native[i] >= 0
  BY <1>1, NativeOffsetsTyped DEF Gap
<1>3. \A i \in 1..m : gap[i] = native[order[i]] /\ gap[i] \in Int /\ gap[i] >= 0
  BY <1>1, <1>2 DEF GapsInOrder
<1>4. Ints(gap, 1..m) /\ Ints(native, 1..m)
  BY <1>2, <1>3 DEF Ints
<1>5. SumTo(gap, m) = SumTo(native, m)
  BY <1>1, <1>3, <1>4, SumOfImages DEF SumTo
<1>6. SumTo(native, m) = NativeOffsets[M] - NativeOffsets[1]
  <2>1. \A i \in 1..M-1 : native[i] = NativeOffsets[i + 1] - NativeOffsets[i]
    BY DEF Gap
  <2>2. \A k \in 0..M-1 : SumTo(native, k) = NativeOffsets[k + 1] - NativeOffsets[1]
    <3>1. M \in Nat /\ M >= 1 /\ NativeOffsets \in [1..M -> Int]
      BY <1>1, NativeOffsetsTyped
    <3> HIDE DEF native
    <3> QED
      BY <2>1, <3>1, GapsAddUp
  <2> QED
    BY <1>1, <2>2
<1>7. ASSUME NEW k \in 1..m
      PROVE  SumTo(gap, k) = SumTo(gap, k - 1) + gap[k] /\ SumTo(gap, k) \in Int
             /\ SumTo(gap, 0) = 0
  BY <1>1, <1>4, SumToStep
<1>8. SumTo(gap, 0) = 0
  <2>1. 1 \in 1..m
    BY <1>1
  <2> QED
    BY <2>1, <1>7
<1>9. \A k \in 0..m : SumTo(gap, k) \in Int
  BY <1>1, <1>7, <1>8
<1>10. \A k \in 0..m : SumTo(gap, k) <= SumTo(gap, m)
  <2> DEFINE A == {j \in Nat : j <= m => SumTo(gap, m - j) <= SumTo(gap, m)}
  <2>1. 0 \in A
    BY <1>1, <1>9
  <2>2. ASSUME NEW j \in A PROVE j + 1 \in A
    <3> SUFFICES ASSUME j + 1 <= m PROVE SumTo(gap, m - (j + 1)) <= SumTo(gap, m)
      OBVIOUS
    <3>1. SumTo(gap, m - j) = SumTo(gap, m - j - 1) + gap[m - j]
      BY <1>1, <1>7
    <3>2. SumTo(gap, m - j) <= SumTo(gap, m) /\ m - j \in 1..m /\ m - (j + 1) = m - j - 1
      BY <1>1
    <3> QED
      <4>1. m - j - 1 \in 0..m /\ m - j \in 0..m /\ m \in 0..m
        BY <1>1
      <4>2. SumTo(gap, m - j - 1) \in Int /\ SumTo(gap, m - j) \in Int /\ SumTo(gap, m) \in Int
        BY <1>9, <4>1
      <4>3. gap[m - j] \in Int /\ gap[m - j] >= 0
        BY <1>3, <3>2
      <4> QED
        BY <3>1, <3>2, <4>2, <4>3
  <2>3. A \in SUBSET Nat
    OBVIOUS
  <2>4. A = Nat
    <3> HIDE DEF A
    <3> QED
      BY <2>1, <2>2, <2>3, NatInduct
  <2>5. ASSUME NEW k \in 0..m PROVE SumTo(gap, k) <= SumTo(gap, m)
    <3>1. m - k \in A /\ m - k <= m
      <4>1. m - k \in Nat /\ m - k <= m
        BY <1>1
      <4> HIDE DEF A
      <4> QED
        BY <2>4, <4>1
    <3>2. m - (m - k) = k
      BY <1>1
    <3> QED
      BY <3>1, <3>2
  <2> QED
    BY <2>5
<1> QED
  BY <1>3, <1>5, <1>6, <1>7, <1>8, <1>9, <1>10

LEMMA PermutationsKeepGaps ==
    ASSUME M >= 2, NEW c \in GapPermutations(NativeOffsets)
    PROVE  Permuted(c)
<1> DEFINE o == NativeOffsets
           end == o[M]
           sums(n, order) == [k \in 0..n - 1 |->
               o[1] + SumTo([i \in 1..n - 1 |-> Gap(o, order[i])], k)]
           rebuilt(n) == {[k \in 1..n |-> sums(n, order)[k - 1] + off[k]] :
               order \in Orders(n - 1), off \in [1..n -> 0..Rounding]}
           clip(n, r) == [k \in 1..n |->
               IF k = 1 THEN o[1] ELSE IF k = n \/ r[k] > o[n] THEN o[n] ELSE r[k]]
<1>0. M \in Nat /\ o \in [1..M -> Int] /\ Len(o) = M /\ Rounding \in Nat
  BY NativeOffsetsTyped, ConstantsTyped
<1>a. PICK r \in rebuilt(M) : c = clip(M, r)
  <2>1. c \in {clip(Len(o), r) : r \in {q \in rebuilt(Len(o)) :
                  \A k \in 2..Len(o) - 2 : q[k] <= q[k + 1]}}
    <3>1. GapPermutations(o) = {clip(Len(o), r) : r \in {q \in rebuilt(Len(o)) :
                  \A k \in 2..Len(o) - 2 : q[k] <= q[k + 1]}}
      BY DEF GapPermutations
    <3> HIDE DEF rebuilt, clip
    <3> QED
      BY <3>1
  <2> HIDE DEF rebuilt, clip, o
  <2> QED
    BY <1>0, <2>1
<1>b. PICK order \in Orders(M - 1), off \in [1..M -> 0..Rounding] :
        r = [k \in 1..M |-> sums(M, order)[k - 1] + off[k]]
  BY <1>a
<1>1. /\ order \in Orders(M - 1) /\ off \in [1..M -> 0..Rounding]
      /\ r = [k \in 1..M |-> sums(M, order)[k - 1] + off[k]]
      /\ c = [k \in 1..M |-> IF k = 1 THEN o[1] ELSE IF k = M \/ r[k] > end THEN end ELSE r[k]]
  BY <1>a, <1>b
<1> DEFINE gap == GapsInOrder(order)
<1>2. /\ \A k \in 0..M - 1 : SumTo(gap, k) \in Int
      /\ SumTo(gap, 0) = 0
      /\ \A k \in 1..M - 1 : SumTo(gap, k) = SumTo(gap, k - 1) + gap[k] /\ gap[k] >= 0
      /\ SumTo(gap, M - 1) = o[M] - o[1]
      /\ \A k \in 0..M - 1 : SumTo(gap, k) <= o[M] - o[1]
  BY <1>1, SumsOfOrder
<1>3. \A k \in 1..M : r[k] = o[1] + SumTo(gap, k - 1) + off[k]
  <2>1. \A k \in 1..M : k - 1 \in 0..M - 1
    BY <1>0
  <2> QED
    BY <1>1, <2>1 DEF GapsInOrder
<1>4. \A i \in 1..M - 1 : gap[i] = o[order[i] + 1] - o[order[i]]
  BY DEF Gap, GapsInOrder
<1> HIDE DEF gap, sums, rebuilt, clip, o
<1>5. c \in [1..M -> Int] /\ c[1] = o[1] /\ c[M] = end
  <2>1. \A k \in 1..M : r[k] \in Int
    <3>1. \A k \in 1..M : k - 1 \in 0..M - 1 /\ off[k] \in Int
      BY <1>0, <1>1
    <3>2. \A k \in 1..M : SumTo(gap, k - 1) \in Int
      BY <1>2, <3>1
    <3>3. o[1] \in Int
      <4>1. 1 \in 1..M
        BY <1>0
      <4> QED
        BY <1>0, <4>1
    <3> QED
      BY <1>3, <3>1, <3>2, <3>3
  <2>2. 1 \in 1..M /\ M \in 1..M /\ M # 1
    BY <1>0
  <2>3. o[1] \in Int /\ end \in Int
    BY <1>0, <2>2
  <2>4. \A k \in 1..M : (IF k = 1 THEN o[1] ELSE IF k = M \/ r[k] > end THEN end ELSE r[k]) \in Int
    BY <2>1, <2>3
  <2> QED
    BY <1>1, <2>2, <2>4
<1>6. \A k \in 1..M : c[k] - (o[1] + SumTo(gap, k - 1)) \in 0..Rounding
  <2> SUFFICES ASSUME NEW k \in 1..M PROVE c[k] - (o[1] + SumTo(gap, k - 1)) \in 0..Rounding
    OBVIOUS
  <2>1. k - 1 \in 0..M - 1 /\ off[k] \in 0..Rounding /\ SumTo(gap, k - 1) \in Int
    BY <1>0, <1>1, <1>2
  <2>2. SumTo(gap, k - 1) <= end - o[1] /\ o[1] \in Int /\ end \in Int
    BY <1>0, <1>2, <2>1
  <2>3. CASE k = 1
    BY <1>0, <1>1, <1>2, <2>2, <2>3
  <2>4. CASE k = M
    BY <1>0, <1>1, <1>2, <2>2, <2>4
  <2>5. CASE k # 1 /\ k # M
    <3>1. c[k] = IF r[k] > end THEN end ELSE r[k]
      BY <1>1, <2>5
    <3>2. r[k] = o[1] + SumTo(gap, k - 1) + off[k]
      BY <1>3
    <3>3. \A first, last, sum, away \in Int :
            away \in 0..Rounding /\ sum <= last - first =>
              (IF first + sum + away > last THEN last ELSE first + sum + away) - (first + sum)
                \in 0..Rounding
      BY <1>0
    <3>4. off[k] \in Int
      BY <2>1
    <3> QED
      BY <2>1, <2>2, <3>1, <3>2, <3>3, <3>4
  <2> QED
    BY <2>3, <2>4, <2>5
<1>7. ASSUME NEW i \in 1..M - 1
      PROVE  (c[i + 1] - c[i]) - (o[order[i] + 1] - o[order[i]]) \in -Rounding..Rounding
  <2>1. i \in 1..M /\ i + 1 \in 1..M /\ i - 1 \in 0..M - 1 /\ i \in 0..M - 1 /\ i + 1 - 1 = i
    BY <1>0
  <2>2. SumTo(gap, i) = SumTo(gap, i - 1) + gap[i] /\ SumTo(gap, i - 1) \in Int
    BY <1>2, <2>1
  <2>3. c[i + 1] - (o[1] + SumTo(gap, i)) \in 0..Rounding
    BY <1>6, <2>1
  <2>4. c[i] - (o[1] + SumTo(gap, i - 1)) \in 0..Rounding
    BY <1>6, <2>1
  <2>5. gap[i] \in Int /\ c[i] \in Int /\ c[i + 1] \in Int /\ o[1] \in Int
    <3>1. order[i] \in 1..M - 1
      BY DEF Orders
    <3>2. order[i] \in 1..M /\ order[i] + 1 \in 1..M /\ 1 \in 1..M
      <4>1. \A j \in 1..M - 1 : j \in 1..M /\ j + 1 \in 1..M /\ 1 \in 1..M
        BY <1>0
      <4> QED
        BY <3>1, <4>1
    <3>3. o[order[i]] \in Int /\ o[order[i] + 1] \in Int /\ o[1] \in Int
      BY <1>0, <3>2
    <3>4. c[i] \in Int /\ c[i + 1] \in Int
      BY <1>5, <2>1
    <3> QED
      BY <1>4, <3>3, <3>4
  <2>6. gap[i] = o[order[i] + 1] - o[order[i]]
    BY <1>4
  <2>7. (c[i + 1] - c[i]) - gap[i] \in -Rounding..Rounding
    <3>1. \A first, here, next, sum, step \in Int :
            next - (first + (sum + step)) \in 0..Rounding /\ here - (first + sum) \in 0..Rounding
              => (next - here) - step \in -Rounding..Rounding
      BY <1>0
    <3>2. c[i + 1] - (o[1] + (SumTo(gap, i - 1) + gap[i])) \in 0..Rounding
      BY <2>2, <2>3
    <3> QED
      BY <2>2, <2>4, <2>5, <3>1, <3>2
  <2> QED
    BY <2>6, <2>7
<1> USE DEF o
<1> QED
  BY <1>5, <1>7 DEF Permuted

----------------------------------------------------------------------------
\* Equal steps: two gaps differ by one at most.
Evenly(offsets) ==
    /\ offsets \in [1..M -> Int]
    /\ offsets[1] = NativeOffsets[1] /\ offsets[M] = NativeOffsets[M]
    /\ \A i, j \in 1..M - 1 :
        (offsets[i + 1] - offsets[i]) - (offsets[j + 1] - offsets[j]) \in -1..1

\* A step of equal length, rounded down, is one of two lengths.
LEMMA RoundedStep ==
    ASSUME NEW d \in Nat, NEW m \in Nat \ {0}, NEW a \in Nat
    PROVE  ((a + d) \div m) - (a \div m) \in {d \div m, d \div m + 1}
<1>1. PICK q, u, v \in Int : q = d \div m /\ u = a \div m /\ v = (a + d) \div m
  OBVIOUS
<1>2. /\ m * q <= d /\ d < m * q + m
      /\ m * u <= a /\ a < m * u + m
      /\ m * v <= a + d /\ a + d < m * v + m
  BY <1>1
<1>3. m * (v - u - q) < 2 * m /\ m * (v - u - q) > -m
  BY <1>2
<1>4. v - u - q < 2 /\ v - u - q > -1
  BY <1>3
<1> QED
  BY <1>1, <1>4

LEMMA PeriodicIsEven ==
    ASSUME M >= 2
    PROVE  Evenly(Periodic(NativeOffsets))
<1> DEFINE o == NativeOffsets
           c == Periodic(o)
           d == o[M] - o[1]
<1>0. M \in Nat /\ o \in [1..M -> Int] /\ Len(o) = M /\ 1 \in 1..M /\ M \in 1..M
  BY NativeOffsetsTyped
<1>1. d \in Nat /\ o[1] \in Int
  BY <1>0, NativeOffsetsTyped
<1>2. c = [i \in 1..M |-> o[1] + ((i - 1) * d) \div (M - 1)]
  BY <1>0 DEF Periodic
<1> HIDE DEF c, d, o
<1>3. \A i \in 1..M : (i - 1) * d \in Nat
  BY <1>0, <1>1
<1>4. \A i \in 1..M : ((i - 1) * d) \div (M - 1) \in Int
  BY <1>0, <1>3
<1>5. c \in [1..M -> Int]
  BY <1>1, <1>2, <1>4
<1>6. c[1] = o[1] /\ c[M] = o[1] + d
  <2>1. (1 - 1) * d = 0 /\ 0 \div (M - 1) = 0
    BY <1>0, <1>1
  <2>2. ((M - 1) * d) \div (M - 1) = d
    <3>1. \A m \in Nat \ {0}, e \in Nat : (m * e) \div m = e
      OBVIOUS
    <3> QED
      BY <1>0, <1>1, <3>1
  <2>3. c[1] = o[1] + ((1 - 1) * d) \div (M - 1)
    BY <1>0, <1>2
  <2>4. c[M] = o[1] + ((M - 1) * d) \div (M - 1)
    BY <1>0, <1>2
  <2>5. o[1] + 0 = o[1]
    BY <1>1
  <2>6. c[1] = o[1]
    BY <2>1, <2>3, <2>5
  <2>7. c[M] = o[1] + d
    BY <2>2, <2>4
  <2> QED
    BY <2>6, <2>7
<1>7. ASSUME NEW i \in 1..M - 1
      PROVE  c[i + 1] - c[i] \in {d \div (M - 1), d \div (M - 1) + 1}
  <2>1. i \in 1..M /\ i + 1 \in 1..M /\ M - 1 \in Nat \ {0} /\ (i - 1) * d \in Nat
    BY <1>0, <1>3
  <2>2. (i + 1 - 1) * d = (i - 1) * d + d
    BY <1>1, <2>1
  <2>3. c[i] = o[1] + ((i - 1) * d) \div (M - 1)
    BY <1>2, <2>1
  <2>4. c[i + 1] = o[1] + ((i - 1) * d + d) \div (M - 1)
    BY <1>2, <2>1, <2>2
  <2>5. (((i - 1) * d + d) \div (M - 1)) - (((i - 1) * d) \div (M - 1))
          \in {d \div (M - 1), d \div (M - 1) + 1}
    BY <1>1, <2>1, RoundedStep
  <2>6. ((i - 1) * d) \div (M - 1) \in Int /\ ((i - 1) * d + d) \div (M - 1) \in Int
    BY <1>4, <2>1, <2>2
  <2> QED
    BY <1>1, <2>3, <2>4, <2>5, <2>6
<1>8. ASSUME NEW i \in 1..M - 1, NEW j \in 1..M - 1
      PROVE  (c[i + 1] - c[i]) - (c[j + 1] - c[j]) \in -1..1
  <2>1. d \div (M - 1) \in Int
    BY <1>0, <1>1
  <2> QED
    BY <1>7, <2>1
<1>9. o[M] = o[1] + d
  BY <1>0 DEF d
<1> USE DEF c, o
<1> QED
  BY <1>5, <1>6, <1>8, <1>9 DEF Evenly

\* What the timing of any arm is.
LEMMA TimingsTyped ==
    ASSUME NEW arm \in Arms, NEW offsets \in Timings(arm)
    PROVE  /\ offsets \in [1..M -> Int] /\ Len(offsets) = M
           /\ arm = "native" => offsets = NativeOffsets
           /\ M < 2 => offsets = NativeOffsets
           /\ M >= 2 /\ arm = "periodic" => Evenly(offsets)
           /\ M >= 2 /\ arm # "periodic" => Permuted(offsets)
<1>0. M \in Nat /\ NativeOffsets \in [1..M -> Int] /\ Len(NativeOffsets) = M
  BY NativeOffsetsTyped
<1>1. offsets \in IF arm = "native" \/ M < 2 THEN {NativeOffsets}
                  ELSE IF arm = "periodic" THEN {Periodic(NativeOffsets)}
                  ELSE GapPermutations(NativeOffsets)
  BY <1>0, NativeOffsetsTyped DEF Timings
<1>2. CASE arm = "native" \/ M < 2
  <2>1. offsets = NativeOffsets
    BY <1>1, <1>2
  <2>2. M >= 2 => Permuted(NativeOffsets)
    <3> SUFFICES ASSUME M >= 2 PROVE Permuted(NativeOffsets)
      OBVIOUS
    <3> DEFINE p == [i \in 1..M - 1 |-> i]
    <3>1. p \in Orders(M - 1)
      BY DEF Orders
    <3>2. \A i \in 1..M - 1 : p[i] = i
      OBVIOUS
    <3> HIDE DEF p
    <3>3. \A i \in 1..M - 1 :
            (NativeOffsets[i + 1] - NativeOffsets[i]) - (NativeOffsets[p[i] + 1] - NativeOffsets[p[i]])
              \in -Rounding..Rounding
      <4> SUFFICES ASSUME NEW i \in 1..M - 1
                   PROVE  (NativeOffsets[i + 1] - NativeOffsets[i])
                            - (NativeOffsets[p[i] + 1] - NativeOffsets[p[i]]) \in -Rounding..Rounding
        OBVIOUS
      <4>1. NativeOffsets[i + 1] \in Int /\ NativeOffsets[i] \in Int /\ p[i] = i
        BY <1>0, <3>2
      <4>2. \A x, y \in Int : (x - y) - (x - y) \in -Rounding..Rounding
        BY ConstantsTyped
      <4> QED
        BY <4>1, <4>2
    <3> QED
      BY <1>0, <3>1, <3>3 DEF Permuted
  <2> QED
    BY <1>0, <1>2, <2>1, <2>2
<1>3. CASE ~(arm = "native" \/ M < 2) /\ arm = "periodic"
  <2>1. offsets = Periodic(NativeOffsets) /\ M >= 2
    BY <1>0, <1>1, <1>3
  <2>2. Evenly(offsets)
    BY <2>1, PeriodicIsEven
  <2>3. offsets \in [1..M -> Int]
    BY <2>2 DEF Evenly
  <2>4. Len(offsets) = M
    BY <1>0, <2>3
  <2> QED
    BY <1>3, <2>1, <2>2, <2>3, <2>4
<1>4. CASE ~(arm = "native" \/ M < 2) /\ arm # "periodic"
  <2>1. offsets \in GapPermutations(NativeOffsets) /\ M >= 2
    BY <1>0, <1>1, <1>4
  <2>2. Permuted(offsets)
    BY <2>1, PermutationsKeepGaps
  <2>3. offsets \in [1..M -> Int]
    BY <2>2 DEF Permuted
  <2>4. Len(offsets) = M
    BY <1>0, <2>3
  <2> QED
    BY <1>4, <2>1, <2>2, <2>3, <2>4
<1> QED
  BY <1>2, <1>3, <1>4

----------------------------------------------------------------------------
\* The bundle of an arm, sealed or edited.
MadeOf(arm, offsets, b) == \E s \in BOOLEAN : b = [Bundle(arm, offsets) EXCEPT !.sealed = s]
Made(arm, b) == \E offsets \in Timings(arm) : MadeOf(arm, offsets, b)

\* A record of which one field is replaced.
LEMMA SealReplaced ==
    ASSUME NEW e, NEW a, NEW s, NEW t
    PROVE  [[events |-> e, aged |-> a, sealed |-> s] EXCEPT !.sealed = t]
             = [events |-> e, aged |-> a, sealed |-> t]
OBVIOUS

EventsMade(offsets) ==
    [i \in DOMAIN Native |->
        IF i > Before THEN [Native[i] EXCEPT !.at = offsets[i - Before]] ELSE Native[i]]

LEMMA MadeIsRecord ==
    ASSUME NEW arm, NEW offsets, NEW b
    PROVE  MadeOf(arm, offsets, b) <=>
            \E s \in BOOLEAN : b = [events |-> EventsMade(offsets), aged |-> arm = "native", sealed |-> s]
<1> DEFINE e == EventsMade(offsets)
           aged == (arm = "native")
<1>1. Bundle(arm, offsets) = [events |-> e, aged |-> aged, sealed |-> TRUE]
  BY DEF Bundle, EventsMade
<1> HIDE DEF e, aged
<1>2. ASSUME NEW s
      PROVE  [Bundle(arm, offsets) EXCEPT !.sealed = s] = [events |-> e, aged |-> aged, sealed |-> s]
  <2>1. [[events |-> e, aged |-> aged, sealed |-> TRUE] EXCEPT !.sealed = s]
          = [events |-> e, aged |-> aged, sealed |-> s]
    BY SealReplaced, Zenon
  <2> QED
    BY <1>1, <2>1, Zenon
<1>3. MadeOf(arm, offsets, b) <=> \E s \in BOOLEAN : b = [events |-> e, aged |-> aged, sealed |-> s]
  BY <1>2, Zenon DEF MadeOf
<1> USE DEF e, aged
<1> QED
  BY <1>3

LEMMA MadeTyped ==
    ASSUME NEW arm, NEW offsets, NEW b, MadeOf(arm, offsets, b)
    PROVE  /\ b.aged => arm = "native"
           /\ b.events = EventsMade(offsets)
<1>1. PICK s \in BOOLEAN : b = [events |-> EventsMade(offsets), aged |-> arm = "native", sealed |-> s]
  BY MadeIsRecord, Zenon
<1> QED
  BY <1>1

LEMMA MadeEdited ==
    ASSUME NEW arm, NEW offsets, NEW b, MadeOf(arm, offsets, b)
    PROVE  LET edited == [b EXCEPT !.sealed = FALSE]
           IN  /\ MadeOf(arm, offsets, edited) /\ ~edited.sealed
               /\ [edited EXCEPT !.sealed = FALSE] = edited
<1> DEFINE e == EventsMade(offsets)
           aged == (arm = "native")
           edited == [b EXCEPT !.sealed = FALSE]
<1>1. PICK s \in BOOLEAN : b = [events |-> e, aged |-> aged, sealed |-> s]
  BY MadeIsRecord, Zenon
<1>2. ASSUME NEW c PROVE MadeOf(arm, offsets, c) <=> \E t \in BOOLEAN : c = [events |-> e, aged |-> aged, sealed |-> t]
  BY MadeIsRecord, Zenon
<1> HIDE DEF e, aged
<1>3. edited = [events |-> e, aged |-> aged, sealed |-> FALSE]
  BY <1>1, SealReplaced, Zenon
<1> HIDE DEF edited
<1>4. MadeOf(arm, offsets, edited)
  BY <1>2, <1>3, Zenon
<1>5. edited.sealed = FALSE
  BY <1>3
<1>6. [edited EXCEPT !.sealed = FALSE] = edited
  BY <1>3, SealReplaced, Zenon
<1> USE DEF edited
<1> QED
  BY <1>4, <1>5, <1>6, Zenon

\* The events of a bundle that matches are the native ones, but for the time
\* of those that are measured.
LEMMA EventsOfArm ==
    ASSUME NEW arm \in Arms, NEW offsets \in Timings(arm), NEW b, MadeOf(arm, offsets, b),
           Matches(arm, b)
    PROVE  /\ DOMAIN b.events = 1..Len(Native) /\ Len(b.events) = Len(Native)
           /\ OffsetsOf(b.events) = offsets
           /\ \A i \in 1..Len(Native) :
                /\ b.events[i].at \in Int
                /\ b.events[i].born = Native[i].born
                /\ i <= Before => b.events[i] = Native[i]
                /\ i > Before => b.events[i].at = offsets[i - Before]
<1> DEFINE N == Len(Native)
<1>0. /\ N \in Nat /\ Before \in 0..N /\ M \in Nat /\ M = N - Before
      /\ DOMAIN Native = 1..N /\ offsets \in [1..M -> Int] /\ Len(offsets) = M
  BY MeasuredIsSuffix, NativeTyped, TimingsTyped
<1>a. b.events = EventsMade(offsets)
  BY MadeTyped
<1>1. /\ DOMAIN b.events = 1..N
      /\ \A i \in 1..N : b.events[i] = IF i > Before THEN [Native[i] EXCEPT !.at = offsets[i - Before]]
                                       ELSE Native[i]
  BY <1>0, <1>a DEF EventsMade
<1>2. \A i \in 1..N : i > Before => i - Before \in 1..M
  BY <1>0
<1>3. ASSUME NEW i \in 1..N
      PROVE  /\ b.events[i].at \in Int
             /\ b.events[i].born = Native[i].born
             /\ i <= Before => b.events[i] = Native[i]
             /\ i > Before => b.events[i].at = offsets[i - Before]
  <2>1. /\ Native[i] \in [id : Ids, sensor : Sensors, born : Int, at : Int]
        /\ Native[i].at \in Int
    BY NativeTyped
  <2>2. CASE i > Before
    <3>1. offsets[i - Before] \in Int
      BY <1>0, <1>2, <2>2
    <3>2. b.events[i] = [Native[i] EXCEPT !.at = offsets[i - Before]]
      BY <1>1, <2>2
    <3>3. ~(i <= Before)
      BY <1>0, <2>2
    <3> HIDE DEF N
    <3> QED
      BY <2>1, <2>2, <3>1, <3>2, <3>3
  <2>3. CASE ~(i > Before)
    <3>1. b.events[i] = Native[i]
      BY <1>1, <2>3
    <3> QED
      BY <2>1, <2>3, <3>1
  <2> QED
    BY <2>2, <2>3
<1>4. Len(b.events) = N
  <2>1. b.events = [i \in 1..N |-> EventsMade(offsets)[i]]
    BY <1>0, <1>a DEF EventsMade
  <2> QED
    BY <1>0, <2>1
<1>5. Len(OffsetsOf(b.events)) = M
  BY <1>0, NativeOffsetsTyped DEF Matches
<1>6. Cardinality(Measured(b.events)) = M
  <2>1. Measured(b.events) \subseteq 1..N
    BY <1>1 DEF Measured
  <2>2. Cardinality(Measured(b.events)) \in Nat
    <3>1. IsFiniteSet(1..N)
      BY <1>0, FS_Interval
    <3> QED
      BY <2>1, <3>1, FS_Subset, FS_CardinalityType
  <2>3. Len(OffsetsOf(b.events)) = Cardinality(Measured(b.events))
    BY <2>2 DEF OffsetsOf
  <2> QED
    BY <1>5, <2>3
<1>7. OffsetsOf(b.events) = offsets
  <2>1. \A i \in 1..M : Before + i \in 1..N /\ Before + i > Before /\ Before + i - Before = i
    BY <1>0
  <2>2. \A i \in 1..M : b.events[Before + i].at = offsets[i]
    <3> SUFFICES ASSUME NEW i \in 1..M PROVE b.events[Before + i].at = offsets[i]
      OBVIOUS
    <3> DEFINE j == Before + i
    <3>1. j \in 1..N /\ j > Before /\ j - Before = i
      <4>1. \A n, m, k \in Int : 0 <= n - m /\ 0 <= m /\ k \in 1..n - m =>
                m + k \in 1..n /\ m + k > m /\ (m + k) - m = k
        OBVIOUS
      <4>2. N \in Int /\ Before \in Int /\ i \in Int /\ 0 <= N - Before /\ 0 <= Before /\ i \in 1..N - Before
        BY <1>0
      <4> HIDE DEF N
      <4> QED
        BY <4>1, <4>2
    <3> HIDE DEF j
    <3>2. b.events[j].at = offsets[j - Before]
      BY <1>3, <3>1
    <3> USE DEF j
    <3> QED
      BY <3>1, <3>2
  <2>3. OffsetsOf(b.events) = [i \in 1..M |-> b.events[Before + i].at]
    BY <1>6 DEF OffsetsOf
  <2> QED
    BY <1>0, <2>2, <2>3
<1> QED
  BY <1>1, <1>3, <1>4, <1>7

LEMMA ArmKeepsEvents ==
    ASSUME NEW arm \in Arms, NEW offsets \in Timings(arm), NEW b, MadeOf(arm, offsets, b),
           Matches(arm, b)
    PROVE  SameEvents(b)
<1> DEFINE N == Len(Native)
<1>0. /\ N \in Nat /\ Before \in 0..N /\ M \in Nat /\ M = N - Before
      /\ DOMAIN Native = 1..N
  BY MeasuredIsSuffix, NativeTyped
<1>1. /\ DOMAIN b.events = 1..N /\ Len(b.events) = N
      /\ \A i \in 1..N :
            /\ b.events[i].at \in Int
            /\ i <= Before => b.events[i] = Native[i]
            /\ i > Before => b.events[i].at = offsets[i - Before]
  BY EventsOfArm
<1>a. ASSUME NEW i \in 1..N PROVE [b.events[i] EXCEPT !.at = Native[i].at] = Native[i]
  <2>a. b.events = EventsMade(offsets) /\ i \in DOMAIN Native
    BY <1>0, MadeTyped
  <2>1. b.events[i] = IF i > Before THEN [Native[i] EXCEPT !.at = offsets[i - Before]] ELSE Native[i]
    BY <2>a DEF EventsMade
  <2>2. Native[i] \in [id : Ids, sensor : Sensors, born : Int, at : Int]
    BY NativeTyped
  <2>3. \A x : [[Native[i] EXCEPT !.at = x] EXCEPT !.at = Native[i].at] = Native[i]
    BY <2>2
  <2>4. [Native[i] EXCEPT !.at = Native[i].at] = Native[i]
    BY <2>2
  <2> QED
    BY <2>1, <2>3, <2>4
<1>2. Valid(b)
  BY DEF Matches
<1>3. ASSUME NEW i \in 1..N, i \in {Before + 1, N}
      PROVE  b.events[i].at = Native[i].at
  <2>1. CASE i <= Before
    BY <1>1, <2>1
  <2>2. CASE i > Before
    <3>1. i - Before \in {1, M} /\ i - Before \in 1..M
      BY <1>0, <1>3, <2>2
    <3>2. NativeOffsets[i - Before] = Native[i].at
      <4>1. Before + (i - Before) = i
        BY <1>0
      <4> QED
        BY <3>1, <4>1 DEF NativeOffsets
    <3>3. offsets[i - Before] = NativeOffsets[i - Before]
      <4>1. CASE M < 2
        BY <4>1, TimingsTyped
      <4>2. CASE M >= 2
        <5>1. Evenly(offsets) \/ Permuted(offsets)
          BY <4>2, TimingsTyped
        <5>2. offsets[1] = NativeOffsets[1] /\ offsets[M] = NativeOffsets[M]
          BY <5>1 DEF Evenly, Permuted
        <5> QED
          BY <3>1, <5>2
      <4> QED
        BY <1>0, <4>1, <4>2
    <3> QED
      BY <1>1, <2>2, <3>2, <3>3
  <2> QED
    BY <1>0, <2>1, <2>2
<1>4. /\ \A i \in 1..N : b.events[i].at < Duration
      /\ \A i, j \in 1..N : i < j => b.events[i].at <= b.events[j].at
  BY <1>1, <1>2 DEF Valid
<1> QED
  BY <1>0, <1>a, <1>1, <1>3, <1>4 DEF SameEvents

LEMMA GapsOf ==
    ASSUME NEW offsets \in [1..M -> Int], Len(offsets) = M, NEW e, OffsetsOf(e) = offsets
    PROVE  /\ M >= 1 => Len(Gaps([events |-> e])) = M - 1
           /\ M < 1 => Len(Gaps([events |-> e])) = 0
           /\ DOMAIN Gaps([events |-> e]) = 1..M - 1
           /\ \A i \in 1..M - 1 : Gaps([events |-> e])[i] = offsets[i + 1] - offsets[i]
<1>0. M \in Nat
  BY MeasuredIsSuffix
<1>1. Gaps([events |-> e]) = [i \in 1..M - 1 |-> offsets[i + 1] - offsets[i]]
  BY DEF Gaps, Gap
<1>2. CASE M >= 1
  <2>1. M - 1 \in Nat
    BY <1>0, <1>2
  <2> QED
    BY <1>1, <1>2, <2>1
<1>3. CASE M < 1
  <2>1. 1..M - 1 = 1..0
    BY <1>0, <1>3
  <2> QED
    BY <1>1, <1>3, <2>1
<1> QED
  BY <1>0, <1>2, <1>3

LEMMA ArmKeepsGaps ==
    ASSUME NEW arm \in Arms, NEW offsets \in Timings(arm), NEW b, MadeOf(arm, offsets, b),
           Matches(arm, b)
    PROVE  IF arm = "periodic" THEN EqualGaps(b) ELSE SameGaps(b)
<1>0. /\ M \in Nat /\ NativeOffsets \in [1..M -> Int] /\ Len(NativeOffsets) = M
      /\ OffsetsOf(Native) = NativeOffsets
      /\ offsets \in [1..M -> Int] /\ Len(offsets) = M /\ OffsetsOf(b.events) = offsets
      /\ Rounding \in Nat
  BY NativeOffsetsTyped, TimingsTyped, EventsOfArm, ConstantsTyped
<1> DEFINE g == Gaps(b)
           n == Gaps([events |-> Native])
<1>1. g = Gaps([events |-> b.events])
  BY DEF Gaps
<1>2. /\ M >= 1 => Len(g) = M - 1
      /\ M < 1 => Len(g) = 0
      /\ DOMAIN g = 1..M - 1
      /\ \A i \in 1..M - 1 : g[i] = offsets[i + 1] - offsets[i]
  <2> HIDE DEF g
  <2> QED
    BY <1>0, <1>1, GapsOf
<1>3. /\ \A i \in 1..M - 1 : n[i] = NativeOffsets[i + 1] - NativeOffsets[i]
  BY <1>0, GapsOf
<1> HIDE DEF g, n
<1>4. CASE arm = "periodic"
  <2>1. ASSUME NEW i \in DOMAIN g, NEW j \in DOMAIN g PROVE g[i] - g[j] \in -1..1
    <3>1. M >= 2 /\ i \in 1..M - 1 /\ j \in 1..M - 1
      BY <1>0, <1>2
    <3>2. Evenly(offsets)
      BY <1>4, <3>1, TimingsTyped
    <3> QED
      BY <1>2, <3>1, <3>2 DEF Evenly
  <2> USE DEF g
  <2> QED
    BY <1>4, <2>1 DEF EqualGaps
<1>5. CASE arm # "periodic" /\ M >= 2
  <2>1. Permuted(offsets)
    BY <1>5, TimingsTyped
  <2>2. PICK p \in Orders(M - 1) : \A i \in 1..M - 1 :
          (offsets[i + 1] - offsets[i]) - (NativeOffsets[p[i] + 1] - NativeOffsets[p[i]])
            \in -Rounding..Rounding
    BY <2>1 DEF Permuted
  <2>3. p \in [1..M - 1 -> 1..M - 1]
    BY DEF Orders
  <2>4. \A i \in 1..M - 1 : g[i] - n[p[i]] \in -Rounding..Rounding
    BY <1>2, <1>3, <2>2, <2>3
  <2>5. p \in Orders(Len(g)) /\ DOMAIN p = 1..M - 1
    BY <1>0, <1>2, <1>5, <2>2, <2>3
  <2> USE DEF g, n
  <2> QED
    BY <1>5, <2>4, <2>5 DEF SameGaps
<1>6. CASE arm # "periodic" /\ M < 2
  <2> DEFINE p == [i \in 1..0 |-> i]
  <2>1. Len(g) = 0
    BY <1>0, <1>2, <1>6
  <2>2. p \in Orders(0)
    BY DEF Orders
  <2>3. DOMAIN p = {}
    OBVIOUS
  <2> HIDE DEF p
  <2> USE DEF g
  <2> QED
    BY <1>6, <2>1, <2>2, <2>3 DEF SameGaps
<1> QED
  BY <1>0, <1>4, <1>5, <1>6

\* A bundle of any timing of an arm is faithful to the native trace if it
\* matches (validate_bundle and _verify_arm_invariants).
THEOREM FaithfulArm ==
    ASSUME NEW arm \in Arms, NEW b, Made(arm, b), Matches(arm, b)
    PROVE  Faithful(arm, b)
<1>1. PICK offsets \in Timings(arm) : MadeOf(arm, offsets, b)
  BY DEF Made
<1>2. ASSUME b.aged, NEW i \in DOMAIN b.events
      PROVE  b.events[i].born <= b.events[i].at
  <2>a. arm = "native"
    BY <1>1, <1>2, MadeTyped
  <2>b. offsets = NativeOffsets
    BY <2>a, TimingsTyped
  <2>c. /\ DOMAIN b.events = 1..Len(Native)
        /\ \A j \in 1..Len(Native) :
              /\ b.events[j].born = Native[j].born
              /\ j <= Before => b.events[j] = Native[j]
              /\ j > Before => b.events[j].at = offsets[j - Before]
    BY <1>1, EventsOfArm
  <2>1. i \in 1..Len(Native) /\ Len(Native) \in Nat
    BY <1>2, <2>c, NativeTyped
  <2>2. b.events[i].at = Native[i].at
    <3>1. CASE i <= Before
      BY <2>1, <2>c, <3>1
    <3>2. CASE i > Before
      <4>1. i - Before \in 1..M /\ Before + (i - Before) = i
        BY <2>1, <3>2, MeasuredIsSuffix
      <4>2. NativeOffsets[i - Before] = Native[i].at
        BY <4>1 DEF NativeOffsets
      <4> QED
        BY <2>1, <2>b, <2>c, <3>2, <4>2
    <3> QED
      BY <2>1, <3>1, <3>2, MeasuredIsSuffix
  <2>3. b.events[i].born = Native[i].born /\ Native[i].born <= Native[i].at
    BY <2>1, <2>c, NativeOrdered
  <2> QED
    BY <2>2, <2>3
<1>3. SameEvents(b) /\ IF arm = "periodic" THEN EqualGaps(b) ELSE SameGaps(b)
  BY <1>1, ArmKeepsEvents, ArmKeepsGaps
<1> QED
  BY <1>2, <1>3 DEF Faithful

----------------------------------------------------------------------------

\* What can become of an indexed bundle on its way to a run.
Forms(b) == {b, Remapped(b), Edited(b), Edited(Remapped(b))}

CopyOf(a, b) == \E c \in Cohorts : index[c][a] # None /\ b \in Forms(index[c][a])

CohortInv ==
    /\ writer \in begun \cup {None} /\ begun \subseteq Cohorts
    /\ cohort = [c \in Cohorts |-> [a \in Arms |-> cohort[c][a]]]
    /\ index = [c \in Cohorts |-> [a \in Arms |-> index[c][a]]]
    /\ \A c \in Cohorts, a \in Arms :
        /\ cohort[c][a] # None => Made(a, cohort[c][a].trace)
        /\ index[c][a] # None =>
            /\ Made(a, index[c][a].trace) /\ Matches(a, index[c][a].trace)
            /\ Indexed(c) /\ c \in begun /\ ~Preparing(c)

CampaignInv ==
    /\ inputs = [a \in Arms |-> inputs[a]]
    /\ \A a \in Arms : inputs[a] # None => CopyOf(a, inputs[a])
    /\ frozen \in Cohorts \cup {None}
    /\ phase \in {"qualification", "freeze", "paused", "confirmation"}
    /\ stage \in {"idle", "chosen", "imported", "reported"} /\ chosen \in Arms \cup {None}
    /\ stage # "idle" => chosen \in Arms
    /\ stage \in {"imported", "reported"} => CopyOf(chosen, run) /\ run.gateways \subseteq Deployed
    /\ stage = "reported" => run.trace.sealed

ArmInv == CohortInv /\ CampaignInv

LEMMA ArmInvInit == SourceInit => ArmInv
BY DEF SourceInit, ArmInv, CohortInv, CampaignInv, Preparing, NoArms

LEMMA MadeByBundle == ASSUME NEW arm, NEW offsets \in Timings(arm) PROVE Made(arm, Bundle(arm, offsets))
<1>1. Bundle(arm, offsets) = [events |-> EventsMade(offsets), aged |-> arm = "native", sealed |-> TRUE]
  BY DEF Bundle, EventsMade
<1>2. MadeOf(arm, offsets, Bundle(arm, offsets))
  BY <1>1, MadeIsRecord, Zenon
<1> QED
  BY <1>2 DEF Made

\* Editing a bundle that was made leaves it made; editing it twice is editing it once.
LEMMA EditedTrace ==
    ASSUME NEW a, NEW b, Made(a, b.trace)
    PROVE  /\ Made(a, Edited(b).trace) /\ ~Edited(b).trace.sealed
           /\ Edited(Edited(b)) = Edited(b)
<1> DEFINE t == [b.trace EXCEPT !.sealed = FALSE]
<1>1. Made(a, t) /\ ~t.sealed /\ [t EXCEPT !.sealed = FALSE] = t
  BY MadeEdited DEF Made
<1>2. Edited(b) = [trace |-> t, origin |-> b.origin, gateways |-> b.gateways]
  BY DEF Edited
<1> HIDE DEF t
<1>3. Edited(b).trace = t /\ Edited(b).origin = b.origin /\ Edited(b).gateways = b.gateways
  BY <1>2
<1>4. Edited(Edited(b)) = [trace |-> [t EXCEPT !.sealed = FALSE], origin |-> b.origin, gateways |-> b.gateways]
  BY <1>3 DEF Edited
<1> QED
  BY <1>1, <1>2, <1>3, <1>4

\* Mapping keeps the trace.
LEMMA RemappedTrace == ASSUME NEW b PROVE Remapped(b).trace = b.trace /\ Remapped(b).gateways = {Workload}
BY DEF Remapped

\* A copy that is edited is a copy still, and one that is whole has the events
\* as they were indexed.
LEMMA FormsHold ==
    ASSUME NEW a, NEW i, Made(a, i.trace), NEW b \in Forms(i)
    PROVE  /\ Edited(b) \in Forms(i)
           /\ b.trace.sealed => b \in {i, Remapped(i)} /\ b.trace = i.trace
<1>1. Made(a, Remapped(i).trace)
  BY RemappedTrace
<1>2. Edited(Edited(i)) = Edited(i) /\ ~Edited(i).trace.sealed
  BY EditedTrace
<1>3. Edited(Edited(Remapped(i))) = Edited(Remapped(i)) /\ ~Edited(Remapped(i)).trace.sealed
  BY <1>1, EditedTrace
<1>4. Remapped(i).trace = i.trace
  BY RemappedTrace
<1> QED
  BY <1>2, <1>3, <1>4 DEF Forms

LEMMA CopyEdited ==
    ASSUME ArmInv, NEW a \in Arms, NEW b, CopyOf(a, b)
    PROVE  CopyOf(a, Edited(b))
<1>1. PICK c \in Cohorts : index[c][a] # None /\ b \in Forms(index[c][a])
  BY DEF CopyOf
<1>2. Edited(b) \in Forms(index[c][a])
  BY <1>1, FormsHold DEF ArmInv, CohortInv
<1> QED
  BY <1>1, <1>2 DEF CopyOf

\* The index only grows.
IndexKept == \A c \in Cohorts, a \in Arms : index[c][a] # None => index'[c][a] = index[c][a]

LEMMA CopyKept ==
    ASSUME IndexKept, NEW a \in Arms, NEW b, CopyOf(a, b)
    PROVE  CopyOf(a, b)'
BY DEF IndexKept, CopyOf

LEMMA IndexGrows ==
    ASSUME ArmInv, [SourceNext]_sourceVars
    PROVE  IndexKept
<1> USE DEF IndexKept
<1>1. CASE IndexArms
  <2>1. PICK c \in Cohorts :
          /\ Preparing(c)
          /\ index' = IF \A a \in Arms : Matches(a, cohort[c][a].trace)
                      THEN [index EXCEPT ![c] = cohort[c]]
                      ELSE index
    BY <1>1 DEF IndexArms
  <2>2. ASSUME NEW d \in Cohorts, NEW a \in Arms, index[d][a] # None PROVE d # c
    BY <2>1, <2>2 DEF ArmInv, CohortInv
  <2> QED
    BY <2>1, <2>2
<1>2. CASE ~IndexArms
  BY <1>2 DEF SourceNext, Preparation, Phases, Meddling, sourceVars, prepared, BeginPreparation,
       PrepareArm, PreparationDies, RemoveCohort, ChangeArm, ChooseArm, CopyingDies, ImportArm,
       ImportDies, Summarise, Continue, Freeze, BeginConfirmation, InvocationDies, ChangeInputs,
       ChangeRun
<1> QED
  BY <1>1, <1>2

LEMMA NotBelowItself == \A n \in Nat : ~(n < n)
OBVIOUS

\* What the preparation does leaves what was indexed as it was.
LEMMA CohortNext ==
    ASSUME ArmInv, [SourceNext]_sourceVars
    PROVE  CohortInv'
<1> USE DEF ArmInv, CohortInv
<1>1. CASE BeginPreparation
  <2>1. PICK c \in Cohorts :
          /\ writer = None /\ \A d \in begun : d < c
          /\ writer' = c /\ begun' = begun \cup {c}
          /\ UNCHANGED <<cohort, index>>
    BY <1>1 DEF BeginPreparation
  <2>2. c \notin begun
    <3>1. c \in Nat
      BY SourceAssumption
    <3>2. ~(c < c)
      BY <3>1, NotBelowItself
    <3> QED
      BY <2>1, <3>2
  <2>3. ASSUME NEW d \in Cohorts, NEW a \in Arms, index'[d][a] # None
        PROVE  ~(Preparing(d)') /\ d \in begun' /\ Indexed(d)'
    BY <2>1, <2>2, <2>3 DEF Preparing, Indexed
  <2> QED
    BY <2>1, <2>3
<1>2. CASE PrepareArm
  <2>1. PICK c \in Cohorts, a \in Arms : \E offsets \in Timings(a) :
          cohort' = [cohort EXCEPT ![c][a] = Prepared(c, a, offsets)]
    BY <1>2 DEF PrepareArm
  <2>2. PICK offsets \in Timings(a) : cohort' = [cohort EXCEPT ![c][a] = Prepared(c, a, offsets)]
    BY <2>1
  <2>3. Made(a, Prepared(c, a, offsets).trace)
    BY MadeByBundle DEF Prepared
  <2>4. /\ cohort' = [d \in Cohorts |-> [e \in Arms |-> cohort'[d][e]]]
        /\ \A d \in Cohorts, e \in Arms :
             cohort'[d][e] = IF d = c /\ e = a THEN Prepared(c, a, offsets) ELSE cohort[d][e]
    <3>1. cohort = [d \in Cohorts |-> [e \in Arms |-> cohort[d][e]]]
      OBVIOUS
    <3> HIDE DEF ArmInv, CohortInv
    <3>2. \A d \in Cohorts : cohort'[d] = IF d = c THEN [cohort[d] EXCEPT ![a] = Prepared(c, a, offsets)] ELSE cohort[d]
      BY <2>2, <3>1
    <3>3. cohort' = [d \in Cohorts |-> cohort'[d]]
      BY <2>2, <3>1
    <3>4. \A d \in Cohorts : cohort[d] = [e \in Arms |-> cohort[d][e]]
      BY <3>1
    <3>5. \A d \in Cohorts : cohort'[d] = [e \in Arms |-> IF d = c /\ e = a THEN Prepared(c, a, offsets) ELSE cohort[d][e]]
      BY <3>2, <3>4
    <3> QED
      BY <3>3, <3>5
  <2>5. UNCHANGED <<writer, begun, index>>
    BY <1>2 DEF PrepareArm
  <2> QED
    BY <2>3, <2>4, <2>5 DEF Preparing, Indexed
<1>3. CASE IndexArms
  <2>1. PICK c \in Cohorts :
          /\ Preparing(c) /\ Written(c) = Arms
          /\ index' = IF \A a \in Arms : Matches(a, cohort[c][a].trace)
                      THEN [index EXCEPT ![c] = cohort[c]]
                      ELSE index
    BY <1>3 DEF IndexArms
  <2>2. writer' = None /\ UNCHANGED <<begun, cohort>>
    BY <1>3 DEF IndexArms
  <2>3. CASE ~(\A a \in Arms : Matches(a, cohort[c][a].trace))
    BY <2>1, <2>2, <2>3 DEF Preparing, Indexed
  <2>4. CASE \A a \in Arms : Matches(a, cohort[c][a].trace)
    <3>1. /\ index' = [d \in Cohorts |-> [e \in Arms |-> index'[d][e]]]
          /\ \A d \in Cohorts, a \in Arms : index'[d][a] = IF d = c THEN cohort[c][a] ELSE index[d][a]
      BY <2>1, <2>4
    <3>2. \A a \in Arms : cohort[c][a] # None
      BY <2>1 DEF Written
    <3>3. c \in begun
      BY <2>1 DEF Preparing
    <3>4. ASSUME NEW d \in Cohorts, NEW a \in Arms, index'[d][a] # None
          PROVE  /\ Made(a, index'[d][a].trace) /\ Matches(a, index'[d][a].trace)
                 /\ Indexed(d)' /\ d \in begun /\ ~(Preparing(d)')
      <4>1. CASE d = c
        BY <2>2, <2>4, <3>1, <3>2, <3>3, <4>1 DEF Indexed, Preparing
      <4>2. CASE d # c
        BY <2>2, <3>1, <3>4, <4>2 DEF Indexed, Preparing
      <4> QED
        BY <4>1, <4>2
    <3> QED
      BY <2>2, <3>1, <3>4
  <2> QED
    BY <2>3, <2>4
<1>4. CASE PreparationDies
  BY <1>4 DEF PreparationDies, Preparing, Indexed
<1>5. CASE RemoveCohort
  <2>1. PICK c \in begun :
          /\ ~Preparing(c) /\ ~Indexed(c)
          /\ begun' = begun \ {c}
          /\ cohort' = [cohort EXCEPT ![c] = NoArms]
          /\ UNCHANGED <<writer, index>>
    BY <1>5 DEF RemoveCohort
  <2>2. \A d \in Cohorts, a \in Arms : cohort'[d][a] = IF d = c THEN None ELSE cohort[d][a]
    BY <2>1 DEF NoArms
  <2>3. cohort' = [d \in Cohorts |-> [e \in Arms |-> cohort'[d][e]]]
    BY <2>1 DEF NoArms
  <2>4. writer' \in begun' \cup {None}
    BY <2>1 DEF Preparing
  <2>5. ASSUME NEW d \in Cohorts, NEW a \in Arms, index[d][a] # None
        PROVE  Indexed(d)' /\ d \in begun' /\ ~(Preparing(d)')
    BY <2>1, <2>5 DEF Preparing, Indexed
  <2>6. ASSUME NEW d \in Cohorts, NEW a \in Arms, cohort'[d][a] # None PROVE Made(a, cohort'[d][a].trace)
    BY <2>2, <2>6
  <2>7. UNCHANGED <<writer, index>> /\ begun' \subseteq Cohorts
    BY <2>1
  <2> QED
    BY <2>3, <2>4, <2>5, <2>6, <2>7
<1>6. CASE ChangeArm
  <2>1. PICK c \in Cohorts, a \in Arms :
          /\ cohort[c][a] # None
          /\ \E b \in {Edited(cohort[c][a])} \cup {Prepared(c, a, offsets) : offsets \in Timings(a)} :
                cohort' = [cohort EXCEPT ![c][a] = b]
    BY <1>6 DEF ChangeArm
  <2>2. PICK b \in {Edited(cohort[c][a])} \cup {Prepared(c, a, offsets) : offsets \in Timings(a)} :
          cohort' = [cohort EXCEPT ![c][a] = b]
    BY <2>1
  <2>3. Made(a, b.trace)
    <3>1. CASE b = Edited(cohort[c][a])
      BY <2>1, <3>1, EditedTrace
    <3>2. CASE b \in {Prepared(c, a, offsets) : offsets \in Timings(a)}
      <4>1. PICK offsets \in Timings(a) : b = Prepared(c, a, offsets)
        BY <3>2
      <4>2. b.trace = Bundle(a, offsets)
        BY <4>1 DEF Prepared
      <4> QED
        BY <4>2, MadeByBundle
    <3> QED
      BY <2>2, <3>1, <3>2
  <2>4. /\ cohort' = [d \in Cohorts |-> [e \in Arms |-> cohort'[d][e]]]
        /\ \A d \in Cohorts, e \in Arms : cohort'[d][e] = IF d = c /\ e = a THEN b ELSE cohort[d][e]
    <3>1. cohort = [d \in Cohorts |-> [e \in Arms |-> cohort[d][e]]]
      OBVIOUS
    <3> HIDE DEF ArmInv, CohortInv
    <3>2. \A d \in Cohorts : cohort'[d] = IF d = c THEN [cohort[d] EXCEPT ![a] = b] ELSE cohort[d]
      BY <2>2, <3>1
    <3>3. cohort' = [d \in Cohorts |-> cohort'[d]]
      BY <2>2, <3>1
    <3>4. \A d \in Cohorts : cohort[d] = [e \in Arms |-> cohort[d][e]]
      BY <3>1
    <3>5. \A d \in Cohorts : cohort'[d] = [e \in Arms |-> IF d = c /\ e = a THEN b ELSE cohort[d][e]]
      BY <3>2, <3>4
    <3> QED
      BY <3>3, <3>5
  <2>5. UNCHANGED <<writer, begun, index>>
    BY <1>6 DEF ChangeArm
  <2> QED
    BY <2>3, <2>4, <2>5 DEF Preparing, Indexed
<1>7. CASE UNCHANGED prepared
  BY <1>7 DEF prepared, Preparing, Indexed
<1>8. \/ BeginPreparation \/ PrepareArm \/ IndexArms \/ PreparationDies \/ RemoveCohort
      \/ ChangeArm \/ UNCHANGED prepared
  BY DEF SourceNext, Preparation, Phases, Meddling, sourceVars, ChooseArm, CopyingDies, ImportArm,
         ImportDies, Summarise, Continue, Freeze, BeginConfirmation, InvocationDies, ChangeInputs,
         ChangeRun
<1> QED
  BY <1>1, <1>2, <1>3, <1>4, <1>5, <1>6, <1>7, <1>8

LEMMA CopiesKept ==
    ASSUME ArmInv, [SourceNext]_sourceVars
    PROVE  \A a \in Arms : \A b : CopyOf(a, b) => CopyOf(a, b)'
BY IndexGrows, CopyKept

\* What is discovered is what was indexed, and can be copied.
LEMMA DiscoveredIsIndexed ==
    ASSUME NEW c \in Discovered, NEW a \in Arms
    PROVE  LET b == cohort[c][a] IN CopyOf(a, b) /\ CopyOf(a, Remapped(b)) /\ CopyOf(a, Edited(b))
<1>1. c \in Cohorts /\ index[c][a] # None /\ cohort[c][a] = index[c][a]
  BY DEF Discovered, WholeCohort, Indexed
<1> QED
  BY <1>1 DEF CopyOf, Forms

\* A whole bundle of the campaign is sealed.
LEMMA WholeIsSealed == ASSUME NEW b, Whole(b) PROVE b # None /\ b.trace.sealed
BY DEF Whole, Valid

\* What a campaign copies, imports and reports stays a copy of an indexed arm.
LEMMA CampaignNext ==
    ASSUME ArmInv, [SourceNext]_sourceVars
    PROVE  CampaignInv'
<1>a. \A a \in Arms : \A b : CopyOf(a, b) => CopyOf(a, b)'
  BY CopiesKept
<1>b. CampaignInv /\ CohortInv
  BY DEF ArmInv
<1>c. \A a \in Arms : \A b : CopyOf(a, b) => CopyOf(a, Edited(b))
  BY CopyEdited
<1> HIDE DEF CohortInv
<1> USE DEF CampaignInv
<1>s. ASSUME NEW left, Stops(left), UNCHANGED inputs PROVE CampaignInv'
  BY <1>a, <1>b, <1>s DEF Stops
<1>1. CASE ChooseArm
  <2>1. PICK a \in Arms :
          IF Discovered # {} /\ (inputs[a] # None => Whole(inputs[a]))
          THEN /\ stage' = "chosen" /\ chosen' = a /\ UNCHANGED <<run, campaign>>
               /\ \/ inputs[a] # None /\ UNCHANGED inputs
                  \/ /\ inputs[a] = None
                     /\ \E c \in Discovered : inputs' = [inputs EXCEPT ![a] = Remapped(cohort[c][a])]
          ELSE Stops(run) /\ UNCHANGED inputs
    BY <1>1 DEF ChooseArm
  <2>2. CASE Stops(run) /\ UNCHANGED inputs
    BY <1>s, <2>2
  <2>3. CASE stage' = "chosen" /\ chosen' = a /\ UNCHANGED <<run, campaign>> /\ UNCHANGED inputs
    BY <1>a, <1>b, <2>3 DEF campaign
  <2>4. ASSUME stage' = "chosen", chosen' = a, UNCHANGED <<run, campaign>>,
               NEW c \in Discovered, inputs' = [inputs EXCEPT ![a] = Remapped(cohort[c][a])]
        PROVE  CampaignInv'
    <3>1. CopyOf(a, Remapped(cohort[c][a]))
      BY DiscoveredIsIndexed
    <3>2. /\ inputs' = [x \in Arms |-> inputs'[x]]
          /\ \A x \in Arms : inputs'[x] = IF x = a THEN Remapped(cohort[c][a]) ELSE inputs[x]
      BY <1>b, <2>4
    <3>3. \A x \in Arms : inputs'[x] # None => CopyOf(x, inputs[x])'
      BY <1>a, <1>b, <3>1, <3>2
    <3> QED
      BY <1>b, <2>4, <3>2, <3>3 DEF campaign
  <2> QED
    BY <2>1, <2>2, <2>3, <2>4
<1>2. CASE CopyingDies
  <2>1. Stops(run)
    BY <1>2 DEF CopyingDies
  <2>2. PICK a \in Arms, c \in Discovered :
          \E b \in {cohort[c][a], Edited(cohort[c][a])} : inputs' = [inputs EXCEPT ![a] = b]
    BY <1>2 DEF CopyingDies
  <2>3. PICK b \in {cohort[c][a], Edited(cohort[c][a])} : inputs' = [inputs EXCEPT ![a] = b]
    BY <2>2
  <2>4. CopyOf(a, b)
    BY <2>3, DiscoveredIsIndexed
  <2>5. /\ inputs' = [x \in Arms |-> inputs'[x]]
        /\ \A x \in Arms : inputs'[x] = IF x = a THEN b ELSE inputs[x]
    BY <1>b, <2>3
  <2>6. \A x \in Arms : inputs'[x] # None => CopyOf(x, inputs[x])'
    BY <1>a, <1>b, <2>4, <2>5
  <2> QED
    BY <1>b, <2>1, <2>5, <2>6 DEF Stops
<1>3. CASE ImportArm
  <2>1. CASE stage' = "imported"
    <3>1. /\ Whole(inputs[chosen]) /\ run' = inputs[chosen] /\ UNCHANGED <<chosen, campaign, inputs>>
          /\ inputs[chosen].gateways \subseteq Deployed /\ chosen \in Arms
      BY <1>3, <1>b, <2>1 DEF ImportArm, Stops
    <3>2. CopyOf(chosen, inputs[chosen])
      BY <1>b, <3>1, WholeIsSealed
    <3>3. CopyOf(chosen, run)'
      BY <1>a, <3>1, <3>2
    <3> QED
      BY <1>a, <1>b, <2>1, <3>1, <3>3 DEF campaign
  <2>2. CASE Stops(run) /\ UNCHANGED inputs
    BY <1>s, <2>2
  <2> QED
    BY <1>3, <2>1, <2>2 DEF ImportArm
<1>4. CASE ImportDies
  BY <1>4, <1>s DEF ImportDies
<1>5. CASE Summarise
  <2>1. CASE stage' = "reported"
    <3>1. Whole(run) /\ stage = "imported" /\ UNCHANGED <<chosen, run, campaign, inputs>>
      BY <1>5, <2>1 DEF Summarise, Stops
    <3>2. run.trace.sealed
      BY <3>1, WholeIsSealed
    <3>3. CopyOf(chosen, run)'
      BY <1>a, <1>b, <3>1
    <3> QED
      BY <1>a, <1>b, <2>1, <3>1, <3>2, <3>3 DEF campaign
  <2>2. CASE Stops(run) /\ UNCHANGED inputs
    BY <1>s, <2>2
  <2> QED
    BY <1>5, <2>1, <2>2 DEF Summarise
<1>6. CASE Continue \/ Freeze \/ BeginConfirmation
  <2>1. inputs' = inputs
    BY <1>6 DEF Continue, Freeze, BeginConfirmation
  <2>2. (stage' = "idle" /\ chosen' = None) \/ UNCHANGED replayed
    BY <1>6 DEF Continue, Freeze, BeginConfirmation
  <2>3. frozen' \in Cohorts \cup {None} /\ phase' \in {"qualification", "freeze", "paused", "confirmation"}
    BY <1>6, <1>b DEF Continue, Freeze, BeginConfirmation, Discovered
  <2> QED
    BY <1>a, <1>b, <2>1, <2>2, <2>3 DEF replayed
<1>7. CASE InvocationDies
  BY <1>7, <1>s DEF InvocationDies
<1>8. CASE ChangeInputs
  <2>1. PICK a \in Arms : inputs[a] # None /\ inputs' = [inputs EXCEPT ![a] = Edited(inputs[a])]
    BY <1>8 DEF ChangeInputs
  <2>2. CopyOf(a, Edited(inputs[a]))
    BY <1>b, <1>c, <2>1
  <2>3. /\ inputs' = [x \in Arms |-> inputs'[x]]
        /\ \A x \in Arms : inputs'[x] = IF x = a THEN Edited(inputs[a]) ELSE inputs[x]
    BY <1>b, <2>1
  <2>4. \A x \in Arms : inputs'[x] # None => CopyOf(x, inputs[x])'
    BY <1>a, <1>b, <2>2, <2>3
  <2>5. UNCHANGED <<campaign, replayed>>
    BY <1>8 DEF ChangeInputs
  <2> QED
    BY <1>a, <1>b, <2>3, <2>4, <2>5 DEF campaign, replayed
<1>9. CASE ChangeRun
  <2>1. stage = "imported" /\ run' = Edited(run) /\ UNCHANGED <<inputs, campaign, stage, chosen>>
    BY <1>9 DEF ChangeRun
  <2>2. CopyOf(chosen, run)'
    BY <1>a, <1>b, <1>c, <2>1
  <2>3. run'.gateways = run.gateways
    BY <2>1 DEF Edited
  <2> QED
    BY <1>a, <1>b, <2>1, <2>2, <2>3 DEF campaign
<1>10. CASE UNCHANGED <<inputs, campaign, replayed>>
  BY <1>a, <1>b, <1>10 DEF campaign, replayed
<1>11. \/ ChooseArm \/ CopyingDies \/ ImportArm \/ ImportDies \/ Summarise \/ InvocationDies
       \/ Continue \/ Freeze \/ BeginConfirmation \/ ChangeInputs \/ ChangeRun
       \/ UNCHANGED <<inputs, campaign, replayed>>
  BY DEF SourceNext, Preparation, Phases, Meddling, sourceVars, BeginPreparation, PrepareArm,
         IndexArms, PreparationDies, RemoveCohort, ChangeArm
<1> QED
  BY <1>1, <1>2, <1>3, <1>4, <1>5, <1>6, <1>7, <1>8, <1>9, <1>10, <1>11

\* Whatever is edited or killed, and whichever cohort is found: each indexed arm
\* was made by transform_bundle for its name and found to match, an index is
\* never written over, and what a campaign copies to its inputs and imports is an
\* indexed arm of that name, mapped or not, or one whose files were edited since
\* (prepare_latest, _bundle, _remap_bundle, import_bundle).
THEOREM ArmInvariant == SourceSpec => []ArmInv
<1>1. ArmInv /\ [SourceNext]_sourceVars => ArmInv'
  BY CohortNext, CampaignNext DEF ArmInv
<1> QED
  BY <1>1, ArmInvInit, PTL DEF SourceSpec

\* For any native trace, contract, number of cohorts, edits and kills: indexed
\* arms have the native events, in order, with the native gaps or equal ones, and
\* a summary is about the indexed arm of its name, its events as they were
\* indexed, on deployed UEs, although the copy in inputs/ is used again on the
\* strength of its own manifest alone.
THEOREM FaithfulArms == SourceSpec => []ArmsAreFaithful
<1>1. ArmInv => ArmsAreFaithful
  <2> SUFFICES ASSUME ArmInv PROVE ArmsAreFaithful
    OBVIOUS
  <2>1. \A c \in Cohorts, a \in Arms : index[c][a] # None =>
            Made(a, index[c][a].trace) /\ Faithful(a, index[c][a].trace)
    BY FaithfulArm DEF ArmInv, CohortInv
  <2>2. ASSUME stage = "reported"
        PROVE  /\ MadeOfIndexed(chosen, run) /\ Faithful(chosen, run.trace)
               /\ run.gateways \subseteq Deployed
    <3>1. chosen \in Arms /\ CopyOf(chosen, run) /\ run.trace.sealed /\ run.gateways \subseteq Deployed
      BY <2>2 DEF ArmInv, CampaignInv
    <3>2. PICK c \in Cohorts : index[c][chosen] # None /\ run \in Forms(index[c][chosen])
      BY <3>1 DEF CopyOf
    <3>3. Made(chosen, index[c][chosen].trace) /\ Faithful(chosen, index[c][chosen].trace)
      BY <2>1, <3>1, <3>2
    <3>4. run \in {index[c][chosen], Remapped(index[c][chosen])} /\ run.trace = index[c][chosen].trace
      BY <3>1, <3>2, <3>3, FormsHold
    <3> QED
      BY <3>1, <3>2, <3>3, <3>4 DEF MadeOfIndexed
  <2>3. SourceTypeOK
    BY DEF ArmInv, CohortInv, CampaignInv, SourceTypeOK
  <2> QED
    BY <2>1, <2>2, <2>3 DEF ArmsAreFaithful
<1> QED
  BY <1>1, ArmInvariant, PTL
=============================================================================
