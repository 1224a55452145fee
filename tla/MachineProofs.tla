--------------------------- MODULE MachineProofs ---------------------------
(***************************************************************************)
(* Proofs about what is done to the machines of an experiment: how they    *)
(* are prepared, and how a competing load is put on their network.         *)
(***************************************************************************)
EXTENDS FreshPreparation, CompetingLoad, FiniteSetTheorems, TLAPS

----------------------------------------------------------------------------
(* Fresh preparation: authority before mutation, for any set of nodes,     *)
(* events and folders.  PreparationInv is inductive: each conjunct is      *)
(* shown to be preserved by the actions that can disturb it.               *)

LEMMA NothingTyped == NothingRetained \in Retained
BY DEF NothingRetained, Retained

LEMMA NoWorkersTyped == NoWorkers \in [Nodes -> Workers]
BY DEF NoWorkers, Workers, Ready

LEMMA NoClaimsTyped == NoClaims \in [Nodes -> Authorised \cup {"unproven", "already-active"}]
BY DEF NoClaims

LEMMA InitInv == Init => PreparationInv
<1> SUFFICES ASSUME Init PROVE PreparationInv
  OBVIOUS
<1>1. TypeOK
  BY NothingTyped, NoWorkersTyped, NoClaimsTyped DEF Init, TypeOK, MainPC
<1>2. FolderInv
  BY DEF Init, FolderInv, NothingRetained
<1>3. ClaimInv
  BY DEF Init, ClaimInv, MainAt
<1>4. ThreadInv
  BY DEF Init, ThreadInv, MainAt, WorkerAt, NoWorkers, Preparing
<1>5. ReadyIsEarned
  BY DEF Init, ReadyIsEarned
<1> QED BY <1>1, <1>2, <1>3, <1>4, <1>5 DEF PreparationInv

\* What Allocate does to node n and to no other.
LEMMA AllocateEffect ==
    ASSUME NEW n \in Nodes, TypeOK, Allocate(n)
    PROVE  /\ allocation[n] = None
           /\ allocation' \in Retained
           /\ allocation'[n] # None
           /\ allocation'[n].folder = authority.folder
           /\ allocation'[n].event = authority.event
           /\ \A m \in Nodes \ {n} : allocation'[m] = allocation[m]
<1>1. PICK id \in Ids : allocation' = [allocation EXCEPT ![n] =
               [id |-> id, folder |-> authority.folder, event |-> authority.event]]
  BY DEF Allocate
<1>2. [id |-> id, folder |-> authority.folder, event |-> authority.event] \in Allocations
  BY DEF TypeOK, Allocations
<1>3. allocation \in [Nodes -> Allocations \cup {None}]
  BY DEF TypeOK, Retained
<1>4. allocation[n] = None
  BY DEF Allocate
<1> QED BY <1>1, <1>2, <1>3, <1>4, NoneAssumption DEF Retained

\* A step that moves neither the threads nor a verdict.
LEMMA ThreadFrame ==
    ASSUME ThreadInv, ReadyIsEarned, UNCHANGED threads,
           ~Preparing, ~Preparing', ~MainAt("idle"),
           evidence' = "preparing" \/ (evidence' = "failed" /\ MainAt("idle")')
    PROVE  ThreadInv' /\ ReadyIsEarned'
BY DEF ThreadInv, ReadyIsEarned, threads, Preparing, MainAt, WorkerAt

\* What Begin establishes.
LEMMA BeginInv ==
    ASSUME NEW e \in Events, PreparationInv, Begin(e)
    PROVE  PreparationInv'
<1>0. TypeOK /\ FolderInv
  BY DEF PreparationInv
<1>1. /\ authority' \in [event : Events \cup {NoEvent}, folder : Folders \cup {Foreign},
                         retained : Retained]
      /\ FolderInv'
  <2>0. UNCHANGED allocation
    BY DEF Begin
  <2>1. CASE UNCHANGED authority
    BY <1>0, <2>0, <2>1 DEF TypeOK, FolderInv
  <2>2. CASE NewAuthority(e)
    <3>1. PICK f \in Unused : authority' = [event |-> e, folder |-> f, retained |-> NothingRetained]
      BY <2>2 DEF NewAuthority
    <3>2. f \in Folders /\ \A n \in Nodes : allocation[n] # None => allocation[n].folder # f
      BY DEF Unused
    <3> QED BY <2>0, <3>1, <3>2, NothingTyped, FoldersAssumption DEF FolderInv
  <2> QED BY <2>1, <2>2 DEF Begin, SaveState
<1>2. /\ main' = [pc |-> "probing", node |-> NoNode] /\ todo' = Nodes
      /\ claim' = NoClaims /\ worker' = NoWorkers /\ stop' = FALSE
      /\ evidence' = "preparing" /\ allocation' = allocation
  BY DEF Begin, MainGoes
<1>3. main' \in [pc : MainPC, node : Nodes \cup {NoNode}] /\ main'.pc = "probing"
  BY <1>0, <1>2 DEF TypeOK, MainPC
<1>4. TypeOK'
  BY <1>0, <1>1, <1>2, <1>3, NoWorkersTyped, NoClaimsTyped DEF TypeOK
<1>5. ClaimInv'
  BY <1>2, <1>3 DEF ClaimInv, MainAt, NoClaims, Authorised, Preparing
<1>6. ThreadInv' /\ ReadyIsEarned'
  BY <1>2, <1>3 DEF ThreadInv, ReadyIsEarned, MainAt, NoWorkers, WorkerAt, Preparing
<1> QED BY <1>1, <1>4, <1>5, <1>6 DEF PreparationInv

\* A node is granted: the allocation is new, and nothing else moves.
LEMMA GrantedInv ==
    ASSUME NEW n \in Nodes, NEW how \in {"new", "reclaimed"}, PreparationInv,
           Allocate(n), Granted(n, how), n \in todo, main.pc \in {"probing", "reclaiming"}
    PROVE  PreparationInv'
<1>0. TypeOK /\ FolderInv /\ ClaimInv /\ ThreadInv /\ ReadyIsEarned
  BY DEF PreparationInv
<1>1. /\ allocation[n] = None
      /\ allocation' \in Retained
      /\ allocation'[n] # None
      /\ allocation'[n].folder = authority.folder
      /\ allocation'[n].event = authority.event
      /\ \A m \in Nodes \ {n} : allocation'[m] = allocation[m]
  BY <1>0, AllocateEffect
<1>2. /\ claim' = [claim EXCEPT ![n] = how] /\ todo' = todo \ {n}
      /\ main' = [pc |-> "recording", node |-> n]
      /\ UNCHANGED <<authority, threads, evidence>>
  BY DEF Granted
<1>3. TypeOK'
  BY <1>0, <1>1, <1>2 DEF TypeOK, MainPC, Authorised, threads
<1>4. FolderInv'
  BY <1>0, <1>1, <1>2 DEF FolderInv
<1>5. ClaimInv'
  <2>1. \A m \in Nodes : claim'[m] \in Authorised =>
            allocation'[m] # None /\ allocation'[m].event = authority'.event
    BY <1>0, <1>1, <1>2 DEF ClaimInv, MainAt, TypeOK
  <2>2. \A m \in todo' : claim'[m] \notin Authorised
    BY <1>0, <1>2 DEF ClaimInv, MainAt, TypeOK
  <2> QED BY <1>2, <2>1, <2>2 DEF ClaimInv, MainAt, Preparing
<1>6. ThreadInv' /\ ReadyIsEarned'
  BY <1>0, <1>2, ThreadFrame DEF MainAt, Preparing, ThreadInv
<1> QED BY <1>3, <1>4, <1>5, <1>6 DEF PreparationInv

\* The other steps of the two loops, one lemma per action.
LEMMA ProbeFindsActiveInv ==
    ASSUME NEW n \in Nodes, PreparationInv, ProbeFindsActive(n)
    PROVE  PreparationInv'
<1>0. TypeOK /\ FolderInv /\ ClaimInv /\ ThreadInv /\ ReadyIsEarned
  BY DEF PreparationInv
<1>1. /\ MainAt("probing") /\ claim' = [claim EXCEPT ![n] = "already-active"]
      /\ todo' = todo \ {n} /\ UNCHANGED <<allocation, authority, main, threads, evidence>>
  BY DEF ProbeFindsActive, provider
<1>2. TypeOK'
  BY <1>0, <1>1 DEF TypeOK, threads
<1>3. FolderInv'
  BY <1>0, <1>1 DEF FolderInv
<1>4. ClaimInv'
  BY <1>0, <1>1 DEF ClaimInv, MainAt, Preparing, TypeOK, Authorised
<1>5. ThreadInv' /\ ReadyIsEarned'
  BY <1>0, <1>1, ThreadFrame DEF MainAt, Preparing, ThreadInv
<1> QED BY <1>2, <1>3, <1>4, <1>5 DEF PreparationInv

LEMMA ProbeEndsInv ==
    ASSUME PreparationInv, ProbeEnds
    PROVE  PreparationInv'
<1>0. TypeOK /\ FolderInv /\ ClaimInv /\ ThreadInv /\ ReadyIsEarned
  BY DEF PreparationInv
<1>1. /\ MainAt("probing") /\ main' = [pc |-> "claiming", node |-> NoNode]
      /\ todo' = {n \in Nodes : claim[n] = "already-active"}
      /\ UNCHANGED <<allocation, authority, claim, threads, evidence>>
  BY DEF ProbeEnds, provider, MainGoes
<1>2. TypeOK' /\ main'.pc = "claiming"
  BY <1>0, <1>1 DEF TypeOK, threads, MainPC
<1>3. FolderInv'
  BY <1>0, <1>1 DEF FolderInv
<1>4. ClaimInv'
  BY <1>0, <1>1, <1>2 DEF ClaimInv, MainAt, Preparing, Authorised
<1>5. ThreadInv' /\ ReadyIsEarned'
  BY <1>0, <1>1, <1>2, ThreadFrame DEF MainAt, Preparing, ThreadInv
<1> QED BY <1>2, <1>3, <1>4, <1>5 DEF PreparationInv

LEMMA RecordInv ==
    ASSUME PreparationInv, Record
    PROVE  PreparationInv'
<1>0. TypeOK /\ FolderInv /\ ClaimInv /\ ThreadInv /\ ReadyIsEarned
  BY DEF PreparationInv
<1>1. /\ MainAt("recording") /\ main.node \in Nodes
      /\ UNCHANGED <<allocation, todo, claim, threads, evidence>>
  BY <1>0 DEF Record, ClaimInv, MainAt
<1>2. main' = [pc |-> IF claim[main.node] = "new" THEN "probing" ELSE "claiming", node |-> NoNode]
  BY DEF Record, MainGoes
<1>3. main'.pc \in {"probing", "claiming"} /\ main'.node = NoNode
  BY <1>2
<1>4. /\ authority' \in [event : Events \cup {NoEvent}, folder : Folders \cup {Foreign},
                         retained : Retained]
      /\ authority'.folder = authority.folder /\ authority'.event = authority.event
  <2>1. CASE UNCHANGED authority
    BY <1>0, <2>1 DEF TypeOK
  <2>2. CASE authority' = [authority EXCEPT !.retained[main.node] = allocation[main.node]]
    <3>1. [authority.retained EXCEPT ![main.node] = allocation[main.node]] \in Retained
      BY <1>0, <1>1 DEF TypeOK, Retained
    <3> QED BY <1>0, <2>2, <3>1 DEF TypeOK
  <2> QED BY <2>1, <2>2 DEF Record
<1>5. TypeOK'
  BY <1>0, <1>1, <1>2, <1>3, <1>4 DEF TypeOK, threads, MainPC
<1>6. FolderInv'
  BY <1>0, <1>1, <1>4 DEF FolderInv
<1>7. ClaimInv'
  BY <1>0, <1>1, <1>3, <1>4 DEF ClaimInv, MainAt, Preparing
<1>8. ThreadInv' /\ ReadyIsEarned'
  BY <1>0, <1>1, <1>3, ThreadFrame DEF MainAt, Preparing, ThreadInv
<1> QED BY <1>5, <1>6, <1>7, <1>8 DEF PreparationInv

\* A match with the retained allocation carries its event: the folder does.
LEMMA ClaimManagedInv ==
    ASSUME NEW n \in Nodes, PreparationInv, ClaimManaged(n)
    PROVE  PreparationInv'
<1>0. TypeOK /\ FolderInv /\ ClaimInv /\ ThreadInv /\ ReadyIsEarned
  BY DEF PreparationInv
<1>1. /\ MainAt("claiming") /\ claim' = [claim EXCEPT ![n] = "managed-existing"]
      /\ todo' = todo \ {n} /\ UNCHANGED <<allocation, authority, main, threads, evidence>>
  BY DEF ClaimManaged, provider
<1>2. allocation[n] # None /\ allocation[n].event = authority.event
  BY <1>0 DEF ClaimManaged, Matches, FolderInv
<1>3. TypeOK'
  BY <1>0, <1>1 DEF TypeOK, threads, Authorised
<1>4. FolderInv'
  BY <1>0, <1>1 DEF FolderInv
<1>5. ClaimInv'
  BY <1>0, <1>1, <1>2 DEF ClaimInv, MainAt, Preparing, TypeOK
<1>6. ThreadInv' /\ ReadyIsEarned'
  BY <1>0, <1>1, ThreadFrame DEF MainAt, Preparing, ThreadInv
<1> QED BY <1>3, <1>4, <1>5, <1>6 DEF PreparationInv

\* Only a node without authority is freed.
LEMMA ReclaimFreesInv ==
    ASSUME NEW n \in Nodes, PreparationInv, ReclaimFrees(n)
    PROVE  PreparationInv'
<1>0. TypeOK /\ FolderInv /\ ClaimInv /\ ThreadInv /\ ReadyIsEarned
  BY DEF PreparationInv
<1>1. /\ MainAt("claiming") /\ n \in todo /\ main' = [pc |-> "reclaiming", node |-> n]
      /\ UNCHANGED <<authority, todo, claim, threads, evidence>>
  BY DEF ReclaimFrees
<1>2. /\ allocation' \in Retained
      /\ \A m \in Nodes : allocation'[m] = allocation[m] \/ (m = n /\ allocation'[m] = None)
  BY <1>0 DEF ReclaimFrees, TypeOK, Retained
<1>3. TypeOK'
  BY <1>0, <1>1, <1>2 DEF TypeOK, threads, MainPC
<1>4. FolderInv'
  BY <1>0, <1>1, <1>2 DEF FolderInv
<1>5. ClaimInv'
  BY <1>0, <1>1, <1>2 DEF ClaimInv, MainAt, Preparing
<1>6. ThreadInv' /\ ReadyIsEarned'
  BY <1>0, <1>1, ThreadFrame DEF MainAt, Preparing, ThreadInv
<1> QED BY <1>3, <1>4, <1>5, <1>6 DEF PreparationInv

LEMMA AuthorityFailsInv ==
    ASSUME PreparationInv, AuthorityFails
    PROVE  PreparationInv'
<1>0. TypeOK /\ FolderInv /\ ClaimInv /\ ThreadInv /\ ReadyIsEarned
  BY DEF PreparationInv
<1>1. /\ main.pc \in {"probing", "recording", "reclaiming"}
      /\ main' = [pc |-> "idle", node |-> NoNode] /\ todo' = {} /\ claim' = NoClaims
      /\ stop' = FALSE /\ evidence' = "failed"
      /\ UNCHANGED <<authority, worker>>
  BY DEF AuthorityFails, MainEnds, MainGoes
<1>2. allocation' \in Retained /\ FolderInv'
  <2>1. CASE UNCHANGED allocation
    BY <1>0, <1>1, <2>1 DEF TypeOK, FolderInv
  <2>2. CASE \E n \in (IF MainAt("probing") THEN todo ELSE {main.node}) : Allocate(n)
    <3>1. PICK n \in Nodes : Allocate(n)
      BY <1>0, <1>1, <2>2 DEF TypeOK, ClaimInv, MainAt
    <3> QED BY <1>0, <1>1, <3>1, AllocateEffect DEF FolderInv
  <2> QED BY <2>1, <2>2 DEF AuthorityFails
<1>3. TypeOK' /\ main'.pc = "idle"
  BY <1>0, <1>1, <1>2, NoClaimsTyped DEF TypeOK, MainPC
<1>4. ClaimInv'
  BY <1>3 DEF ClaimInv, MainAt
<1>5. UNCHANGED threads
  BY <1>0, <1>1 DEF threads, ThreadInv, MainAt, Preparing, TypeOK
<1>6. ThreadInv' /\ ReadyIsEarned'
  BY <1>0, <1>1, <1>3, <1>5, ThreadFrame DEF MainAt, Preparing
<1> QED BY <1>2, <1>3, <1>4, <1>6 DEF PreparationInv

LEMMA DispatchInv ==
    ASSUME PreparationInv, Dispatch
    PROVE  PreparationInv'
<1>0. TypeOK /\ FolderInv /\ ClaimInv /\ ThreadInv /\ ReadyIsEarned
  BY DEF PreparationInv
<1>1. /\ MainAt("claiming") /\ main' = [pc |-> "waiting", node |-> NoNode]
      /\ todo = {} /\ \A n \in Nodes : claim[n] \in Authorised
      /\ worker' = [n \in Nodes |-> [pc |-> "queued", done |-> 0]]
      /\ UNCHANGED <<allocation, authority, todo, claim, stop, evidence>>
  BY DEF Dispatch, provider, MainGoes
<1>2. worker' \in [Nodes -> Workers]
  BY <1>1 DEF Workers, Ready
<1>3. TypeOK' /\ main'.pc = "waiting"
  BY <1>0, <1>1, <1>2 DEF TypeOK, MainPC
<1>4. FolderInv'
  BY <1>0, <1>1 DEF FolderInv
<1>5. ClaimInv'
  BY <1>0, <1>1, <1>3 DEF ClaimInv, MainAt, Preparing
<1>6. ThreadInv' /\ ReadyIsEarned'
  BY <1>0, <1>1, <1>3 DEF ThreadInv, ReadyIsEarned, MainAt, Preparing, WorkerAt
<1> QED BY <1>3, <1>4, <1>5, <1>6 DEF PreparationInv

\* A thread is at work only while the controller waits or joins.
LEMMA ThreadWorks ==
    ASSUME PreparationInv, NEW n \in Nodes, worker[n].pc \notin Finished \cup {"absent"}
    PROVE  Preparing /\ evidence = "preparing"
BY DEF PreparationInv, ThreadInv, Preparing, MainAt

\* What concerns the provider and the claims is untouched by the threads.
LEMMA ClaimFrame ==
    ASSUME FolderInv, ClaimInv, UNCHANGED <<allocation, authority, main, todo, claim>>
    PROVE  FolderInv' /\ ClaimInv'
BY DEF FolderInv, ClaimInv, MainAt, Preparing

LEMMA WorkerInv ==
    ASSUME NEW n \in Nodes, PreparationInv, Worker(n)
    PROVE  PreparationInv'
<1>0. TypeOK /\ FolderInv /\ ClaimInv /\ ThreadInv /\ ReadyIsEarned
  BY DEF PreparationInv
<1>1. UNCHANGED <<allocation, authority, main, todo, claim, evidence>>
  BY DEF Worker, WorkerStarts, WorkerChecks, WorkerCompletes, WorkerFails, WorkerSignals, provider
<1>2. Preparing /\ evidence = "preparing"
  BY ThreadWorks DEF Worker, WorkerStarts, WorkerChecks, WorkerCompletes, WorkerFails,
     WorkerSignals, WorkerAt, Finished, Raised
<1>3. worker \in [Nodes -> Workers] /\ stop \in BOOLEAN
  BY <1>0 DEF TypeOK
<1>4. /\ worker' \in [Nodes -> Workers] /\ stop' \in BOOLEAN
      /\ \A m \in Nodes \ {n} : worker'[m] = worker[m]
      /\ worker'[n].pc \in {"checking", "running"} => worker'[n].done < Ready
      /\ WorkerAt(n, "ready")' => worker'[n].done = Ready
      /\ WorkerAt(n, "queued")' => worker'[n].done = 0
      /\ WorkerAt(n, "cancelled")' => stop
      /\ stop' # stop => WorkerAt(n, "failed")'
      /\ ~WorkerAt(n, "failed")
  <2>1. CASE WorkerStarts(n)
    BY <1>0, <1>3, <2>1 DEF WorkerStarts, WorkerAt, WorkerGoes, Workers, Ready, ThreadInv
  <2>2. CASE WorkerChecks(n)
    BY <1>0, <1>3, <2>2 DEF WorkerChecks, WorkerAt, WorkerGoes, Workers, Ready, ThreadInv
  <2>3. CASE WorkerCompletes(n)
    <3>1. worker[n].done \in 0..Ready /\ worker[n].done < Ready /\ WorkerAt(n, "running")
      BY <1>0, <1>3, <2>3 DEF WorkerCompletes, WorkerAt, Workers, ThreadInv
    <3>2. worker' = [worker EXCEPT ![n] =
              [pc |-> IF worker[n].done + 1 = Ready THEN "ready" ELSE "checking",
               done |-> worker[n].done + 1]]
      BY <2>3 DEF WorkerCompletes
    <3>3. worker[n].done + 1 \in 0..Ready
      BY <3>1 DEF Ready
    <3> QED BY <1>3, <2>3, <3>1, <3>2, <3>3 DEF WorkerCompletes, WorkerAt, Workers, Ready
  <2>4. CASE WorkerFails(n)
    BY <1>0, <1>3, <2>4 DEF WorkerFails, WorkerAt, WorkerGoes, Workers, Ready, ThreadInv
  <2>5. CASE WorkerSignals(n)
    BY <1>0, <1>3, <2>5 DEF WorkerSignals, WorkerAt, WorkerGoes, Workers, Ready, ThreadInv
  <2> QED BY <2>1, <2>2, <2>3, <2>4, <2>5 DEF Worker
<1>5. TypeOK'
  BY <1>0, <1>1, <1>4 DEF TypeOK
<1>6. FolderInv' /\ ClaimInv'
  BY <1>0, <1>1, ClaimFrame
<1>7. ThreadInv'
  <2>1. stop => stop'
    BY DEF Worker, WorkerStarts, WorkerChecks, WorkerCompletes, WorkerFails, WorkerSignals
  <2>2. Preparing' /\ ~MainAt("idle")' /\ evidence' = "preparing"
    BY <1>1, <1>2 DEF Preparing, MainAt
  <2>3. stop' => \E m \in Nodes : WorkerAt(m, "failed")'
    BY <1>0, <1>2, <1>4, <2>1 DEF ThreadInv, WorkerAt
  <2>4. \A m \in Nodes : WorkerAt(m, "cancelled")' => stop'
    BY <1>0, <1>2, <1>4, <2>1 DEF ThreadInv, WorkerAt
  <2>5. \A m \in Nodes :
            /\ worker'[m].pc \in {"checking", "running"} => worker'[m].done < Ready
            /\ WorkerAt(m, "ready")' => worker'[m].done = Ready
            /\ WorkerAt(m, "queued")' => worker'[m].done = 0
    BY <1>0, <1>4 DEF ThreadInv, WorkerAt
  <2> QED BY <2>2, <2>3, <2>4, <2>5 DEF ThreadInv, WorkerAt
<1>8. ReadyIsEarned'
  BY <1>1, <1>2 DEF ReadyIsEarned
<1> QED BY <1>5, <1>6, <1>7, <1>8 DEF PreparationInv

LEMMA MainWakesInv ==
    ASSUME PreparationInv, MainWakes
    PROVE  PreparationInv'
<1>0. TypeOK /\ FolderInv /\ ClaimInv /\ ThreadInv /\ ReadyIsEarned
  BY DEF PreparationInv
<1>1. /\ MainAt("waiting") /\ main' = [pc |-> "joining", node |-> NoNode]
      /\ worker' = [n \in Nodes |-> IF WorkerAt(n, "queued")
                                    THEN [worker[n] EXCEPT !.pc = "dropped"] ELSE worker[n]]
      /\ UNCHANGED <<allocation, authority, todo, claim, stop, evidence>>
  BY DEF MainWakes, provider, MainGoes
<1>2. worker' \in [Nodes -> Workers]
  BY <1>0, <1>1 DEF TypeOK, Workers
<1>3. TypeOK' /\ main'.pc = "joining"
  BY <1>0, <1>1, <1>2 DEF TypeOK, MainPC
<1>4. FolderInv' /\ ClaimInv'
  BY <1>0, <1>1, <1>3 DEF FolderInv, ClaimInv, MainAt, Preparing
<1>5. \A n \in Nodes :
          \/ worker'[n] = worker[n]
          \/ WorkerAt(n, "queued") /\ worker'[n].pc = "dropped"
  BY <1>0, <1>1 DEF TypeOK, Workers
<1>6. ThreadInv' /\ ReadyIsEarned'
  BY <1>0, <1>1, <1>3, <1>5 DEF ThreadInv, ReadyIsEarned, MainAt, Preparing, WorkerAt
<1> QED BY <1>3, <1>4, <1>6 DEF PreparationInv

\* No failure and no thread left: then none was cancelled either, since a
\* cancelled thread has a peer that failed.
LEMMA MainJoinsInv ==
    ASSUME PreparationInv, MainJoins
    PROVE  PreparationInv'
<1>0. TypeOK /\ FolderInv /\ ClaimInv /\ ThreadInv /\ ReadyIsEarned
  BY DEF PreparationInv
<1>1. /\ MainAt("joining") /\ main' = [pc |-> "idle", node |-> NoNode]
      /\ todo' = {} /\ claim' = NoClaims /\ stop' = FALSE
      /\ \A n \in Nodes : worker[n].pc \in Finished
      /\ evidence' \in {"ready", "failed"}
      /\ UNCHANGED <<allocation, authority, worker>>
  BY DEF MainJoins, provider, MainEnds, MainGoes
<1>2. TypeOK' /\ main'.pc = "idle"
  BY <1>0, <1>1, NoClaimsTyped DEF TypeOK, MainPC
<1>3. FolderInv' /\ ClaimInv'
  BY <1>0, <1>1, <1>2 DEF FolderInv, ClaimInv, MainAt
<1>4. ThreadInv'
  BY <1>0, <1>1, <1>2 DEF ThreadInv, MainAt, Preparing, WorkerAt
<1>5. ReadyIsEarned'
  <2>1. CASE Failures = {}
    <3>1. \A n \in Nodes : ~WorkerAt(n, "failed") /\ ~WorkerAt(n, "dropped")
      BY <2>1 DEF Failures, WorkerAt
    <3>2. \A n \in Nodes : ~WorkerAt(n, "cancelled")
      BY <1>0, <1>1, <3>1 DEF ThreadInv, Preparing, MainAt
    <3>3. \A n \in Nodes : WorkerAt(n, "ready") /\ worker[n].done = Ready
      BY <1>0, <1>1, <3>1, <3>2 DEF ThreadInv, WorkerAt, Finished, Raised
    <3> QED BY <1>1, <3>3 DEF ReadyIsEarned, WorkerAt
  <2>2. CASE Failures # {}
    BY <2>2 DEF MainJoins, ReadyIsEarned
  <2> QED BY <2>1, <2>2
<1> QED BY <1>2, <1>3, <1>4, <1>5 DEF PreparationInv

LEMMA SomebodyElseInv ==
    ASSUME NEW n \in Nodes, PreparationInv, SomebodyElse(n)
    PROVE  PreparationInv'
<1>0. TypeOK /\ FolderInv /\ ClaimInv /\ ThreadInv /\ ReadyIsEarned
  BY DEF PreparationInv
<1>1. MainAt("idle") /\ UNCHANGED <<authority, main, todo, claim, worker, stop, evidence>>
  BY DEF SomebodyElse, threads
<1>2. /\ allocation' \in Retained
      /\ \A m \in Nodes : \/ allocation'[m] = allocation[m]
                          \/ allocation'[m] = None
                          \/ allocation'[m].folder = Foreign /\ allocation'[m].event = NoEvent
  <2>1. CASE allocation' = [allocation EXCEPT ![n] = None]
    BY <1>0, <2>1 DEF TypeOK, Retained
  <2>2. CASE \E id \in Ids : allocation' = [allocation EXCEPT ![n] =
                       [id |-> id, folder |-> Foreign, event |-> NoEvent]]
    <3>1. PICK id \in Ids : allocation' = [allocation EXCEPT ![n] =
                       [id |-> id, folder |-> Foreign, event |-> NoEvent]]
      BY <2>2
    <3>2. [id |-> id, folder |-> Foreign, event |-> NoEvent] \in Allocations
      BY DEF Allocations
    <3> QED BY <1>0, <3>1, <3>2 DEF TypeOK, Retained
  <2> QED BY <2>1, <2>2 DEF SomebodyElse
<1>3. TypeOK'
  BY <1>0, <1>1, <1>2 DEF TypeOK
<1>4. FolderInv'
  BY <1>0, <1>1, <1>2 DEF FolderInv
<1>5. ClaimInv' /\ ThreadInv' /\ ReadyIsEarned'
  BY <1>0, <1>1 DEF ClaimInv, ThreadInv, ReadyIsEarned, MainAt, Preparing, WorkerAt
<1> QED BY <1>3, <1>4, <1>5 DEF PreparationInv

LEMMA DiesInv ==
    ASSUME PreparationInv, Dies
    PROVE  PreparationInv'
<1>0. TypeOK /\ FolderInv /\ ClaimInv /\ ThreadInv /\ ReadyIsEarned
  BY DEF PreparationInv
<1>1. /\ ~MainAt("idle") /\ main' = [pc |-> "idle", node |-> NoNode] /\ worker' = NoWorkers
      /\ todo' = {} /\ claim' = NoClaims /\ stop' = FALSE
      /\ UNCHANGED <<allocation, authority, evidence>>
  BY DEF Dies, provider, MainEnds, MainGoes
<1>2. TypeOK' /\ main'.pc = "idle"
  BY <1>0, <1>1, NoWorkersTyped, NoClaimsTyped DEF TypeOK, MainPC
<1>3. evidence' = "preparing"
  BY <1>0, <1>1 DEF ThreadInv
<1>4. FolderInv' /\ ClaimInv'
  BY <1>0, <1>1, <1>2 DEF FolderInv, ClaimInv, MainAt
<1>5. ThreadInv' /\ ReadyIsEarned'
  BY <1>1, <1>2, <1>3 DEF ThreadInv, ReadyIsEarned, MainAt, Preparing, WorkerAt, NoWorkers
<1> QED BY <1>2, <1>4, <1>5 DEF PreparationInv

LEMMA StepInv ==
    ASSUME PreparationInv, [Next]_vars
    PROVE  PreparationInv'
<1>1. CASE UNCHANGED vars
  BY <1>1 DEF vars, provider, threads, PreparationInv, TypeOK, FolderInv, ClaimInv, ThreadInv,
     ReadyIsEarned, MainAt, WorkerAt, Preparing
<1>2. CASE \E e \in Events : Begin(e)
  BY <1>2, BeginInv
<1>3. CASE Main
  <2>1. ASSUME NEW n \in Nodes, ProbeAllocates(n) PROVE PreparationInv'
    BY <2>1, GrantedInv DEF ProbeAllocates, MainAt
  <2>2. CASE ReclaimAllocates
    <3>1. main.node \in Nodes /\ main.node \in todo /\ main.pc = "reclaiming"
      BY <2>2 DEF ReclaimAllocates, PreparationInv, ClaimInv, MainAt
    <3> QED BY <2>2, <3>1, GrantedInv DEF ReclaimAllocates
  <2> QED BY <1>3, <2>1, <2>2, ProbeFindsActiveInv, ClaimManagedInv, ReclaimFreesInv,
             ProbeEndsInv, RecordInv, AuthorityFailsInv, DispatchInv, MainWakesInv,
             MainJoinsInv DEF Main
<1>4. CASE \E n \in Nodes : Worker(n) \/ SomebodyElse(n)
  BY <1>4, WorkerInv, SomebodyElseInv
<1>5. CASE Dies
  BY <1>5, DiesInv
<1> QED BY <1>1, <1>2, <1>3, <1>4, <1>5 DEF Next

\* The invariant holds at every step of every run, whoever dies or intervenes.
THEOREM PreparationInvariant == Spec => []PreparationInv
BY InitInv, StepInv, PTL DEF Spec

\* No node is imaged or reset before every node is allocated to SynthRAN under
\* the calendar event it now holds (prepare_hosts, between its two phases).
THEOREM MutationIsAuthorised == Spec => []AuthorityBeforeMutation
<1>1. PreparationInv => AuthorityBeforeMutation
  BY DEF PreparationInv, ClaimInv, AuthorityBeforeMutation, Preparing, MainAt
<1> QED BY <1>1, PreparationInvariant, PTL

\* Ready evidence stands for four completed phases of every node.
THEOREM ReadyEvidence == Spec => []ReadyIsEarned
<1>1. PreparationInv => ReadyIsEarned
  BY DEF PreparationInv
<1> QED BY <1>1, PreparationInvariant, PTL

\* No thread outlives the verdict of prepare_hosts.
THEOREM VerdictIsFinal == Spec => []NoMutationAfterVerdict
<1>1. PreparationInv => NoMutationAfterVerdict
  BY DEF PreparationInv, ThreadInv, NoMutationAfterVerdict, Preparing, MainAt
<1> QED BY <1>1, PreparationInvariant, PTL

\* Every variable of the preparation keeps its type.
THEOREM TypeCorrect == Spec => []TypeOK
  BY PreparationInvariant, PTL DEF PreparationInv

\* No node is touched without authority over all, or after the verdict.
THEOREM LawfulMutation == Spec => []MutationIsLawful
  BY MutationIsAuthorised, VerdictIsFinal, PTL DEF MutationIsLawful

----------------------------------------------------------------------------
(* Competing load, for any durations, clocks, attempts and faults.         *)

USE DEF AtStep, GoesTo, Fault

\* What the properties and the directories speak of.
kept == <<attempt, kind, dir, retained, record>>

\* A step that leaves all of it alone can only disturb the types, the clocks
\* and what the controller relies on.
LEMMA KeptStep ==
    ASSUME LoadInv, UNCHANGED kept
    PROVE  DirInv' /\ AcceptedIsCovered' /\ AcceptedIsWhole'
BY DEF LoadInv, kept, DirInv, AcceptedIsCovered, AcceptedIsWhole, TreatmentValid, Replays

\* A process that is abandoned, and one that is spawned, are processes.
LEMMA ProcessTypes ==
    ASSUME LoadTypeOK
    PROVE  /\ NoProcess \in Processes
           /\ Starting \in Processes
           /\ \A p \in Processes : Abandoned(p) \subseteq Processes /\ Remaining(p) \in Processes
<1>1. NoProcess \in Processes
  BY DEF NoProcess, Processes
<1>2. Starting \in Processes
  <2>1. now + Slow \in Nat
    BY TimingAssumption DEF LoadTypeOK
  <2> QED
    BY <2>1 DEF Starting, NoProcess, Processes
<1>3. ASSUME NEW p \in Processes PROVE Abandoned(p) \subseteq Processes /\ Remaining(p) \in Processes
  BY <1>1 DEF Abandoned, Remaining
<1> QED
  BY <1>1, <1>2, <1>3

LEMMA InitLoad == LoadInit => LoadInv
<1> SUFFICES ASSUME LoadInit PROVE LoadInv
  OBVIOUS
<1> USE TimingAssumption DEF LoadInit
<1>1. LoadTypeOK
  BY DEF LoadTypeOK, Steps, NoProcess, Processes, Attempts
<1>2. ClockInv /\ WorkInv /\ AcceptedIsCovered
  BY DEF ClockInv, WorkInv, AcceptedIsCovered
<1>3. DirInv
  BY FS_EmptySet DEF DirInv
<1>4. AcceptedIsWhole
  <2>1. Replays(attempt) = {}
    BY DEF Replays
  <2> QED
    BY <2>1, FS_EmptySet DEF AcceptedIsWhole
<1> QED
  BY <1>1, <1>2, <1>3, <1>4 DEF LoadInv

----------------------------------------------------------------------------
(* Beginning an attempt.                                                    *)

LEMMA ReplaysFinite == ASSUME NEW n \in Nat PROVE IsFiniteSet(Replays(n)) /\ Replays(n) \subseteq 1 .. n
<1>1. IsFiniteSet(1 .. n)
  BY FS_Interval
<1>2. Replays(n) \subseteq 1 .. n
  BY DEF Replays
<1> QED
  BY <1>1, <1>2, FS_Subset

LEMMA BeginStep == ASSUME LoadInv, NEW what \in {"replay", "probe"}, BeginAttempt(what) PROVE LoadInv'
<1> USE TimingAssumption DEF BeginAttempt
<1>1. attempt \in Nat /\ attempt' = attempt + 1 /\ attempt' \in Attempts /\ attempt' \in 1 .. MaxAttempts
  BY DEF LoadInv, LoadTypeOK, Attempts
<1>2. kind' \in [Attempts -> {"none", "replay", "probe"}] /\ kind'[attempt'] = what
  BY <1>1 DEF LoadInv, LoadTypeOK
<1>3. \A a \in 1 .. attempt : kind'[a] = kind[a]
  BY <1>1 DEF LoadInv, LoadTypeOK, Attempts
<1>4. IsFiniteSet(dir) /\ IsFiniteSet(retained)
  <2>1. CASE dir = {}
    BY <2>1, FS_EmptySet DEF LoadInv, DirInv
  <2>2. CASE dir # {}
    <3>1. PICK d \in dir : dir = {d}
      BY <2>2 DEF LoadInv, DirInv
    <3> QED
      BY <3>1, FS_Singleton DEF LoadInv, DirInv
  <2> QED
    BY <2>1, <2>2
<1>5. CASE what = "replay"
  <2>1. /\ retained' = retained \cup dir
        /\ dir' = {Dir(attempt', 0)}
        /\ record = {} /\ record' = {}
        /\ pc' = "clock"
    BY <1>5 DEF ArchiveAttempt, Dir
  <2>2. LoadTypeOK'
    <3>1. dir' \subseteq Directories' /\ retained' \subseteq Directories'
      BY <1>1, <2>1 DEF LoadInv, LoadTypeOK, Directories, Dir, Attempts
    <3> QED
      BY <1>1, <1>2, <2>1, <3>1, ProcessTypes DEF LoadInv, LoadTypeOK, Steps
  <2>3. ClockInv' /\ WorkInv'
    BY <1>1, <1>2, <1>5, <2>1 DEF LoadInv, ClockInv, WorkInv
  <2>4. Replays(attempt)' = Replays(attempt) \cup {attempt'}
    <3> DEFINE S == {a \in 1 .. attempt + 1 : kind'[a] = "replay"}
    <3>1. Replays(attempt)' = S
      BY <1>1 DEF Replays
    <3>2. S = {a \in 1 .. attempt : kind[a] = "replay"} \cup {attempt + 1}
      BY <1>1, <1>2, <1>3, <1>5
    <3> QED
      BY <1>1, <3>1, <3>2 DEF Replays
  <2>5. \A e \in retained' : e.attempt \in Replays(attempt) /\ e.attempt # attempt'
    <3>1. \A e \in retained' : e.attempt \in Replays(attempt)
      BY <2>1 DEF LoadInv, AcceptedIsWhole
    <3> QED
      BY <1>1, <3>1, ReplaysFinite
  <2>6. DirInv'
    <3>1. IsFiniteSet(retained')
      BY <1>4, <2>1, FS_Union
    <3> QED
      BY <2>1, <2>5, <3>1 DEF DirInv, Dir
  <2>7. AcceptedIsCovered'
    BY <2>1 DEF AcceptedIsCovered
  <2>8. AcceptedIsWhole'
    <3>1. {d.attempt : d \in dir' \cup retained'} = Replays(attempt)'
      <4>1. {d.attempt : d \in retained'} = Replays(attempt)
        BY <2>1 DEF LoadInv, AcceptedIsWhole
      <4>2. {d.attempt : d \in dir'} = {attempt'}
        BY <2>1 DEF Dir
      <4> QED
        BY <4>1, <4>2, <2>4
    <3>2. Cardinality(dir') + Cardinality(retained') = Cardinality(Replays(attempt)')
      <4>1. dir \cap retained = {}
        BY DEF LoadInv, DirInv
      <4>2. Cardinality(retained') = Cardinality(Replays(attempt))
        <5>1. Cardinality(retained') = Cardinality(retained) + Cardinality(dir) - Cardinality({})
          BY <1>4, <2>1, <4>1, FS_Union
        <5>2. Cardinality({}) = 0
          BY FS_EmptySet
        <5>3. Cardinality(retained) \in Nat /\ Cardinality(dir) \in Nat
          BY <1>4, FS_CardinalityType
        <5>4. Cardinality(dir) + Cardinality(retained) = Cardinality(Replays(attempt))
          BY DEF LoadInv, AcceptedIsWhole
        <5> QED
          BY <5>1, <5>2, <5>3, <5>4
      <4>3. Cardinality(dir') = 1
        BY <2>1, FS_Singleton
      <4>4. Cardinality(Replays(attempt)') = Cardinality(Replays(attempt)) + 1
        <5>1. attempt' \notin Replays(attempt)
          BY <1>1, ReplaysFinite
        <5> QED
          BY <1>1, <2>4, <5>1, ReplaysFinite, FS_AddElement
      <4>5. Cardinality(Replays(attempt)) \in Nat
        BY <1>1, ReplaysFinite, FS_CardinalityType
      <4> QED
        BY <4>2, <4>3, <4>4, <4>5
    <3>3. \A d \in dir' \cup retained' : d.summary \in {0, d.attempt}
      BY <2>1 DEF LoadInv, AcceptedIsWhole, Dir
    <3> QED
      BY <2>1, <3>1, <3>2, <3>3 DEF AcceptedIsWhole
  <2> QED
    BY <2>2, <2>3, <2>6, <2>7, <2>8 DEF LoadInv
<1>6. CASE what = "probe"
  <2>1. UNCHANGED <<dir, retained, record, clock>> /\ pc' = "start"
    BY <1>6
  <2>2. LoadTypeOK'
    BY <1>1, <1>2, <2>1, ProcessTypes DEF LoadInv, LoadTypeOK, Steps, Directories
  <2>3. ClockInv' /\ WorkInv'
    BY <1>1, <1>2, <1>6, <2>1 DEF LoadInv, ClockInv, WorkInv
  <2>4. DirInv' /\ AcceptedIsCovered'
    BY <2>1 DEF LoadInv, DirInv, AcceptedIsCovered
  <2>5. Replays(attempt)' = Replays(attempt)
    <3>1. {a \in 1 .. attempt + 1 : kind'[a] = "replay"} = {a \in 1 .. attempt : kind[a] = "replay"}
      BY <1>1, <1>2, <1>3, <1>6
    <3> QED
      BY <1>1, <3>1 DEF Replays
  <2>6. AcceptedIsWhole'
    BY <2>1, <2>5 DEF LoadInv, AcceptedIsWhole, TreatmentValid
  <2> QED
    BY <2>2, <2>3, <2>4, <2>6 DEF LoadInv
<1> QED
  BY <1>5, <1>6

----------------------------------------------------------------------------
(* Clocks, and how an attempt fails.                                        *)

LEMMA MeasureClocksStep == ASSUME LoadInv, MeasureClocks PROVE LoadInv'
<1> USE DEF MeasureClocks, timing, files
<1>1. PICK i \in Brackets : clock' = {i}
  OBVIOUS
<1>2. i \in Int \X Int /\ i[1] <= offset /\ offset <= i[2]
  BY TimingAssumption DEF Brackets, LoadInv, LoadTypeOK
<1>3. LoadTypeOK'
  BY <1>1, <1>2 DEF LoadInv, LoadTypeOK, Steps, Directories
<1>4. ClockInv' /\ WorkInv'
  BY <1>1, <1>2 DEF LoadInv, ClockInv, WorkInv
<1> QED
  BY <1>3, <1>4, KeptStep DEF LoadInv, kept

LEMMA FailStep == ASSUME LoadInv, Fail, pc # "idle" PROVE LoadInv'
<1> USE DEF Fail, StopBackground, Forget
<1>1. LoadTypeOK'
  <2>1. attempt \in Attempts
    BY DEF LoadInv, WorkInv
  <2>2. sender' \in [Attempts -> Processes]
    BY <2>1, ProcessTypes DEF LoadInv, LoadTypeOK, Tx
  <2> QED
    BY <2>2 DEF LoadInv, LoadTypeOK, Steps, Directories
<1>2. ClockInv' /\ WorkInv'
  BY DEF ClockInv, WorkInv
<1> QED
  BY <1>1, <1>2, KeptStep DEF LoadInv, kept

----------------------------------------------------------------------------
(* The controller.                                                          *)

LEMMA SpawnReceiverStep == ASSUME LoadInv, SpawnReceiver PROVE LoadInv'
<1> USE TimingAssumption DEF SpawnReceiver, Waits, files
<1>1. LoadTypeOK'
  BY DEF LoadInv, LoadTypeOK, Steps, Directories
<1>2. ClockInv' /\ WorkInv'
  BY DEF LoadInv, ClockInv, WorkInv
<1> QED
  BY <1>1, <1>2, KeptStep DEF LoadInv, kept

LEMMA SpawnSenderStep == ASSUME LoadInv, SpawnSender PROVE LoadInv'
<1> USE TimingAssumption DEF SpawnSender, ReceiverReady, Waits, files
<1>1. LoadTypeOK'
  <2>1. sender' \in [Attempts -> Processes]
    BY ProcessTypes DEF LoadInv, LoadTypeOK
  <2> QED
    BY <2>1 DEF LoadInv, LoadTypeOK, Steps, Directories
<1>2. ClockInv' /\ WorkInv'
  BY DEF LoadInv, ClockInv, WorkInv
<1> QED
  BY <1>1, <1>2, KeptStep DEF LoadInv, kept

LEMMA SenderStartedStep == ASSUME LoadInv, SenderStarted PROVE LoadInv'
<1> USE TimingAssumption DEF SenderStarted, SenderReady, Waits, files
<1>1. LoadTypeOK'
  BY DEF LoadInv, LoadTypeOK, Steps, Directories
<1>2. ClockInv' /\ WorkInv'
  BY DEF LoadInv, ClockInv, WorkInv
<1> QED
  BY <1>1, <1>2, KeptStep DEF LoadInv, kept

LEMMA PublisherStartsStep == ASSUME LoadInv, PublisherStarts PROVE LoadInv'
<1> USE TimingAssumption DEF PublisherStarts, files
<1>1. LoadTypeOK'
  BY DEF LoadInv, LoadTypeOK, Steps, Directories
<1>2. ClockInv' /\ WorkInv'
  BY DEF LoadInv, ClockInv, WorkInv
<1> QED
  BY <1>1, <1>2, KeptStep DEF LoadInv, kept

\* The summary is the one of this attempt, also when it was there already.
LEMMA VictimEndsStep == ASSUME LoadInv, VictimEnds PROVE LoadInv'
<1> USE TimingAssumption DEF VictimEnds, Waits
<1>1. /\ attempt \in Attempts /\ attempt \in Nat \ {0} /\ kind[attempt] = "replay" /\ record = {}
      /\ clock # {} /\ dir \in {{Dir(attempt, 0)}, {Dir(attempt, attempt)}}
  BY DEF LoadInv, WorkInv, Attempts
<1>2. dir' = {Dir(attempt, attempt)}
  <2>1. CASE dir = {Dir(attempt, 0)}
    <3>1. ~Summarised
      BY <2>1 DEF Summarised, Dir
    <3> QED
      BY <2>1, <3>1 DEF Dir
  <2>2. CASE dir = {Dir(attempt, attempt)}
    <3>1. Summarised
      BY <1>1, <2>2 DEF Summarised, Dir
    <3> QED
      BY <2>2, <3>1 DEF Dir
  <2> QED
    BY <1>1, <2>1, <2>2
<1>3. PICK s : dir = {Dir(attempt, s)}
  BY <1>1
<1>4. LoadTypeOK'
  <2>1. dir' \subseteq Directories'
    BY <1>1, <1>2 DEF Directories, Dir
  <2> QED
    BY <2>1 DEF LoadInv, LoadTypeOK, Steps, Directories
<1>5. ClockInv' /\ WorkInv'
  BY <1>1, <1>2 DEF LoadInv, ClockInv, WorkInv
<1>6. DirInv' /\ AcceptedIsCovered'
  BY <1>1, <1>2, <1>3 DEF LoadInv, DirInv, AcceptedIsCovered, Dir
<1>7. AcceptedIsWhole'
  <2>1. Replays(attempt)' = Replays(attempt)
    BY DEF Replays
  <2>2. {d.attempt : d \in dir' \cup retained'} = {d.attempt : d \in dir \cup retained}
    <3>1. \A t : {d.attempt : d \in {Dir(attempt, t)}} = {attempt}
      BY DEF Dir
    <3>2. retained' = retained
      OBVIOUS
    <3>3. \A t : {d.attempt : d \in {Dir(attempt, t)} \cup retained}
                   = {attempt} \cup {d.attempt : d \in retained}
      BY <3>1
    <3> QED
      BY <1>2, <1>3, <3>2, <3>3
  <2>3. Cardinality(dir') = Cardinality(dir)
    BY <1>2, <1>3, FS_Singleton
  <2>4. \A d \in dir' \cup retained' : d.summary \in {0, d.attempt}
    BY <1>2 DEF LoadInv, AcceptedIsWhole, Dir
  <2> QED
    BY <1>1, <2>1, <2>2, <2>3, <2>4 DEF LoadInv, AcceptedIsWhole
<1> QED
  BY <1>4, <1>5, <1>6, <1>7 DEF LoadInv

LEMMA SenderReturnedStep == ASSUME LoadInv, SenderReturned PROVE LoadInv'
<1> USE TimingAssumption DEF SenderReturned, SenderOver, Waits, files
<1>1. LoadTypeOK'
  BY DEF LoadInv, LoadTypeOK, Steps, Directories
<1>2. ClockInv' /\ WorkInv'
  BY DEF LoadInv, ClockInv, WorkInv
<1> QED
  BY <1>1, <1>2, KeptStep DEF LoadInv, kept

LEMMA ReceiverReturnedStep == ASSUME LoadInv, ReceiverReturned PROVE LoadInv'
<1> USE DEF ReceiverReturned, ReceiverOver, timing, files
<1>1. LoadTypeOK'
  BY DEF LoadInv, LoadTypeOK, Steps, Directories
<1>2. ClockInv' /\ WorkInv'
  BY DEF LoadInv, ClockInv, WorkInv
<1> QED
  BY <1>1, <1>2, KeptStep DEF LoadInv, kept

\* The bounds of the offset turn what two clocks say into what is true.
LEMMA AcceptStep == ASSUME LoadInv, Accept PROVE LoadInv'
<1> USE TimingAssumption DEF Accept, Forget
<1>1. attempt \in Attempts /\ attempt \in Nat \ {0}
  BY DEF LoadInv, WorkInv, Attempts
<1>2. LoadTypeOK'
  BY DEF LoadInv, LoadTypeOK, Steps, Directories
<1>3. ClockInv' /\ WorkInv'
  BY DEF ClockInv, WorkInv
<1>4. DirInv'
  BY DEF LoadInv, DirInv
<1>5. CASE kind[attempt] = "replay"
  <2>1. dir = {Dir(attempt, attempt)} /\ clock # {} /\ Valid /\ Coverage /\ Tx.fit
    BY <1>5 DEF LoadInv, WorkInv, Valid, Quality
  <2>2. \A r \in record' : /\ r.attempt = attempt /\ r.summary = attempt
                           /\ r.from = Tx.from /\ r.upto = Tx.upto /\ r.start \in session
                           /\ r.fit = Tx.fit /\ r.covered = Coverage
    <3> SUFFICES ASSUME NEW r \in record'
                 PROVE  /\ r.attempt = attempt /\ r.summary = attempt
                        /\ r.from = Tx.from /\ r.upto = Tx.upto /\ r.start \in session
                        /\ r.fit = Tx.fit /\ r.covered = Coverage
      OBVIOUS
    <3>1. PICK s \in Summaries, t \in session :
            r = [attempt |-> attempt, summary |-> s, received |-> Received, sent |-> Sent,
                 from |-> Tx.from, upto |-> Tx.upto, start |-> t,
                 fit |-> Tx.fit, covered |-> Coverage]
      BY <1>5
    <3>2. s = attempt
      BY <2>1 DEF Summaries, Dir
    <3> QED
      BY <3>1, <3>2
  <2>3. \A start \in session : Tx.from <= start /\ start + Observed <= Tx.upto
    <3>1. PICK i \in clock : TRUE
      BY <2>1
    <3>2. i[1] \in Int /\ i[2] \in Int /\ i[1] <= offset /\ offset <= i[2]
      BY DEF LoadInv, LoadTypeOK, ClockInv
    <3>3. Tx.from \in Nat /\ Tx.upto \in Nat /\ offset \in Int /\ session \subseteq Nat
      BY <1>1 DEF LoadInv, LoadTypeOK, Tx, Processes
    <3> QED
      BY <2>1, <3>2, <3>3 DEF Coverage
  <2>4. AcceptedIsCovered'
    BY <2>2, <2>3 DEF AcceptedIsCovered
  <2>5. AcceptedIsWhole'
    <3>1. \A r \in record' : TreatmentValid(r)
      BY <2>1, <2>2 DEF TreatmentValid
    <3>2. Replays(attempt)' = Replays(attempt)
      BY DEF Replays
    <3> QED
      BY <2>1, <2>2, <3>1, <3>2 DEF LoadInv, AcceptedIsWhole, Dir, TreatmentValid
  <2> QED
    BY <1>2, <1>3, <1>4, <2>4, <2>5 DEF LoadInv
<1>6. CASE kind[attempt] # "replay"
  BY <1>2, <1>3, <1>6, KeptStep DEF LoadInv, kept
<1> QED
  BY <1>5, <1>6

----------------------------------------------------------------------------
(* The remote processes, and what nobody can rule out.                      *)

\* A step that the controller takes no part in.
LEMMA RemoteStep ==
    ASSUME LoadInv, UNCHANGED <<kept, pc, attempt, clock, session, offset>>,
           now' \in Nat, deadline' \in Nat, path' \in BOOLEAN, sender' \in [Attempts -> Processes]
    PROVE  LoadInv'
<1>1. LoadTypeOK'
  BY DEF LoadInv, LoadTypeOK, kept, Directories
<1>2. ClockInv' /\ WorkInv'
  BY DEF LoadInv, ClockInv, WorkInv, kept
<1> QED
  BY <1>1, <1>2, KeptStep DEF LoadInv, kept

LEMMA ReceiverStartsStep ==
    ASSUME LoadInv, NEW a \in Attempts, ReceiverStarts(a) PROVE LoadInv'
BY RemoteStep DEF ReceiverStarts, timing, files, kept, LoadInv, LoadTypeOK

LEMMA SenderStartsStep == ASSUME LoadInv, NEW a \in Attempts, SenderStarts(a) PROVE LoadInv'
<1>1. [state |-> "active", from |-> now, upto |-> now, count |-> {0}, until |-> 0, fit |-> TRUE]
        \in Processes
  BY DEF LoadInv, LoadTypeOK, Processes
<1>2. sender' \in [Attempts -> Processes]
  BY <1>1 DEF SenderStarts, LoadInv, LoadTypeOK
<1> QED
  BY <1>2, RemoteStep DEF SenderStarts, timing, files, kept, LoadInv, LoadTypeOK

LEMMA TickStep == ASSUME LoadInv, Tick PROVE LoadInv'
<1>1. SendersAt \in [Attempts -> Processes]
  <2> SUFFICES ASSUME NEW a \in Attempts
               PROVE  SendersAt[a] \in Processes
    BY DEF SendersAt
  <2>1. sender[a] \in Processes /\ now \in Nat
    BY DEF LoadInv, LoadTypeOK
  <2>2. CASE a \in Sending
    <3>1. SendersAt[a] = [sender[a] EXCEPT !.upto = now + 1,
                                           !.count = @ \cup {now + 1 - sender[a].from}]
      BY <2>2 DEF SendersAt
    <3>2. now + 1 \in Nat /\ sender[a].count \cup {now + 1 - sender[a].from} \in SUBSET Int
      BY <2>1 DEF Processes
    <3> QED
      BY <2>1, <3>1, <3>2 DEF Processes
  <2>3. CASE a \notin Sending
    BY <2>1, <2>3 DEF SendersAt, Processes
  <2> QED
    BY <2>2, <2>3
<1>2. now' \in Nat
  <2>1. now' = now + 1 /\ now \in Nat
    BY DEF Tick, LoadInv, LoadTypeOK
  <2> QED
    BY <2>1
<1> QED
  BY <1>1, <1>2, RemoteStep DEF Tick, files, kept, LoadInv, LoadTypeOK

LEMMA LoseClientStep ==
    ASSUME LoadInv, NEW which \in {"receiver", "sender"}, LoseClient(which) PROVE LoadInv'
BY RemoteStep DEF LoseClient, timing, files, kept, LoadInv, LoadTypeOK

LEMMA FallBehindStep == ASSUME LoadInv, NEW a \in Attempts, FallBehind(a) PROVE LoadInv'
<1>1. sender' \in [Attempts -> Processes]
  BY DEF FallBehind, LoadInv, LoadTypeOK, Processes
<1> QED
  BY <1>1, RemoteStep DEF FallBehind, timing, files, kept, LoadInv, LoadTypeOK

LEMMA OutageStep == ASSUME LoadInv, Outage \/ OutageEnds PROVE LoadInv'
BY RemoteStep DEF Outage, OutageEnds, files, kept, LoadInv, LoadTypeOK

----------------------------------------------------------------------------

\* LoadInv is an invariant: what the controller works in is of its attempt.
THEOREM LoadInvariant == LoadSpec => []LoadInv
<1>1. ASSUME LoadInv, LoadNext PROVE LoadInv'
  <2>1. CASE \E what \in {"replay", "probe"} : BeginAttempt(what)
    BY <1>1, <2>1, BeginStep
  <2>2. CASE Controller
    <3>1. CASE AwaitFails \/ FinishFails \/ Refuse
      BY <1>1, <3>1, FailStep DEF AwaitFails, ProcessGone, FinishFails, Refuse
    <3> QED
      BY <1>1, <2>2, <3>1, MeasureClocksStep, SpawnReceiverStep, SpawnSenderStep,
         SenderStartedStep, PublisherStartsStep, VictimEndsStep, SenderReturnedStep,
         ReceiverReturnedStep, AcceptStep DEF Controller
  <2>3. CASE Remote
    BY <1>1, <2>3, ReceiverStartsStep, SenderStartsStep DEF Remote
  <2>4. CASE Tick
    BY <1>1, <2>4, TickStep
  <2>5. CASE \E which \in {"receiver", "sender"} : LoseClient(which)
    BY <1>1, <2>5, LoseClientStep
  <2>6. CASE \E a \in Attempts : FallBehind(a)
    BY <1>1, <2>6, FallBehindStep
  <2>7. CASE Outage \/ OutageEnds
    BY <1>1, <2>7, OutageStep
  <2>8. CASE Interrupt
    BY <1>1, <2>8, FailStep DEF Interrupt
  <2>9. CASE Rest
    BY <1>1, <2>9, RemoteStep DEF Rest, loadVars, timing, files, kept, LoadInv, LoadTypeOK
  <2> QED
    BY <1>1, <2>1, <2>2, <2>3, <2>4, <2>5, <2>6, <2>7, <2>8, <2>9 DEF LoadNext
<1>2. ASSUME LoadInv, UNCHANGED loadVars PROVE LoadInv'
  BY <1>2, RemoteStep DEF loadVars, timing, files, kept, LoadInv, LoadTypeOK
<1> QED
  BY InitLoad, <1>1, <1>2, PTL DEF LoadSpec

\* A replay that is recorded was under load, in true time, from before its
\* publisher started until after its drain.
THEOREM RecordedIsCovered == LoadSpec => []AcceptedIsCovered
<1>1. LoadInv => AcceptedIsCovered
  BY DEF LoadInv
<1> QED
  BY LoadInvariant, <1>1, PTL

\* Summary, load and clocks of a record are of one attempt, which the analysis
\* does not exclude for its load, and every other attempt is retained, once.
THEOREM RecordedIsWhole == LoadSpec => []AcceptedIsWhole
<1>1. LoadInv => AcceptedIsWhole
  BY DEF LoadInv
<1> QED
  BY LoadInvariant, <1>1, PTL
=============================================================================
