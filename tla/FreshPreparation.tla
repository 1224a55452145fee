--------------------------- MODULE FreshPreparation ---------------------------
(***************************************************************************)
(* prepare_hosts of synthran/reservation.py in its "fresh" mode.  One       *)
(* controller at a time (deploy.lock) proves, node after node, that POS     *)
(* allocated every selected node to SynthRAN under the calendar event it    *)
(* holds; only then a thread per node stages the image, sets the boot       *)
(* parameters, resets the node and waits for SSH.  The controller may be    *)
(* killed at any step and run again, with the same or with another event.   *)
(***************************************************************************)
EXTENDS Naturals

CONSTANTS
    Nodes,     \* the selected nodes
    Shared,    \* the nodes somebody else may use between two runs
    Events,    \* calendar events a run may hold
    NoNode,    \* "no node in hand"
    None,      \* "no allocation"
    NoEvent,   \* "made by somebody else"
    Ids,       \* POS allocation ids: two per node stand for any number of them
    Folders,   \* result folders, drawn at random when no authority is retained
    Foreign    \* the result folder of somebody else's allocation

ASSUME SharedAssumption == Shared \subseteq Nodes
ASSUME EventsAssumption == NoEvent \notin Events
ASSUME FoldersAssumption == Foreign \notin Folders

Allocations == [id : Ids, folder : Folders \cup {Foreign}, event : Events \cup {NoEvent}]

ASSUME NoneAssumption == None \notin Allocations

\* Image staging, boot parameters, reset, SSH readiness.
Ready == 4

Workers == [pc : {"absent", "queued", "checking", "running", "failing", "failed",
                  "cancelled", "dropped", "ready"},
            done : 0..Ready]

VARIABLES
    allocation,  \* what POS has allocated each node to; event is a ghost
    authority,   \* .synthran/pos-reservation.json: event, folder and allocations
    main,        \* the controller: where it is and the node it has in hand
    todo,        \* nodes its present loop has still to visit
    claim,       \* allocation_states
    worker,      \* the thread of each node and the phases it has completed
    stop,        \* stop_event
    evidence     \* status in reservation-authority.json of the present run

provider == <<allocation, authority>>
threads  == <<worker, stop>>
vars     == <<provider, main, todo, claim, threads, evidence>>

NothingRetained == [n \in Nodes |-> None]
NoClaims  == [n \in Nodes |-> "unproven"]
NoWorkers == [n \in Nodes |-> [pc |-> "absent", done |-> 0]]

MainAt(pc) == main.pc = pc
MainGoes(pc) == main' = [pc |-> pc, node |-> NoNode]

\* prepare_hosts is left, and its locals with it.
MainEnds == MainGoes("idle") /\ todo' = {} /\ claim' = NoClaims /\ stop' = FALSE

Init ==
    /\ allocation = NothingRetained
    /\ authority = [event |-> NoEvent, folder |-> Foreign, retained |-> NothingRetained]
    /\ main = [pc |-> "idle", node |-> NoNode] /\ todo = {}
    /\ claim = NoClaims
    /\ worker = NoWorkers /\ stop = FALSE
    /\ evidence = "none"

----------------------------------------------------------------------------
(* Calendar authority.                                                      *)

\* A random folder is neither the retained one nor that of a live allocation.
Unused == {f \in Folders \ {authority.folder} :
              \A n \in Nodes : allocation[n] # None => allocation[n].folder # f}

NewAuthority(e) ==
    \E f \in Unused :
        authority' = [event |-> e, folder |-> f, retained |-> NothingRetained]

\* _save_state: the same event keeps its folder and its allocations, another
\* one starts with a folder nobody else has.
SaveState(e) ==
    IF authority.event = e THEN UNCHANGED authority ELSE NewAuthority(e)

\* execute, up to the first probe, for a run that holds event e.
Begin(e) ==
    /\ MainAt("idle")
    /\ SaveState(e)
    /\ MainGoes("probing") /\ todo' = Nodes
    /\ claim' = NoClaims
    /\ worker' = NoWorkers /\ stop' = FALSE
    /\ evidence' = "preparing"
    /\ UNCHANGED allocation

----------------------------------------------------------------------------
(* Authority over every node, one after the other.                          *)

\* POS allocates node n under an id that is not retained.
Allocate(n) ==
    \E id \in Ids :
        /\ authority.retained[n] # None => authority.retained[n].id # id
        /\ allocation[n] = None
        /\ allocation' = [allocation EXCEPT ![n] =
               [id |-> id, folder |-> authority.folder, event |-> authority.event]]

\* The node is the controller's: what is left is to record its allocation.
Granted(n, how) ==
    /\ claim' = [claim EXCEPT ![n] = how]
    /\ todo' = todo \ {n}
    /\ main' = [pc |-> "recording", node |-> n]
    /\ UNCHANGED <<authority, threads, evidence>>

ProbeAllocates(n) ==
    /\ MainAt("probing") /\ n \in todo
    /\ Allocate(n) /\ Granted(n, "new")

ProbeFindsActive(n) ==
    /\ MainAt("probing") /\ n \in todo /\ allocation[n] # None
    /\ claim' = [claim EXCEPT ![n] = "already-active"]
    /\ todo' = todo \ {n}
    /\ UNCHANGED <<provider, main, threads, evidence>>

\* After the first loop; the second visits what was already active.
ProbeEnds ==
    /\ MainAt("probing") /\ todo = {}
    /\ MainGoes("claiming") /\ todo' = {n \in Nodes : claim[n] = "already-active"}
    /\ UNCHANGED <<provider, claim, threads, evidence>>

\* _record_managed_allocation, if POS shows the allocation that was just made.
Record ==
    LET n == main.node IN
    /\ MainAt("recording")
    /\ \/ /\ allocation[n].folder = authority.folder
          /\ authority' = [authority EXCEPT !.retained[n] = allocation[n]]
       \/ UNCHANGED authority
    /\ MainGoes(IF claim[n] = "new" THEN "probing" ELSE "claiming")
    /\ UNCHANGED <<allocation, todo, claim, threads, evidence>>

\* Mutant of Matches: what is retained is not compared with what is live.
IsRetained(n) == authority.retained[n] # None

\* _managed_allocation_matches.
Matches(n) ==
    /\ authority.retained[n] # None /\ allocation[n] # None
    /\ authority.retained[n].folder = authority.folder
    /\ allocation[n].id = authority.retained[n].id
    /\ allocation[n].folder = authority.retained[n].folder

ClaimManaged(n) ==
    /\ MainAt("claiming") /\ n \in todo /\ Matches(n)
    /\ claim' = [claim EXCEPT ![n] = "managed-existing"]
    /\ todo' = todo \ {n}
    /\ UNCHANGED <<provider, main, threads, evidence>>

\* _reclaim_allocation_for_fresh, also taken where POS does not show a match:
\* the node is freed, and the outcome of that is not checked ...
ReclaimFrees(n) ==
    /\ MainAt("claiming") /\ n \in todo
    /\ allocation' \in {allocation, [allocation EXCEPT ![n] = None]}
    /\ main' = [pc |-> "reclaiming", node |-> n]
    /\ UNCHANGED <<authority, todo, claim, threads, evidence>>

\* ... then it is requested again, and must be new.
ReclaimAllocates ==
    /\ MainAt("reclaiming")
    /\ Allocate(main.node) /\ Granted(main.node, "reclaimed")

\* A request fails, before or after its effect, or POS is still busy with an
\* earlier one, or the node is still allocated after the reclaim, or the state
\* file cannot be written.
AuthorityFails ==
    /\ main.pc \in {"probing", "recording", "reclaiming"}
    /\ \/ UNCHANGED allocation
       \/ \E n \in (IF MainAt("probing") THEN todo ELSE {main.node}) : Allocate(n)
    /\ MainEnds /\ evidence' = "failed"
    /\ UNCHANGED <<authority, worker>>

----------------------------------------------------------------------------
(* One thread per node.                                                     *)

Authorised == {"new", "reclaimed", "managed-existing"}

Dispatch ==
    /\ MainAt("claiming") /\ todo = {}
    /\ \A n \in Nodes : claim[n] \in Authorised
    /\ MainGoes("waiting")
    /\ worker' = [n \in Nodes |-> [pc |-> "queued", done |-> 0]]
    /\ UNCHANGED <<provider, todo, claim, stop, evidence>>

WorkerAt(n, pc) == worker[n].pc = pc
WorkerGoes(n, pc) == worker' = [worker EXCEPT ![n].pc = pc]

\* A pool thread takes up the future of node n.
WorkerStarts(n) ==
    /\ WorkerAt(n, "queued") /\ WorkerGoes(n, "checking")
    /\ UNCHANGED <<provider, main, todo, claim, stop, evidence>>

\* stop_if_peer_failed, before each of the four phases.
WorkerChecks(n) ==
    /\ WorkerAt(n, "checking")
    /\ WorkerGoes(n, IF stop THEN "cancelled" ELSE "running")
    /\ UNCHANGED <<provider, main, todo, claim, stop, evidence>>

\* Mutant of WorkerCompletes: the event is set in a finally clause.
WorkerCompletesStopping(n) ==
    /\ WorkerAt(n, "running")
    /\ worker' = [worker EXCEPT ![n] =
           [pc |-> IF @.done + 1 = Ready THEN "ready" ELSE "checking", done |-> @.done + 1]]
    /\ stop' = (stop \/ worker[n].done + 1 = Ready)
    /\ UNCHANGED <<provider, main, todo, claim, evidence>>

WorkerCompletes(n) ==
    /\ WorkerAt(n, "running")
    /\ worker' = [worker EXCEPT ![n] =
           [pc |-> IF @.done + 1 = Ready THEN "ready" ELSE "checking", done |-> @.done + 1]]
    /\ UNCHANGED <<provider, main, todo, claim, stop, evidence>>

\* Mutant of WorkerFails: a failed phase is tried again.
WorkerRepeats(n) ==
    /\ WorkerAt(n, "running") /\ WorkerGoes(n, "checking")
    /\ UNCHANGED <<provider, main, todo, claim, stop, evidence>>

\* The command exits non-zero, or SSH does not answer the last probe.
WorkerFails(n) ==
    /\ WorkerAt(n, "running") /\ WorkerGoes(n, "failing")
    /\ UNCHANGED <<provider, main, todo, claim, stop, evidence>>

\* The failure is timed and recorded before the peers can see it.
WorkerSignals(n) ==
    /\ WorkerAt(n, "failing") /\ WorkerGoes(n, "failed")
    /\ stop' = TRUE
    /\ UNCHANGED <<provider, main, todo, claim, evidence>>

Raised   == {"failed", "cancelled"}
Finished == Raised \cup {"ready", "dropped"}

\* wait(FIRST_EXCEPTION): once all are done or one has raised; then what no
\* thread has taken up yet is cancelled.
MainWakes ==
    /\ MainAt("waiting")
    /\ \/ \A n \in Nodes : worker[n].pc \in Finished
       \/ \E n \in Nodes : worker[n].pc \in Raised
    /\ MainGoes("joining")
    /\ worker' = [n \in Nodes |-> IF WorkerAt(n, "queued")
                                  THEN [worker[n] EXCEPT !.pc = "dropped"] ELSE worker[n]]
    /\ UNCHANGED <<provider, todo, claim, stop, evidence>>

Failures == {n \in Nodes : worker[n].pc \in {"failed", "dropped"}}

\* The with clause joins every thread; then the outcomes are collected.  A
\* thread that stopped because a peer had failed is no failure of its own.
\* Writing pos-selection.json may still turn ready into failed.
MainJoins ==
    /\ MainAt("joining")
    /\ \A n \in Nodes : worker[n].pc \in Finished
    /\ MainEnds
    /\ evidence' \in (IF Failures = {} THEN {"ready", "failed"} ELSE {"failed"})
    /\ UNCHANGED <<provider, worker>>

----------------------------------------------------------------------------
(* Between two runs an event may end, or its owner may use POS by hand.     *)
SomebodyElse(n) ==
    /\ MainAt("idle") /\ n \in Shared
    /\ \/ /\ allocation[n] = None
          /\ \E id \in Ids :
                /\ authority.retained[n] # None => authority.retained[n].id # id
                /\ allocation' = [allocation EXCEPT ![n] =
                       [id |-> id, folder |-> Foreign, event |-> NoEvent]]
       \/ allocation[n] # None /\ allocation' = [allocation EXCEPT ![n] = None]
    /\ UNCHANGED <<authority, main, todo, claim, threads, evidence>>

\* The controller is killed, and its threads with it.
Dies ==
    /\ ~MainAt("idle")
    /\ MainEnds /\ worker' = NoWorkers
    /\ UNCHANGED <<provider, evidence>>

Worker(n) ==
    WorkerStarts(n) \/ WorkerChecks(n) \/ WorkerCompletes(n) \/ WorkerFails(n) \/ WorkerSignals(n)

Main ==
    \/ \E n \in Nodes : \/ ProbeAllocates(n) \/ ProbeFindsActive(n)
                        \/ ClaimManaged(n) \/ ReclaimFrees(n)
    \/ ProbeEnds \/ Record \/ ReclaimAllocates \/ AuthorityFails
    \/ Dispatch \/ MainWakes \/ MainJoins

Next ==
    \/ \E e \in Events : Begin(e)
    \/ Main
    \/ \E n \in Nodes : Worker(n) \/ SomebodyElse(n)
    \/ Dies

Spec == Init /\ [][Next]_vars

\* Commands return and threads are scheduled; SSH is probed a bounded number
\* of times.
FairSpec == Spec /\ WF_vars(Main) /\ \A n \in Nodes : WF_vars(Worker(n))

----------------------------------------------------------------------------
(* Properties.                                                              *)

MainPC == {"idle", "probing", "recording", "claiming", "reclaiming", "waiting", "joining"}
Retained == [Nodes -> Allocations \cup {None}]

\* The type of every variable.
TypeOK ==
    /\ allocation \in Retained
    /\ authority \in [event : Events \cup {NoEvent}, folder : Folders \cup {Foreign},
                      retained : Retained]
    /\ main \in [pc : MainPC, node : Nodes \cup {NoNode}]
    /\ todo \subseteq Nodes
    /\ claim \in [Nodes -> Authorised \cup {"unproven", "already-active"}]
    /\ worker \in [Nodes -> Workers] /\ stop \in BOOLEAN
    /\ evidence \in {"none", "preparing", "ready", "failed"}

Preparing == main.pc \in {"waiting", "joining"}

\* "First proving allocation authority for every node before image/reset
\* mutation": while any thread may touch a node, the live allocation of every
\* node is one SynthRAN itself made, under the calendar event it now holds,
\* whatever died or intervened in between.
AuthorityBeforeMutation ==
    Preparing =>
        \A n \in Nodes : allocation[n] # None /\ allocation[n].event = authority.event

\* Evidence says ready only of a run all of whose nodes completed all phases.
ReadyIsEarned ==
    evidence = "ready" => \A n \in Nodes : WorkerAt(n, "ready") /\ worker[n].done = Ready

\* Once the evidence has its verdict, no thread touches a node any more.
NoMutationAfterVerdict ==
    evidence \in {"ready", "failed"} =>
        \A n \in Nodes : worker[n].pc \in Finished \cup {"absent"}

\* Nodes are touched only with authority over every one of them, and only until
\* the verdict.
MutationIsLawful == AuthorityBeforeMutation /\ NoMutationAfterVerdict

\* SynthRAN's own folder marks allocations of the present event only.
FolderInv ==
    /\ authority.folder = Foreign => authority.event = NoEvent
    /\ \A n \in Nodes : allocation[n] # None /\ allocation[n].folder = authority.folder =>
           allocation[n].event = authority.event

\* A claim stands for a live allocation; a node still to visit has none.
ClaimInv ==
    ~MainAt("idle") =>
        /\ \A n \in Nodes : claim[n] \in Authorised =>
               allocation[n] # None /\ allocation[n].event = authority.event
        /\ \A n \in todo : claim[n] \notin Authorised
        /\ main.pc \in {"recording", "reclaiming"} => main.node \in Nodes
        /\ MainAt("reclaiming") => main.node \in todo
        /\ Preparing => \A n \in Nodes : claim[n] \in Authorised

\* Threads live only between dispatch and join, and one that was cancelled has
\* a peer that failed.
ThreadInv ==
    /\ ~Preparing => \A n \in Nodes : worker[n].pc \in Finished \cup {"absent"}
    /\ ~MainAt("idle") /\ ~Preparing => ~stop
    /\ Preparing =>
           /\ \A n \in Nodes : WorkerAt(n, "cancelled") => stop
           /\ stop => \E n \in Nodes : WorkerAt(n, "failed")
    /\ \A n \in Nodes : worker[n].pc \in {"checking", "running"} => worker[n].done < Ready
    /\ \A n \in Nodes : WorkerAt(n, "ready") => worker[n].done = Ready
    /\ \A n \in Nodes : WorkerAt(n, "queued") => worker[n].done = 0
    /\ ~MainAt("idle") => evidence = "preparing"

\* The inductive invariant of the preparation.
PreparationInv == TypeOK /\ FolderInv /\ ClaimInv /\ ThreadInv /\ ReadyIsEarned

\* A run that is neither killed nor stuck in a command reaches its verdict.
PreparationConcludes == (evidence = "preparing") ~> MainAt("idle")
=============================================================================
