------------------------- MODULE ReservationAuthority -------------------------
(***************************************************************************)
(* How a deployment gets the testbed and gives it back: the provider        *)
(* context, the POS calendar event of the selected nodes                    *)
(* (synthran/reservation.py), the R2Lab lease (the window that deploy.sh    *)
(* computes, deployment/scripts/reserve_r2lab.py), the evidence both leave   *)
(* in the run directory, and their release by a teardown                    *)
(* (synthran/reservation_release.py).                                       *)
(*                                                                         *)
(* One deployment or teardown runs at a time; calendar and leases also       *)
(* change under the hands of the operator, who shares the account, and of    *)
(* other users.  A command to a provider may be refused, and its answer may  *)
(* be lost when it was not.  Time is counted in the granularity of the       *)
(* providers: an event created at t starts at t.                             *)
(***************************************************************************)
EXTENDS Integers, FiniteSets

CONSTANTS
    NumRuns,        \* deployments that are tried, each with a run directory
    Policies,       \* run -> the acquisition policies its scenario may resolve to
    Duration,       \* reservation.duration_minutes
    LeaseDuration,  \* r2lab_reservation.duration_minutes
    Grain,          \* granularity of the start of the lease window
    PrefixAfterCreate, PrefixExisting,  \* attempts at the provider prefix
    MaxTime,        \* bound: the time covered
    MaxMeddling     \* bound: what others do to the calendar and the leases

Runs == 1..NumRuns
Modes == {"create", "require-existing", "disabled"}
LeaseModes == {"book", "require-existing", "disabled", "off"}  \* off: not asked for
PolicySet == [provider : Modes, pos : Modes, r2lab : LeaseModes]

ASSUME ReservationAssumption ==
    /\ {NumRuns, Duration, LeaseDuration, Grain, PrefixAfterCreate,
        PrefixExisting, MaxTime} \subseteq Nat \ {0}
    /\ MaxMeddling \in Nat
    /\ Policies \in [Runs -> SUBSET PolicySet]

VARIABLES
    clock,
    experiment,   \* whether the SLICES experiment exists
    events,       \* calendar events of the caller for exactly
                  \* the selected nodes; the others are never considered
    leases,       \* R2Lab leases, of this slice and of others
    lastId,       \* ids given by the providers
    meddling,     \* what others have done so far
    managed,      \* .synthran/pos-reservation.json: the event it names, or 0
    run,          \* the latest run; nothing reads what is left of earlier ones
    evidence,     \* its reservation-authority.json and r2lab-lease.json
    outcome,      \* what its teardown has recorded
    accepted,     \* its endpoint: "none", "accepted", or "stopping"
    job           \* the deployment or teardown in progress

providers == <<experiment, events, leases, lastId, meddling>>
records   == <<managed, run, evidence, outcome>>
vars      == <<clock, providers, records, accepted, job>>

----------------------------------------------------------------------------
(* Records.                                                                 *)

\* due is a ghost: the end that the run had asked for.
NoCalendar == [status |-> "none", id |-> 0, end |-> 0, due |-> 0]
NoLease    == [status |-> "none", id |-> 0, from |-> 0, until |-> 0, start |-> 0, end |-> 0]

\* lease is r2lab-lease.json, r2lab the copy in reservation-authority.json;
\* seen is a ghost: the ids the run found before it asked for anything.
NoEvidence ==
    [status |-> "none", failure |-> "none", calendar |-> NoCalendar,
     lease |-> NoLease, r2lab |-> NoLease, timing |-> "none", seen |-> {}]

NoPolicy == [provider |-> "disabled", pos |-> "disabled", r2lab |-> "off"]

Idle == [kind |-> "none", pc |-> "idle", policy |-> NoPolicy, keep |-> FALSE,
         now |-> 0, tries |-> 0, calendar |-> NoCalendar, lease |-> NoLease]

NothingReleased == [pos |-> "none", r2lab |-> "none"]

Init ==
    /\ clock = 0
    /\ experiment = FALSE
    /\ events = {} /\ leases = {} /\ lastId = 0 /\ meddling = 0
    /\ managed = 0
    /\ run = 0 /\ evidence = NoEvidence /\ outcome = NothingReleased
    /\ accepted = "none"
    /\ job = Idle

----------------------------------------------------------------------------
(* The job.                                                                 *)

AtStep(kind, pc) == job.kind = kind /\ job.pc = pc
GoesTo(pc) == job' = [job EXCEPT !.pc = pc]

\* execute and main: any error is written to the evidence and ends the job.
Fail(why) ==
    /\ evidence' = [evidence EXCEPT !.status = "failed", !.failure = why]
    /\ job' = Idle

\* deploy.sh starts a run: what was accepted before is invalidated.
Invoke ==
    /\ job = Idle /\ run < NumRuns
    /\ run' = run + 1
    /\ \E policy \in Policies[run + 1] :
          job' = [Idle EXCEPT !.kind = "deploy", !.pc = "provider", !.policy = policy]
    /\ evidence' = [NoEvidence EXCEPT !.status = "preparing"]
    /\ outcome' = NothingReleased
    /\ accepted' = "none"
    /\ UNCHANGED <<clock, providers, managed>>

----------------------------------------------------------------------------
(* Provider context.                                                        *)

\* Project and experiment are selected; the experiment is made if it may be.
ProviderContext ==
    /\ AtStep("deploy", "provider")
    /\ \/ /\ job.policy.provider = "disabled"
          /\ GoesTo("capture")
          /\ UNCHANGED <<experiment, evidence>>
       \/ /\ job.policy.provider # "disabled" /\ experiment
          /\ job' = [job EXCEPT !.pc = "prefix", !.tries = PrefixExisting]
          /\ UNCHANGED <<experiment, evidence>>
       \/ /\ job.policy.provider = "create" /\ ~experiment
          /\ experiment' = TRUE
          /\ job' = [job EXCEPT !.pc = "prefix", !.tries = PrefixAfterCreate]
          /\ UNCHANGED evidence
       \/ /\ job.policy.provider # "disabled"   \* refused, missing, or no answer
          /\ experiment' \in {experiment, experiment \/ job.policy.provider = "create"}
          /\ Fail("other")
    /\ UNCHANGED <<clock, events, leases, lastId, meddling, managed, run, outcome, accepted>>

\* Mutant of Prefix: after the last attempt it begins again.
PrefixForever ==
    /\ AtStep("deploy", "prefix")
    /\ \/ GoesTo("capture")
       \/ job' = [job EXCEPT !.tries = IF @ > 1 THEN @ - 1 ELSE PrefixAfterCreate]
    /\ UNCHANGED <<clock, providers, records, accepted>>

\* One query for the network prefix of the experiment.
Prefix ==
    /\ AtStep("deploy", "prefix")
    /\ \/ GoesTo("capture") /\ UNCHANGED evidence
       \/ /\ job.tries > 1
          /\ job' = [job EXCEPT !.tries = @ - 1] /\ UNCHANGED evidence
       \/ job.tries = 1 /\ Fail("other")
    /\ UNCHANGED <<clock, providers, managed, run, outcome, accepted>>

----------------------------------------------------------------------------
(* The POS calendar.                                                        *)

\* The time the demand is judged by; the owner is looked up after it.
CaptureNow ==
    /\ AtStep("deploy", "capture")
    /\ job' = IF job.policy.pos = "disabled"
              THEN [job EXCEPT !.pc = "save", !.calendar.status = "disabled"]
              ELSE [job EXCEPT !.pc = "list", !.now = clock]
    /\ UNCHANGED <<clock, providers, records, accepted>>

Active == {e \in events : e.start <= job.now /\ job.now < e.end}

CoveringTo(end) == {e \in Active : e.end >= end}

Acquired(e, status) ==
    [status |-> status, id |-> e.id, end |-> e.end, due |-> job.now + Duration]

\* The record of an event that existed before.
Claimed(e) ==
    Acquired(e, IF job.policy.pos = "create" THEN "reused" ELSE "required-existing")

\* acquire_calendar up to the create command: an existing event is taken only
\* if it is the only one and covers the demand.
ListCalendar ==
    /\ AtStep("deploy", "list")
    /\ \/ /\ LET found == IF job.policy.pos = "create" THEN Active
                          ELSE CoveringTo(job.now + Duration)
             IN  \/ /\ found = {} /\ job.policy.pos = "create"
                    /\ GoesTo("create")
                    /\ evidence' = [evidence EXCEPT !.seen =
                                        @ \cup {e.id : e \in events}]
                 \/ /\ Cardinality(found) = 1 /\ found \subseteq CoveringTo(job.now + Duration)
                    /\ \E e \in found :
                          job' = [job EXCEPT !.pc = "save", !.calendar = Claimed(e)]
                    /\ evidence' = [evidence EXCEPT !.seen =
                                        @ \cup {e.id : e \in events}]
                 \/ /\ Cardinality(found) = 1 /\ ~(found \subseteq CoveringTo(job.now + Duration))
                    /\ Fail("short")
                 \/ /\ Cardinality(found) > 1 \/ (found = {} /\ job.policy.pos # "create")
                    /\ Fail("other")
       \/ Fail("other")     \* the list command fails
    /\ UNCHANGED <<clock, providers, managed, run, outcome, accepted>>

\* pos calendar create --start now; it may be refused, or made and no answer.
CreateEvent ==
    /\ AtStep("deploy", "create")
    /\ \/ Fail("other") /\ UNCHANGED <<events, lastId>>
       \/ /\ events' = events \cup {[id |-> lastId + 1, start |-> clock,
                                     end |-> clock + Duration]}
          /\ lastId' = lastId + 1
          /\ \/ Fail("other")
             \/ job' = [job EXCEPT !.pc = "prove", !.calendar.id = lastId + 1]
                /\ UNCHANGED evidence
    /\ UNCHANGED <<clock, experiment, leases, meddling, managed, run, outcome, accepted>>

\* The created event, if the provider lists it as covering the demand.
Proven == {e \in CoveringTo(job.now + Duration) : e.id = job.calendar.id}

ProveEvent ==
    /\ AtStep("deploy", "prove")
    /\ \/ \E e \in Proven :
             /\ job' = [job EXCEPT !.pc = "save", !.calendar = Acquired(e, "created")]
             /\ UNCHANGED evidence
       \/ Fail("other")     \* not proven, or the list command fails
    /\ UNCHANGED <<clock, providers, managed, run, outcome, accepted>>

\* _save_state, then the evidence.
SaveState ==
    /\ AtStep("deploy", "save")
    /\ managed' = IF job.calendar.status = "disabled" THEN managed ELSE job.calendar.id
    /\ GoesTo("evidence")
    /\ UNCHANGED <<clock, providers, run, evidence, outcome, accepted>>

WriteCalendar ==
    /\ AtStep("deploy", "evidence")
    /\ evidence' = [evidence EXCEPT !.calendar = job.calendar]
    /\ GoesTo("prepare")
    /\ UNCHANGED <<clock, providers, managed, run, outcome, accepted>>

\* prepare_hosts, which FreshPreparation models; then pos-selection.json.
PrepareHosts ==
    /\ AtStep("deploy", "prepare")
    /\ \/ /\ evidence' = [evidence EXCEPT !.status = "ready"]
          /\ GoesTo(IF job.policy.r2lab = "off" THEN "accept" ELSE "window")
       \/ Fail("other")
    /\ UNCHANGED <<clock, providers, managed, run, outcome, accepted>>

----------------------------------------------------------------------------
(* The R2Lab lease.                                                         *)

Earlier(a, b) == IF a < b THEN a ELSE b

WindowStart == (clock \div Grain) * Grain

\* Mutant of WindowEnd: the window is not capped.
WindowUncapped == WindowStart + LeaseDuration

WindowEnd ==
    IF job.calendar.status = "disabled" THEN WindowStart + LeaseDuration
    ELSE Earlier(WindowStart + LeaseDuration, job.calendar.end)

\* phase-timings.json: the phase of the lease is opened, and closed once.
PhaseStarts ==
    evidence.timing # "running" /\ evidence' = [evidence EXCEPT !.timing = "running"]
PhaseEnds(status) ==
    evidence.timing = "running" /\ evidence' = [evidence EXCEPT !.timing = status]

\* deploy.sh computes the window.  When the calendar ends before it, it exits
\* and the evidence stays as it is.
Window ==
    /\ AtStep("deploy", "window")
    /\ IF WindowEnd > WindowStart
       THEN /\ job' = [job EXCEPT !.pc = "query", !.lease.start = WindowStart,
                                  !.lease.end = WindowEnd]
            /\ PhaseStarts
       ELSE job' = Idle /\ UNCHANGED evidence
    /\ UNCHANGED <<clock, providers, managed, run, outcome, accepted>>

Demand == job.lease

LeasesIn(start, end) == {l \in leases : l.from < end /\ l.until > start}
Owned == {l \in LeasesIn(Demand.start, Demand.end) : l.ours}
CoveringLeases == {l \in Owned : l.from <= Demand.start /\ l.until >= Demand.end}

Granted(l, status) ==
    [job EXCEPT !.pc = "record",
                !.lease = [Demand EXCEPT !.status = status, !.id = l.id,
                                         !.from = l.from, !.until = l.until]]

LeaseFails == job' = [job EXCEPT !.pc = "record", !.lease.status = "failed"]

\* _execute up to the command that changes a lease.
QueryLeases ==
    /\ AtStep("deploy", "query")
    /\ \/ /\ job.policy.r2lab = "disabled"
          /\ job' = [job EXCEPT !.pc = "record", !.lease.status = "disabled"]
       \/ job.policy.r2lab # "disabled" /\ LeaseFails   \* no access, query fails
       \/ /\ job.policy.r2lab # "disabled" /\ CoveringLeases # {}
          /\ \E l \in CoveringLeases : job' = Granted(l, "reused")
       \/ /\ job.policy.r2lab = "book" /\ CoveringLeases = {} /\ Owned = {}
          /\ GoesTo("book")
       \/ /\ job.policy.r2lab = "book" /\ CoveringLeases = {} /\ Cardinality(Owned) = 1
          /\ \E l \in Owned :
                /\ l.from <= Demand.start
                /\ job' = [job EXCEPT !.pc = "extend", !.lease.id = l.id]
    /\ evidence' = [evidence EXCEPT !.seen = @ \cup {l.id : l \in leases}]
    /\ UNCHANGED <<clock, providers, managed, run, outcome, accepted>>

Free(start, end, but) == LeasesIn(start, end) \ but = {}

\* update_lease of EXTEND_CODE, and book of BOOK_CODE.
Prolong(l, end) ==
    Free(l.from, end, {l}) /\ leases' = (leases \ {l}) \cup {[l EXCEPT !.until = end]}

Book(ours, start, end) ==
    /\ Free(start, end, {})
    /\ leases' = leases \cup {[id |-> lastId + 1, ours |-> ours, from |-> start, until |-> end]}
    /\ lastId' = lastId + 1

\* The lease is prolonged, if it is still there and the time free.
ExtendLease ==
    /\ AtStep("deploy", "extend")
    /\ \/ LeaseFails /\ UNCHANGED leases
       \/ \E l \in leases :
             /\ l.id = Demand.id /\ Prolong(l, Demand.end)
             /\ LeaseFails \/ job' = [job EXCEPT !.pc = "verify", !.lease.status = "extended"]
    /\ UNCHANGED <<clock, experiment, events, lastId, meddling, records, accepted>>

BookLease ==
    /\ AtStep("deploy", "book")
    /\ \/ LeaseFails /\ UNCHANGED <<leases, lastId>>
       \/ /\ Book(TRUE, Demand.start, Demand.end)
          /\ LeaseFails \/ job' = [job EXCEPT !.pc = "verify", !.lease.status = "booked"]
    /\ UNCHANGED <<clock, experiment, events, meddling, records, accepted>>

\* _verify_single_covering_lease: what covers the window now, and, after an
\* extension, is the lease that was extended.
Verified == {l \in CoveringLeases : Demand.status = "extended" => l.id = Demand.id}

VerifyLease ==
    /\ AtStep("deploy", "verify")
    /\ \/ LeaseFails     \* not proven, or the query fails
       \/ \E l \in Verified : job' = Granted(l, Demand.status)
    /\ UNCHANGED <<clock, providers, records, accepted>>

\* _write_record: r2lab-lease.json, ...
RecordLease ==
    /\ AtStep("deploy", "record")
    /\ evidence' = [evidence EXCEPT !.lease = job.lease]
    /\ GoesTo("authority")
    /\ UNCHANGED <<clock, providers, managed, run, outcome, accepted>>

\* ... and the authority evidence, whose status it sets.
UpdateAuthority ==
    /\ AtStep("deploy", "authority")
    /\ evidence' = [evidence EXCEPT
            !.r2lab = job.lease,
            !.status = IF job.lease.status = "failed" THEN "failed" ELSE "ready",
            !.failure = IF job.lease.status = "failed" THEN "other" ELSE "none"]
    /\ GoesTo("finish")
    /\ UNCHANGED <<clock, providers, managed, run, outcome, accepted>>

\* deploy.sh closes the phase, and goes on or stops.
FinishPhase ==
    /\ AtStep("deploy", "finish")
    /\ \/ job.lease.status = "failed" /\ PhaseEnds("failed") /\ job' = Idle
       \/ job.lease.status # "failed" /\ PhaseEnds("success") /\ GoesTo("accept")
    /\ UNCHANGED <<clock, providers, managed, run, outcome, accepted>>

\* The rest of the deployment (TestbedLifecycle) succeeds or not.
Accept ==
    /\ AtStep("deploy", "accept")
    /\ accepted' \in {"none", "accepted"}
    /\ job' = Idle
    /\ UNCHANGED <<clock, providers, records>>

----------------------------------------------------------------------------
(* Teardown.                                                                *)

\* teardown.sh, again and again until every phase has succeeded.
InvokeTeardown ==
    /\ job = Idle /\ accepted # "none"
    /\ \E keep \in BOOLEAN :     \* --keep-reservations
          job' = [Idle EXCEPT !.kind = "teardown", !.pc = "pos", !.keep = keep]
    /\ accepted' = "stopping"
    /\ UNCHANGED <<clock, providers, records>>

TeardownFails == job' = Idle /\ UNCHANGED outcome

PosOutcome(status) ==
    /\ outcome' = [outcome EXCEPT !.pos = status]
    /\ GoesTo("r2lab")

\* Mutant of ClearManaged: the state file is left behind.
ClearNothing(id) == managed' = managed

\* _clear_matching_global_pos_state.
ClearManaged(id) == managed' = IF managed = id THEN 0 ELSE managed

\* release_pos_calendar up to the delete command; a phase that has succeeded
\* in an earlier attempt is not repeated.
ReleaseEvent ==
    /\ AtStep("teardown", "pos")
    /\ LET calendar == evidence.calendar
           live == {e \in events : e.id = calendar.id /\ clock < e.end}
       IN  \/ /\ outcome.pos # "none"
              /\ GoesTo("r2lab") /\ UNCHANGED <<managed, outcome>>
           \/ /\ outcome.pos = "none"
              /\ job.keep \/ calendar.status # "created"
              /\ PosOutcome("preserved") /\ UNCHANGED managed
           \/ /\ outcome.pos = "none"
              /\ ~job.keep /\ calendar.status = "created"
              /\ \/ TeardownFails /\ UNCHANGED managed
                 \/ live = {} /\ PosOutcome("already-absent") /\ ClearManaged(calendar.id)
                 \/ /\ live # {} /\ UNCHANGED <<managed, outcome>>
                    /\ job' = [job EXCEPT !.pc = "delete", !.calendar = calendar]
    /\ UNCHANGED <<clock, providers, run, evidence, accepted>>

\* pos calendar delete --id.
DeleteEvent ==
    /\ AtStep("teardown", "delete")
    /\ \/ TeardownFails /\ UNCHANGED events
       \/ /\ events' = {e \in events : e.id # job.calendar.id}
          /\ TeardownFails \/ (GoesTo("check") /\ UNCHANGED outcome)
    /\ UNCHANGED <<clock, experiment, leases, lastId, meddling, managed, run, evidence, accepted>>

CheckDeleted ==
    /\ AtStep("teardown", "check")
    /\ \/ TeardownFails /\ UNCHANGED managed
       \/ /\ \A e \in events : e.id # job.calendar.id
          /\ PosOutcome("released") /\ ClearManaged(job.calendar.id)
    /\ UNCHANGED <<clock, providers, run, evidence, accepted>>

LeaseOutcome(status) ==
    /\ outcome' = [outcome EXCEPT !.r2lab = status]
    /\ job' = Idle /\ accepted' = "none"

\* book.delete: a lease in progress is cut off, a coming one vanishes.
Without(l) ==
    (leases \ {l}) \cup (IF l.from < clock THEN {[l EXCEPT !.until = clock]} ELSE {})

\* Mutant of Recorded: the lease is known by its id alone.
RecordedById(lease) ==
    {l \in LeasesIn(lease.start, lease.end) : l.id = lease.id}

\* The only lease in the recorded interval, if it is what was booked.
Recorded(lease) ==
    {l \in LeasesIn(lease.start, lease.end) :
        /\ LeasesIn(lease.start, lease.end) = {l}
        /\ l = [id |-> lease.id, ours |-> TRUE, from |-> lease.from, until |-> lease.until]}

\* release_r2lab_lease; the comparison, the deletion and the look at what is
\* left are one command on the gateway, whose answer may be lost.
ReleaseLease ==
    /\ AtStep("teardown", "r2lab")
    /\ LET lease == evidence.lease
       IN  \/ /\ job.keep \/ lease.status # "booked"
              /\ LeaseOutcome(IF lease.status = "none" /\ ~job.keep THEN "skipped"
                              ELSE "preserved")
              /\ UNCHANGED leases
           \/ /\ ~job.keep /\ lease.status = "booked" /\ UNCHANGED leases
              /\ \/ TeardownFails /\ UNCHANGED accepted
                 \/ (\E l \in Recorded(lease) : l.until <= clock) /\ LeaseOutcome("already-absent")
           \/ /\ ~job.keep /\ lease.status = "booked"
              /\ \E l \in Recorded(lease) : l.until > clock /\ leases' = Without(l)
              /\ LeaseOutcome("released") \/ (TeardownFails /\ UNCHANGED accepted)
    /\ UNCHANGED <<clock, experiment, events, lastId, meddling, managed, run, evidence>>

----------------------------------------------------------------------------
(* What an experiment is told of the reservation (experiment_environment.py).  *)

Unknown == MaxTime + Duration + LeaseDuration + (MaxMeddling + 1) * Grain + 1

\* _saved_pos_coverage: what pos-selection.json has.
SavedPosCoverage ==
    IF evidence.calendar.status \in {"created", "reused", "required-existing"}
    THEN evidence.calendar.end ELSE Unknown

\* _fresh_pos_coverage: the calendar as it is now; without an answer, the saved one.
FreshPosCoverage ==
    LET covering == {e.end : e \in {q \in events : q.start <= clock /\ clock < q.end}}
    IN  IF covering = {} THEN Unknown ELSE CHOOSE t \in covering : \A u \in covering : u <= t

\* _r2lab_coverage: the lease as the deployment has recorded it.
R2LabCoverage ==
    IF evidence.lease.status \in {"booked", "reused", "extended"}
    THEN evidence.lease.until ELSE Unknown

\* inspect_active_deployment: the earlier of those that are known.
CoverageEnd(pos) == Earlier(pos, R2LabCoverage)

\* reservation_remaining_seconds; a block of a campaign is begun if it fits, or
\* if nothing is known.
Remaining(end) == IF clock < end THEN end - clock ELSE 0
BlockFits(end, length) == end = Unknown \/ Remaining(end) >= length

----------------------------------------------------------------------------
(* The others.                                                              *)

Tick ==
    /\ clock < MaxTime
    /\ clock' = clock + 1
    /\ UNCHANGED <<providers, records, accepted, job>>

Meddle ==
    /\ meddling < MaxMeddling
    /\ meddling' = meddling + 1
    /\ UNCHANGED <<clock, experiment, records, accepted, job>>

\* The operator reserves the same nodes, or gives such a reservation up.
OthersChangeEvents ==
    /\ Meddle
    /\ \/ /\ \E length \in {1, Duration} :
                events' = events \cup {[id |-> lastId + 1, start |-> clock,
                                        end |-> clock + length]}
          /\ lastId' = lastId + 1
       \/ /\ \E e \in events : e.end > clock /\ events' = events \ {e}
          /\ UNCHANGED lastId
    /\ UNCHANGED leases

\* Leases are booked by anybody, and given up or prolonged by their owner.
OthersChangeLeases ==
    /\ Meddle
    /\ \/ /\ \E ours \in BOOLEAN, start \in {WindowStart, WindowStart + Grain} :
             \E end \in {start + Grain, start + LeaseDuration} :
                end > clock /\ Book(ours, start, end)
       \/ /\ \E l \in leases :
                /\ l.until > clock
                /\ leases' = leases \ {l} \/ Prolong(l, l.until + Grain)
          /\ UNCHANGED lastId
    /\ UNCHANGED events

\* The controller is killed: nothing is written any more.
Dies ==
    /\ job # Idle
    /\ job' = Idle
    /\ UNCHANGED <<clock, providers, records, accepted>>

----------------------------------------------------------------------------

Deploy ==
    \/ ProviderContext \/ Prefix
    \/ CaptureNow \/ ListCalendar \/ CreateEvent \/ ProveEvent
    \/ SaveState \/ WriteCalendar \/ PrepareHosts
    \/ Window \/ QueryLeases \/ ExtendLease \/ BookLease \/ VerifyLease
    \/ RecordLease \/ UpdateAuthority \/ FinishPhase \/ Accept

Teardown == ReleaseEvent \/ DeleteEvent \/ CheckDeleted \/ ReleaseLease

Next ==
    \/ Invoke \/ Deploy \/ InvokeTeardown \/ Teardown
    \/ Tick \/ OthersChangeEvents \/ OthersChangeLeases \/ Dies

Spec == Init /\ [][Next]_vars

\* A job in progress is not suspended for ever.
FairSpec == Spec /\ WF_vars(Deploy \/ Teardown)

----------------------------------------------------------------------------
(* Properties.                                                              *)

Times == 0..MaxTime + Duration + LeaseDuration + (MaxMeddling + 1) * Grain
Ids   == 0..2 * NumRuns + MaxMeddling

EventSet == [id : Ids, start : Times, end : Times]
LeaseSet == [id : Ids, ours : BOOLEAN, from : Times, until : Times]

CalendarRecords ==
    [status : {"none", "disabled", "created", "reused", "required-existing"},
     id : Ids, end : Times, due : Times]

LeaseRecords ==
    [status : {"none", "disabled", "failed", "booked", "reused", "extended"},
     id : Ids, from : Times, until : Times, start : Times, end : Times]

JobSteps ==
    {"idle", "provider", "prefix", "capture", "list", "create", "prove", "save", "evidence",
     "prepare", "window", "query", "extend", "book", "verify", "record", "authority", "finish",
     "accept", "pos", "delete", "check", "r2lab"}

\* Every variable has its type.
TypeOK ==
    /\ clock \in 0..MaxTime /\ experiment \in BOOLEAN
    /\ events \subseteq EventSet /\ leases \subseteq LeaseSet
    /\ lastId \in Ids /\ meddling \in 0..MaxMeddling /\ managed \in Ids
    /\ run \in 0..NumRuns /\ accepted \in {"none", "accepted", "stopping"}
    /\ evidence \in [status : {"none", "preparing", "ready", "failed"},
                     failure : {"none", "short", "other"},
                     calendar : CalendarRecords, lease : LeaseRecords, r2lab : LeaseRecords,
                     timing : {"none", "running", "failed", "success"}, seen : SUBSET Ids]
    /\ outcome \in [pos : {"none", "preserved", "already-absent", "released"},
                    r2lab : {"none", "skipped", "preserved", "already-absent", "released"}]
    /\ job \in [kind : {"none", "deploy", "teardown"}, pc : JobSteps, policy : PolicySet,
                keep : BOOLEAN, now : Times, tries : 0..PrefixAfterCreate + PrefixExisting,
                calendar : CalendarRecords, lease : LeaseRecords]

\* A teardown takes away nothing that its run had found when it asked for the
\* testbed, nor a lease which is no longer the one that was recorded, whatever
\* the operator, lost answers and crashes did to the calendar and the leases
\* in between (acquire_calendar, _execute, release_pos_calendar and
\* R2LAB_RELEASE_CODE together).
TeardownSparesOthers ==
    [][job.kind = "teardown" /\ job' # job =>
        /\ \A e \in events \ events' : e.id \notin evidence.seen
        /\ \A l \in leases \ leases' :
              /\ l.id \notin evidence.seen
              /\ l.from = evidence.lease.from
              /\ l.until = evidence.lease.until]_vars

\* A block of a campaign that is begun because it fits into what is left of the
\* reservation is held to its end by calendar and lease, if nobody else changes
\* them and the calendar event is known (_run_session, experiment_environment).
BlocksAreHeld ==
    accepted = "accepted" /\ meddling = 0 =>
        \A pos \in {SavedPosCoverage, FreshPosCoverage} \ {Unknown}, length \in 1..Duration :
            BlockFits(CoverageEnd(pos), length) =>
                /\ \E e \in events : e.start <= clock /\ clock + length <= e.end
                /\ evidence.lease.status \in {"booked", "reused", "extended"} =>
                    \E l \in leases :
                        l.ours /\ l.from <= clock /\ clock + length <= l.until

\* The state is well typed, and what the evidence of a run says it holds is
\* enough: the calendar event
\* lasts as long as was asked for, the lease covers the whole window of the
\* deployment, which is not empty and ends with the calendar event at the latest;
\* and a run whose testbed is accepted has left nothing half written.
EvidenceCovers ==
    LET calendar == evidence.calendar
        lease    == evidence.lease
    IN  /\ TypeOK /\ BlocksAreHeld
        /\ calendar.status \in {"created", "reused", "required-existing"} =>
              calendar.end >= calendar.due
        /\ lease.status \in {"booked", "reused", "extended"} =>
              /\ lease.start < lease.end
              /\ lease.from <= lease.start /\ lease.end <= lease.until
              /\ calendar.status # "disabled" => lease.end <= calendar.end
        /\ accepted # "none" =>
              /\ evidence.status = "ready" /\ evidence.r2lab = lease
              /\ calendar.status # "none" /\ evidence.timing \in {"none", "success"}

Gone == {"released", "already-absent"}

\* What a teardown reports as released or absent is gone until the next
\* deployment: no event or lease of that name holds the testbed, and the
\* managed state names no such event, so that nobody takes its allocations
\* for his own.  (The next deployment may prolong a lease that was cut off.)
TornDownIsGone ==
    /\ outcome.pos \in Gone =>
          /\ \A e \in events : e.id = evidence.calendar.id => e.end <= clock
          /\ managed # evidence.calendar.id
    /\ outcome.r2lab \in Gone =>
          \A l \in leases : l.id = evidence.lease.id => l.until <= clock

\* Every deployment and every teardown comes to an end, whatever the
\* providers answer: their number of questions is bounded.
InvocationEnds == job # Idle ~> job = Idle

=============================================================================
