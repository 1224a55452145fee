---------------------- MODULE ReservationAuthorityProofs ----------------------
(***************************************************************************)
(* What a teardown may take away and what the evidence of a run is worth,    *)
(* for any number of runs, any policies, durations and attempts, any passage *)
(* of time and any meddling.                                                *)
(***************************************************************************)
EXTENDS ReservationAuthority, NaturalsInduction, WellFoundedInduction, TLAPS

(* ------------------------------ invariant ------------------------------- *)
CalendarRecord ==
    [status : {"none", "disabled", "created", "reused", "required-existing"},
     id : Nat, end : Nat, due : Nat]
LeaseRecord ==
    [status : {"none", "disabled", "failed", "booked", "reused", "extended"},
     id : Nat, from : Nat, until : Nat, start : Nat, end : Nat]

EvidenceRecord ==
    [status : {"none", "preparing", "ready", "failed"}, failure : {"none", "short", "other"},
     calendar : CalendarRecord, lease : LeaseRecord, r2lab : LeaseRecord,
     timing : {"none", "running", "failed", "success"}, seen : SUBSET Nat]

Unlisted == {"provider", "prefix", "capture", "list"}
Unmade   == Unlisted \cup {"create", "prove"}
Unleased == Unmade \cup {"save", "evidence", "prepare", "window", "query"}
Leasing  == {"extend", "book", "verify", "record"}
Steps    == Unleased \cup Leasing \cup {"authority", "finish", "accept"}
                \cup {"idle", "pos", "delete", "check", "r2lab"}

JobRecord ==
    [kind : {"none", "deploy", "teardown"}, pc : Steps, policy : PolicySet, keep : BOOLEAN,
     now : Nat, tries : Nat, calendar : CalendarRecord, lease : LeaseRecord]

Outcomes == [pos : {"none", "preserved", "already-absent", "released"},
             r2lab : {"none", "skipped", "preserved", "already-absent", "released"}]

\* The types that the argument needs, without the bounds of an instance.
Typed ==
    /\ clock \in Nat /\ lastId \in Nat /\ managed \in Nat /\ run \in 0..NumRuns
    /\ experiment \in BOOLEAN
    /\ events \subseteq [id : 1..lastId, start : Nat, end : Nat]
    /\ leases \subseteq [id : 1..lastId, ours : BOOLEAN, from : Nat, until : Nat]
    /\ evidence \in EvidenceRecord /\ evidence.seen \subseteq 1..lastId
    /\ outcome \in Outcomes
    /\ job \in JobRecord

\* An id names one lease.
Named == \A l, m \in leases : l.id = m.id => l = m

\* The id is one that the run did not find, and an event's if any.
NotFound(id) == id \in 1..lastId /\ id \notin evidence.seen
OwnEvent(id) == NotFound(id) /\ \A l \in leases : l.id # id

\* An event counts as created only if the run did not find it.
CalendarInv ==
    /\ evidence.calendar.status = "created" => OwnEvent(evidence.calendar.id)
    /\ job.calendar.status = "created" => OwnEvent(job.calendar.id)
    /\ AtStep("deploy", "prove") => OwnEvent(job.calendar.id)
    /\ job.kind = "deploy" /\ job.pc \in Unmade =>
          job.calendar.status = "none" /\ evidence.calendar.status = "none"
    /\ job.kind = "teardown" /\ job.pc \in {"delete", "check"} =>
          job.calendar = evidence.calendar /\ evidence.calendar.status = "created"

\* No lease that was found holds the window, or can be made to.
WindowIsNew ==
    /\ job.lease.start <= clock
    /\ \A l \in leases : l.ours /\ l.id \in evidence.seen =>
          l.until <= job.lease.start \/ job.lease.end <= l.from

\* A lease counts as booked only if the run did not find it.
LeaseInv ==
    /\ evidence.lease.status = "booked" => NotFound(evidence.lease.id)
    /\ job.kind = "deploy" /\ job.pc \in Unleased \cup Leasing => evidence.lease.status = "none"
    /\ job.kind = "deploy" /\ job.pc \in Unleased => job.lease.status = "none"
    /\ AtStep("deploy", "query") => job.lease.start <= clock
    /\ AtStep("deploy", "book") => WindowIsNew
    /\ AtStep("deploy", "verify") /\ job.lease.status = "booked" => WindowIsNew
    /\ AtStep("deploy", "record") /\ job.lease.status = "booked" => NotFound(job.lease.id)

\* What is said to be gone was made by the run, and is.
GoneInv ==
    /\ job.kind = "deploy" => outcome = NothingReleased
    /\ outcome.pos \in Gone => evidence.calendar.status = "created"
    /\ outcome.r2lab \in Gone => evidence.lease.status = "booked"
    /\ TornDownIsGone

ReservationInv == Typed /\ Named /\ CalendarInv /\ LeaseInv /\ GoneInv


(* -------------------------------- types --------------------------------- *)
\* The window starts at a multiple of the grain, and not in the future.
LEMMA Floor ==
    ASSUME NEW t \in Nat, NEW g \in Nat \ {0}
    PROVE  (t \div g) * g \in Nat /\ (t \div g) * g <= t
  BY SMT

LEMMA WindowTyped ==
    ASSUME Typed
    PROVE  /\ WindowStart \in Nat /\ WindowStart <= clock
           /\ WindowEnd \in Nat
<1>1. WindowStart \in Nat /\ WindowStart <= clock
  BY Floor, ReservationAssumption DEF Typed, WindowStart
<1> QED
  BY <1>1, ReservationAssumption DEF Typed, WindowEnd, Earlier, JobRecord, CalendarRecord


LEMMA BlankTyped ==
    /\ NoCalendar \in CalendarRecord /\ NoLease \in LeaseRecord
    /\ Idle \in JobRecord /\ NoEvidence \in EvidenceRecord
<1>1. NoCalendar \in CalendarRecord /\ NoLease \in LeaseRecord
  BY DEF NoCalendar, NoLease, CalendarRecord, LeaseRecord
<1>2. NoPolicy \in PolicySet
  BY DEF NoPolicy, PolicySet, Modes, LeaseModes
<1>3. Idle \in JobRecord
  BY <1>1, <1>2 DEF Idle, JobRecord, Steps
<1>4. NoEvidence \in EvidenceRecord
  BY <1>1 DEF NoEvidence, EvidenceRecord
<1> QED
  BY <1>1, <1>3, <1>4

LEMMA JobUpdate ==
    ASSUME Typed, NEW p \in Steps
    PROVE  /\ [job EXCEPT !.pc = p] \in JobRecord
           /\ \A c \in CalendarRecord : [job EXCEPT !.pc = p, !.calendar = c] \in JobRecord
           /\ \A l \in LeaseRecord : [job EXCEPT !.pc = p, !.lease = l] \in JobRecord
           /\ job.lease \in LeaseRecord /\ job.calendar \in CalendarRecord
  BY DEF Typed, JobRecord

LEMMA StepNames ==
    {"provider", "prefix", "capture", "list", "create", "prove", "save", "evidence", "prepare",
     "window", "query", "extend", "book", "verify", "record", "authority", "finish", "accept",
     "idle", "pos", "delete", "check", "r2lab"} \subseteq Steps
  BY DEF Steps, Leasing, Unleased, Unmade, Unlisted

LEMMA LeaseTyped ==
    ASSUME Typed, NEW l \in leases
    PROVE  l.id \in 1..lastId /\ l.id \in Nat /\ l.from \in Nat /\ l.until \in Nat
  BY DEF Typed

LEMMA GrantedTyped ==
    ASSUME Typed, NEW l \in leases,
           NEW s \in {"none", "disabled", "failed", "booked", "reused", "extended"}
    PROVE  Granted(l, s) \in JobRecord
<1>1. [Demand EXCEPT !.status = s, !.id = l.id, !.from = l.from, !.until = l.until] \in LeaseRecord
  BY LeaseTyped DEF Typed, Demand, LeaseRecord, JobRecord
<1> QED
  BY <1>1 DEF Typed, Granted, JobRecord, Steps, Leasing

LEMMA LeaseFailsTyped == Typed /\ LeaseFails => job' \in JobRecord
<1> SUFFICES ASSUME Typed, LeaseFails PROVE job' \in JobRecord
  OBVIOUS
<1>1. [job.lease EXCEPT !.status = "failed"] \in LeaseRecord
  BY DEF Typed, LeaseRecord, JobRecord
<1>2. job' = [job EXCEPT !.pc = "record", !.lease = [job.lease EXCEPT !.status = "failed"]]
  BY DEF LeaseFails
<1> QED
  BY <1>1, <1>2, JobUpdate, StepNames

LEMMA AcquiredTyped ==
    ASSUME Typed, NEW e \in events, NEW s \in {"created", "reused", "required-existing"}
    PROVE  [job EXCEPT !.pc = "save", !.calendar = Acquired(e, s)] \in JobRecord
<1>1. Acquired(e, s) \in CalendarRecord
  BY ReservationAssumption DEF Typed, Acquired, CalendarRecord, JobRecord
<1> QED
  BY <1>1 DEF Typed, JobRecord, Steps, Unleased

LEMMA ProlongTyped ==
    ASSUME Typed, NEW l \in leases, NEW end \in Nat, Prolong(l, end)
    PROVE  leases' \subseteq [id : 1..lastId, ours : BOOLEAN, from : Nat, until : Nat]
<1>1. [l EXCEPT !.until = end] \in [id : 1..lastId, ours : BOOLEAN, from : Nat, until : Nat]
  BY DEF Typed
<1> QED
  BY <1>1 DEF Typed, Prolong

LEMMA BookTyped ==
    ASSUME Typed, NEW ours \in BOOLEAN, NEW start \in Nat, NEW end \in Nat, Book(ours, start, end)
    PROVE  /\ lastId' \in Nat /\ lastId <= lastId'
           /\ leases' \subseteq [id : 1..lastId', ours : BOOLEAN, from : Nat, until : Nat]
  BY DEF Typed, Book

\* Every step keeps the types.
LEMMA TypedStep == Typed /\ [Next]_vars => Typed'
<1> SUFFICES ASSUME Typed, [Next]_vars PROVE Typed'
  OBVIOUS
<1> USE BlankTyped, ReservationAssumption
<1>1. CASE Invoke
  <2>1. run + 1 \in 1..NumRuns /\ Policies[run + 1] \subseteq PolicySet
    BY <1>1 DEF Invoke, Typed, Runs
  <2>2. job' \in JobRecord
    BY <1>1, <2>1 DEF Invoke, JobRecord, Steps, Unleased, Unmade, Unlisted, Leasing
  <2>3. evidence' \in EvidenceRecord /\ evidence'.seen = {}
    BY <1>1 DEF Invoke, NoEvidence, EvidenceRecord
  <2> QED
    BY <1>1, <2>1, <2>2, <2>3 DEF Invoke, Typed, providers, NothingReleased, Outcomes
<1>2. CASE ProviderContext
  <2>1. job' \in JobRecord
    BY <1>2 DEF Typed, ProviderContext, JobRecord, GoesTo, Fail, Steps, Unleased, Unmade, Unlisted, Leasing
  <2>2. evidence' \in EvidenceRecord /\ evidence'.seen \subseteq 1..lastId
    BY <1>2 DEF Typed, ProviderContext, EvidenceRecord, Fail
  <2> QED
    BY <1>2, <2>1, <2>2 DEF Typed, ProviderContext
<1>3. CASE Prefix
  <2>1. job' \in JobRecord
    BY <1>3 DEF Typed, Prefix, JobRecord, GoesTo, Fail, Steps, Unleased, Unmade, Unlisted, Leasing
  <2>2. evidence' \in EvidenceRecord /\ evidence'.seen \subseteq 1..lastId
    BY <1>3 DEF Typed, Prefix, EvidenceRecord, Fail
  <2> QED
    BY <1>3, <2>1, <2>2 DEF Typed, Prefix, providers
<1>4. CASE CaptureNow
  <2>1. job' \in JobRecord
    BY <1>4 DEF Typed, CaptureNow, JobRecord, CalendarRecord, Steps, Unleased, Unmade, Unlisted, Leasing
  <2> QED
    BY <1>4, <2>1 DEF Typed, CaptureNow, providers, records
<1>5. CASE ListCalendar
  <2>1. \/ job' = Idle \/ GoesTo("create")
        \/ \E e \in events, status \in {"reused", "required-existing"} :
              job' = [job EXCEPT !.pc = "save", !.calendar = Acquired(e, status)]
    BY <1>5 DEF ListCalendar, Fail, Claimed, Active, CoveringTo
  <2>2. job' \in JobRecord
    BY <2>1, AcquiredTyped, JobUpdate, StepNames DEF GoesTo
  <2>3. {e.id : e \in events} \subseteq 1..lastId
    BY DEF Typed
  <2>4. evidence' \in {[evidence EXCEPT !.seen = @ \cup {e.id : e \in events}],
                       [evidence EXCEPT !.status = "failed", !.failure = "short"],
                       [evidence EXCEPT !.status = "failed", !.failure = "other"]}
    BY <1>5 DEF ListCalendar, Fail
  <2>5. evidence' \in EvidenceRecord /\ evidence'.seen \subseteq 1..lastId
    <3>1. evidence \in EvidenceRecord /\ evidence.seen \subseteq 1..lastId
      BY DEF Typed
    <3>2. CASE evidence' = [evidence EXCEPT !.seen = @ \cup {e.id : e \in events}]
      BY <2>3, <3>1, <3>2 DEF EvidenceRecord
    <3>3. CASE evidence' # [evidence EXCEPT !.seen = @ \cup {e.id : e \in events}]
      BY <2>4, <3>1, <3>3 DEF EvidenceRecord
    <3> QED
      BY <3>2, <3>3
  <2> QED
    BY <1>5, <2>2, <2>5 DEF Typed, ListCalendar, providers
<1>6. CASE CreateEvent
  <2>1. \/ job' = Idle
        \/ job' = [job EXCEPT !.pc = "prove", !.calendar.id = lastId + 1]
    BY <1>6 DEF CreateEvent, Fail
  <2>2. [job.calendar EXCEPT !.id = lastId + 1] \in CalendarRecord
    BY DEF Typed, JobRecord, CalendarRecord
  <2>3. job' \in JobRecord
    BY <2>1, <2>2 DEF Typed, JobRecord, Steps, Unleased, Unmade
  <2>4. evidence' \in EvidenceRecord /\ evidence'.seen \subseteq 1..lastId
    BY <1>6 DEF Typed, CreateEvent, EvidenceRecord, Fail
  <2>5. /\ lastId' \in Nat /\ lastId <= lastId'
        /\ events' \subseteq [id : 1..lastId', start : Nat, end : Nat]
    BY <1>6 DEF Typed, CreateEvent
  <2> QED
    BY <1>6, <2>3, <2>4, <2>5 DEF Typed, CreateEvent
<1>7. CASE ProveEvent
  <2>1. job' \in JobRecord
    BY <1>7, AcquiredTyped DEF Typed, ProveEvent, Fail, Proven, CoveringTo, Active
  <2>2. evidence' \in EvidenceRecord /\ evidence'.seen \subseteq 1..lastId
    BY <1>7 DEF Typed, ProveEvent, EvidenceRecord, Fail
  <2> QED
    BY <1>7, <2>1, <2>2 DEF Typed, ProveEvent, providers
<1>8. CASE SaveState
  <2>1. job' \in JobRecord
    BY <1>8 DEF Typed, SaveState, JobRecord, GoesTo, Steps, Unleased, Unmade, Unlisted, Leasing
  <2> QED
    BY <1>8, <2>1 DEF Typed, SaveState, providers, JobRecord, CalendarRecord
<1>9. CASE WriteCalendar
  <2>1. job' \in JobRecord
    BY <1>9 DEF Typed, WriteCalendar, JobRecord, GoesTo, Steps, Unleased, Unmade, Unlisted, Leasing
  <2>2. evidence' \in EvidenceRecord /\ evidence'.seen \subseteq 1..lastId
    BY <1>9 DEF Typed, WriteCalendar, EvidenceRecord, JobRecord
  <2> QED
    BY <1>9, <2>1, <2>2 DEF Typed, WriteCalendar, providers
<1>10. CASE PrepareHosts
  <2>1. job' \in JobRecord
    BY <1>10 DEF Typed, PrepareHosts, JobRecord, GoesTo, Fail, Steps, Unleased, Unmade, Unlisted, Leasing
  <2>2. evidence' \in EvidenceRecord /\ evidence'.seen \subseteq 1..lastId
    BY <1>10 DEF Typed, PrepareHosts, EvidenceRecord, Fail
  <2> QED
    BY <1>10, <2>1, <2>2 DEF Typed, PrepareHosts, providers
<1>11. CASE Window
  <2>1. [job.lease EXCEPT !.start = WindowStart, !.end = WindowEnd] \in LeaseRecord
    BY WindowTyped DEF Typed, LeaseRecord, JobRecord
  <2>2. \/ job' = Idle
        \/ job' = [job EXCEPT !.pc = "query", !.lease.start = WindowStart, !.lease.end = WindowEnd]
    BY <1>11 DEF Window
  <2>3. job' \in JobRecord
    BY <2>1, <2>2 DEF Typed, JobRecord, Steps, Unleased
  <2>4. evidence' \in EvidenceRecord /\ evidence'.seen \subseteq 1..lastId
    BY <1>11 DEF Typed, Window, EvidenceRecord, PhaseStarts
  <2> QED
    BY <1>11, <2>3, <2>4 DEF Typed, Window, providers
<1>12. CASE QueryLeases
  <2>1. CoveringLeases \subseteq leases /\ Owned \subseteq leases
    BY DEF CoveringLeases, Owned, LeasesIn
  <2>2. \/ job' = [job EXCEPT !.pc = "record", !.lease.status = "disabled"]
        \/ LeaseFails
        \/ GoesTo("book")
        \/ \E l \in leases : job' = Granted(l, "reused")
        \/ \E l \in leases : job' = [job EXCEPT !.pc = "extend", !.lease.id = l.id]
    BY <1>12, <2>1 DEF QueryLeases
  <2>3. [job.lease EXCEPT !.status = "disabled"] \in LeaseRecord
    BY DEF Typed, LeaseRecord, JobRecord
  <2>4. \A l \in leases : [job.lease EXCEPT !.id = l.id] \in LeaseRecord
    BY LeaseTyped DEF Typed, LeaseRecord, JobRecord
  <2>5. ASSUME job' = [job EXCEPT !.pc = "record", !.lease.status = "disabled"]
        PROVE  job' \in JobRecord
    <3>1. PICK l \in LeaseRecord : job' = [job EXCEPT !.pc = "record", !.lease = l]
      BY <2>3, <2>5
    <3> QED
      BY <3>1, JobUpdate, StepNames
  <2>6. ASSUME NEW l \in leases, job' = [job EXCEPT !.pc = "extend", !.lease.id = l.id]
        PROVE  job' \in JobRecord
    <3>1. job' = [job EXCEPT !.pc = "extend", !.lease = [job.lease EXCEPT !.id = l.id]]
      BY <2>6
    <3> QED
      BY <2>4, <3>1, JobUpdate, StepNames
  <2>7. GoesTo("book") => job' \in JobRecord
    BY JobUpdate, StepNames DEF GoesTo
  <2>8. job' \in JobRecord
    <3>1. ASSUME NEW l \in leases, job' = Granted(l, "reused") PROVE job' \in JobRecord
      BY <3>1, GrantedTyped
    <3> QED
      BY <2>2, <2>5, <2>6, <2>7, <3>1, LeaseFailsTyped
  <2>9. {l.id : l \in leases} \subseteq 1..lastId
    BY DEF Typed
  <2>10. evidence' = [evidence EXCEPT !.seen = @ \cup {l.id : l \in leases}]
    BY <1>12 DEF QueryLeases
  <2>11. evidence' \in EvidenceRecord /\ evidence'.seen \subseteq 1..lastId
    BY <2>9, <2>10 DEF Typed, EvidenceRecord
  <2> QED
    BY <1>12, <2>8, <2>11 DEF Typed, QueryLeases, providers
<1>13. CASE ExtendLease
  <2>1. job' \in JobRecord
    <3>1. LeaseFails \/ job' = [job EXCEPT !.pc = "verify", !.lease.status = "extended"]
      BY <1>13 DEF ExtendLease
    <3>2. [job.lease EXCEPT !.status = "extended"] \in LeaseRecord
      BY DEF Typed, LeaseRecord, JobRecord
    <3> QED
      BY <3>1, <3>2, LeaseFailsTyped DEF Typed, JobRecord, Steps, Leasing
  <2>2. Demand.end \in Nat
    BY DEF Typed, Demand, JobRecord, LeaseRecord
  <2>3. leases' \subseteq [id : 1..lastId, ours : BOOLEAN, from : Nat, until : Nat]
    BY <1>13, <2>2, ProlongTyped DEF ExtendLease, Typed
  <2> QED
    BY <1>13, <2>1, <2>3 DEF ExtendLease, Typed, records
<1>14. CASE BookLease
  <2>1. job' \in JobRecord
    <3>1. LeaseFails \/ job' = [job EXCEPT !.pc = "verify", !.lease.status = "booked"]
      BY <1>14 DEF BookLease
    <3>2. [job.lease EXCEPT !.status = "booked"] \in LeaseRecord
      BY DEF Typed, LeaseRecord, JobRecord
    <3> QED
      BY <3>1, <3>2, LeaseFailsTyped DEF Typed, JobRecord, Steps, Leasing
  <2>2. Demand.start \in Nat /\ Demand.end \in Nat
    BY DEF Typed, Demand, JobRecord, LeaseRecord
  <2>3. /\ lastId' \in Nat /\ lastId <= lastId'
        /\ leases' \subseteq [id : 1..lastId', ours : BOOLEAN, from : Nat, until : Nat]
    <3>1. (leases' = leases /\ lastId' = lastId) \/ Book(TRUE, Demand.start, Demand.end)
      BY <1>14 DEF BookLease
    <3>2. CASE leases' = leases /\ lastId' = lastId
      BY <3>2 DEF Typed
    <3>3. CASE Book(TRUE, Demand.start, Demand.end)
      BY <2>2, <3>3, BookTyped
    <3> QED
      BY <3>1, <3>2, <3>3
  <2> QED
    BY <1>14, <2>1, <2>3 DEF BookLease, Typed, records
<1>15. CASE VerifyLease
  <2>1. Verified \subseteq leases
    BY DEF Verified, CoveringLeases, Owned, LeasesIn
  <2>2. LeaseFails \/ \E l \in leases : job' = Granted(l, job.lease.status)
    BY <1>15, <2>1 DEF VerifyLease, Demand
  <2>3. job.lease.status \in {"none", "disabled", "failed", "booked", "reused", "extended"}
    BY DEF Typed, JobRecord, LeaseRecord
  <2>4. job' \in JobRecord
    BY <2>2, <2>3, LeaseFailsTyped, GrantedTyped
  <2> QED
    BY <1>15, <2>4 DEF VerifyLease, Typed, providers, records
<1>16. CASE RecordLease
  <2>1. job' \in JobRecord
    BY <1>16 DEF Typed, RecordLease, JobRecord, GoesTo, Steps, Unleased, Unmade, Unlisted, Leasing
  <2>2. evidence' \in EvidenceRecord /\ evidence'.seen \subseteq 1..lastId
    BY <1>16 DEF Typed, RecordLease, EvidenceRecord, JobRecord
  <2> QED
    BY <1>16, <2>1, <2>2 DEF Typed, RecordLease, providers
<1>17. CASE UpdateAuthority
  <2>1. job' \in JobRecord
    BY <1>17 DEF Typed, UpdateAuthority, JobRecord, GoesTo, Steps, Unleased, Unmade, Unlisted, Leasing
  <2>2. evidence' \in EvidenceRecord /\ evidence'.seen \subseteq 1..lastId
    BY <1>17 DEF Typed, UpdateAuthority, EvidenceRecord, JobRecord
  <2> QED
    BY <1>17, <2>1, <2>2 DEF Typed, UpdateAuthority, providers
<1>18. CASE FinishPhase
  <2>1. job' \in JobRecord
    BY <1>18 DEF Typed, FinishPhase, JobRecord, GoesTo, Steps, Unleased, Unmade, Unlisted, Leasing
  <2>2. evidence' \in EvidenceRecord /\ evidence'.seen \subseteq 1..lastId
    BY <1>18 DEF Typed, FinishPhase, EvidenceRecord, PhaseEnds
  <2> QED
    BY <1>18, <2>1, <2>2 DEF Typed, FinishPhase, providers
<1>19. CASE Accept \/ InvokeTeardown \/ Dies
  <2>1. job' \in JobRecord
    BY <1>19 DEF Accept, InvokeTeardown, Dies, JobRecord, Steps, Unleased, Unmade, Unlisted, Leasing
  <2> QED
    BY <1>19, <2>1 DEF Accept, InvokeTeardown, Dies, Typed, providers, records
<1>20. CASE ReleaseEvent
  <2>1. job' \in JobRecord
    <3>1. \/ job' = Idle \/ GoesTo("r2lab")
          \/ job' = [job EXCEPT !.pc = "delete", !.calendar = evidence.calendar]
      BY <1>20 DEF ReleaseEvent, TeardownFails, PosOutcome
    <3> QED
      BY <3>1 DEF Typed, GoesTo, JobRecord, EvidenceRecord, Steps
  <2>2. outcome' \in Outcomes /\ managed' \in Nat
    BY <1>20 DEF ReleaseEvent, TeardownFails, PosOutcome, ClearManaged, Typed, Outcomes
  <2> QED
    BY <1>20, <2>1, <2>2 DEF ReleaseEvent, Typed, providers
<1>21. CASE DeleteEvent
  <2>1. job' \in JobRecord /\ outcome' = outcome
    BY <1>21 DEF DeleteEvent, TeardownFails, GoesTo, Typed, JobRecord, Steps, Unleased, Unmade, Unlisted, Leasing
  <2> QED
    BY <1>21, <2>1 DEF DeleteEvent, Typed
<1>22. CASE CheckDeleted
  <2>1. job' \in JobRecord
    BY <1>22 DEF CheckDeleted, TeardownFails, PosOutcome, GoesTo, Typed, JobRecord, Steps, Unleased, Unmade, Unlisted, Leasing
  <2>2. outcome' \in Outcomes /\ managed' \in Nat
    BY <1>22 DEF CheckDeleted, TeardownFails, PosOutcome, ClearManaged, Typed, Outcomes
  <2> QED
    BY <1>22, <2>1, <2>2 DEF CheckDeleted, Typed, providers
<1>23. CASE ReleaseLease
  <2>1. job' \in JobRecord /\ outcome' \in Outcomes
    BY <1>23 DEF ReleaseLease, LeaseOutcome, TeardownFails, Typed, Outcomes
  <2>2. leases' \subseteq [id : 1..lastId, ours : BOOLEAN, from : Nat, until : Nat]
    BY <1>23 DEF ReleaseLease, Typed, Without, Recorded, LeasesIn
  <2> QED
    BY <1>23, <2>1, <2>2 DEF ReleaseLease, Typed
<1>24. CASE Tick
  BY <1>24 DEF Tick, Typed, providers, records
<1>25. CASE OthersChangeEvents
  <2>1. /\ lastId' \in Nat /\ lastId <= lastId'
        /\ events' \subseteq [id : 1..lastId', start : Nat, end : Nat]
    BY <1>25 DEF OthersChangeEvents, Typed
  <2> QED
    BY <1>25, <2>1 DEF OthersChangeEvents, Meddle, Typed, records
<1>26. CASE OthersChangeLeases
  <2>1. /\ lastId' \in Nat /\ lastId <= lastId'
        /\ leases' \subseteq [id : 1..lastId', ours : BOOLEAN, from : Nat, until : Nat]
    <3>1. CASE \E l \in leases : leases' = leases \ {l} /\ UNCHANGED lastId
      BY <3>1 DEF Typed
    <3>2. CASE \E l \in leases : Prolong(l, l.until + Grain) /\ UNCHANGED lastId
      BY <3>2, ProlongTyped, LeaseTyped DEF Typed
    <3>3. CASE \E ours \in BOOLEAN, start \in Nat, end \in Nat : Book(ours, start, end)
      BY <3>3, BookTyped
    <3> QED
      BY <1>26, <3>1, <3>2, <3>3, WindowTyped DEF OthersChangeLeases
  <2> QED
    BY <1>26, <2>1 DEF OthersChangeLeases, Meddle, Typed, records
<1>27. CASE UNCHANGED vars
  BY <1>27 DEF vars, Typed, providers, records
<1> QED
  BY <1>1, <1>2, <1>3, <1>4, <1>5, <1>6, <1>7, <1>8, <1>9, <1>10, <1>11, <1>12, <1>13, <1>14,
     <1>15, <1>16, <1>17, <1>18, <1>19, <1>20, <1>21, <1>22, <1>23, <1>24, <1>25, <1>26, <1>27
     DEF Next, Deploy, Teardown

(* ---------------------------- ids and leases ---------------------------- *)
\* Ids are given once; what a run has found grows by what is there.
LEMMA IdsGrow ==
    Typed /\ [Next]_vars =>
        /\ lastId <= lastId'
        /\ ListCalendar \/ QueryLeases \/ evidence'.seen \subseteq evidence.seen
        /\ QueryLeases => evidence'.seen = evidence.seen \cup {l.id : l \in leases}
<1> SUFFICES ASSUME Typed, [Next]_vars
             PROVE  /\ lastId <= lastId'
                    /\ ListCalendar \/ QueryLeases \/ evidence'.seen \subseteq evidence.seen
                    /\ QueryLeases => evidence'.seen = evidence.seen \cup {l.id : l \in leases}
  OBVIOUS
<1>1. lastId <= lastId'
  <2>1. lastId \in Nat /\ (lastId' = lastId \/ lastId' = lastId + 1)
    BY DEF Typed, Next, Deploy, Teardown, vars, providers, records, Invoke, ProviderContext, Prefix,
           CaptureNow, ListCalendar, CreateEvent, ProveEvent, SaveState, WriteCalendar, PrepareHosts,
           Window, QueryLeases, ExtendLease, BookLease, Book, VerifyLease, RecordLease,
           UpdateAuthority, FinishPhase, Accept, InvokeTeardown, ReleaseEvent, DeleteEvent,
           CheckDeleted, ReleaseLease, Tick, OthersChangeEvents, OthersChangeLeases, Meddle, Dies
  <2> QED
    BY <2>1
<1>2. QueryLeases => evidence'.seen = evidence.seen \cup {l.id : l \in leases}
  BY DEF QueryLeases, Typed, EvidenceRecord
<1>3. ASSUME ~ListCalendar, ~QueryLeases PROVE evidence'.seen \subseteq evidence.seen
  <2>1. evidence \in EvidenceRecord
    BY DEF Typed
  <2>2. evidence' = evidence \/ evidence'.seen \in {{}, evidence.seen}
    BY <1>3, <2>1 DEF EvidenceRecord, Next, Deploy, Teardown, vars, records, Invoke,
           NoEvidence, ProviderContext, Prefix, Fail, PhaseStarts, PhaseEnds,
           CaptureNow, CreateEvent, ProveEvent, SaveState, WriteCalendar, PrepareHosts,
           Window, ExtendLease, BookLease, VerifyLease, RecordLease,
           UpdateAuthority, FinishPhase, Accept, InvokeTeardown, ReleaseEvent, DeleteEvent,
           CheckDeleted, ReleaseLease, Tick, OthersChangeEvents, OthersChangeLeases, Meddle, Dies
  <2> QED
    BY <2>2
<1> QED
  BY <1>1, <1>2, <1>3

\* What becomes of a lease: it keeps its name, its owner and its start, and others
\* prolong it only while it lasts.
Continues(l, m) ==
    /\ l.id = m.id /\ l.ours = m.ours /\ l.from = m.from
    /\ l.until = m.until \/ m.until > clock \/ ExtendLease \/ ReleaseLease

LEMMA LeasesContinue ==
    Typed /\ Named /\ [Next]_vars =>
        /\ Named'
        /\ \A l \in leases' : l.id > lastId \/ \E m \in leases : Continues(l, m)
<1> SUFFICES ASSUME Typed, Named, [Next]_vars
             PROVE  /\ Named'
                    /\ \A l \in leases' : l.id > lastId \/ \E m \in leases : Continues(l, m)
  OBVIOUS
<1>1. CASE leases' \subseteq leases
  BY <1>1 DEF Named, Continues
<1>2. ASSUME NEW start \in Nat, NEW end \in Nat, NEW ours \in BOOLEAN, Book(ours, start, end)
      PROVE  /\ Named'
             /\ \A l \in leases' : l.id > lastId \/ \E m \in leases : Continues(l, m)
  <2>1. \A l \in leases : l.id \in Nat /\ l.id <= lastId
    BY LeaseTyped DEF Typed
  <2> DEFINE new == [id |-> lastId + 1, ours |-> ours, from |-> start, until |-> end]
  <2>2. leases' = leases \cup {new} /\ new.id = lastId + 1 /\ lastId \in Nat
    BY <1>2 DEF Book, Typed
  <2> HIDE DEF new
  <2> QED
    BY <2>1, <2>2 DEF Named, Continues
<1>3. ASSUME NEW p \in leases, NEW end \in Nat, Prolong(p, end),
             ExtendLease \/ p.until > clock
      PROVE  /\ Named'
             /\ \A l \in leases' : l.id > lastId \/ \E m \in leases : Continues(l, m)
  <2> DEFINE new == [p EXCEPT !.until = end]
  <2>1. leases' = (leases \ {p}) \cup {new} /\ new.id = p.id /\ new.ours = p.ours /\ new.from = p.from
    BY <1>3 DEF Prolong, Typed
  <2> HIDE DEF new
  <2> QED
    BY <1>3, <2>1 DEF Named, Continues
<1>4. CASE ExtendLease
  <2>1. Demand.end \in Nat
    BY DEF Typed, Demand, JobRecord, LeaseRecord
  <2> QED
    BY <1>1, <1>3, <1>4, <2>1 DEF ExtendLease
<1>5. CASE BookLease
  <2>1. Demand.start \in Nat /\ Demand.end \in Nat
    BY DEF Typed, Demand, JobRecord, LeaseRecord
  <2> QED
    BY <1>1, <1>2, <1>5, <2>1 DEF BookLease
<1>6. CASE ReleaseLease
  <2>1. ASSUME NEW p \in Recorded(evidence.lease), leases' = Without(p)
        PROVE  /\ Named'
               /\ \A l \in leases' : l.id > lastId \/ \E m \in leases : Continues(l, m)
    <3>1. p \in leases
      BY <2>1 DEF Recorded, LeasesIn
    <3> DEFINE cut == [p EXCEPT !.until = clock]
    <3>2. leases' \subseteq (leases \ {p}) \cup {cut}
      BY <2>1 DEF Without
    <3>3. cut.id = p.id /\ cut.ours = p.ours /\ cut.from = p.from
      BY <3>1 DEF Typed
    <3> HIDE DEF cut
    <3> QED
      BY <1>6, <3>1, <3>2, <3>3 DEF Named, Continues, ReleaseLease
  <2> QED
    BY <1>1, <1>6, <2>1 DEF ReleaseLease
<1>7. CASE OthersChangeLeases
  <2>1. \A l \in leases : l.until + Grain \in Nat
    BY LeaseTyped, ReservationAssumption
  <2>2. WindowStart \in Nat /\ WindowStart + Grain \in Nat /\ Grain \in Nat /\ LeaseDuration \in Nat
    BY WindowTyped, ReservationAssumption
  <2>3. CASE \E ours \in BOOLEAN, start \in Nat, end \in Nat : Book(ours, start, end)
    BY <1>2, <2>3
  <2>4. CASE \E l \in leases : l.until > clock /\ Prolong(l, l.until + Grain)
    BY <1>3, <2>1, <2>4
  <2> QED
    BY <1>1, <1>7, <2>2, <2>3, <2>4 DEF OthersChangeLeases
<1>8. ExtendLease \/ BookLease \/ ReleaseLease \/ OthersChangeLeases \/ leases' = leases
  BY DEF Next, Deploy, Teardown, vars, providers, records, Invoke, ProviderContext, Prefix,
         CaptureNow, ListCalendar, CreateEvent, ProveEvent, SaveState, WriteCalendar, PrepareHosts,
         Window, QueryLeases, VerifyLease, RecordLease, UpdateAuthority, FinishPhase, Accept,
         InvokeTeardown, ReleaseEvent, DeleteEvent, CheckDeleted, Tick, OthersChangeEvents, Dies
<1> QED
  BY <1>1, <1>4, <1>5, <1>6, <1>7, <1>8

(* -------------------------- what each step does ------------------------- *)
\* The job stays what it is and goes on at another step; the records of the
\* event and of the lease stay as they are.
OnTo(P) ==
    /\ job'.kind = job.kind /\ job'.pc \in P
    /\ job'.calendar = job.calendar /\ job'.lease = job.lease
SameFiles ==
    /\ evidence'.calendar = evidence.calendar /\ evidence'.lease = evidence.lease
    /\ evidence'.seen = evidence.seen

LEMMA IdleHolds ==
    /\ Idle.kind = "none" /\ Idle.pc = "idle"
    /\ Idle.calendar.status = "none" /\ Idle.lease.status = "none"
  BY DEF Idle, NoCalendar, NoLease

LEMMA GoesOn ==
    ASSUME Typed, NEW p, GoesTo(p)
    PROVE  OnTo({p})
  BY DEF Typed, JobRecord, GoesTo, OnTo

LEMMA FailEnds ==
    ASSUME Typed, NEW why, Fail(why)
    PROVE  SameFiles /\ job' = Idle
  BY DEF Typed, EvidenceRecord, Fail, SameFiles

LEMMA InvokeDoes ==
    ASSUME Invoke
    PROVE  /\ job.kind = "none" /\ job'.kind = "deploy" /\ job'.pc = "provider"
           /\ job'.calendar.status = "none" /\ job'.lease.status = "none"
           /\ evidence'.calendar.status = "none" /\ evidence'.lease.status = "none"
           /\ evidence'.seen = {}
  BY DEF Invoke, Idle, NoEvidence, NoCalendar, NoLease

LEMMA ContextDoes ==
    ASSUME Typed, ProviderContext \/ Prefix
    PROVE  SameFiles /\ (job' = Idle \/ OnTo({"capture", "prefix"}))
<1>0. job \in JobRecord
  BY DEF Typed
<1>1. ASSUME NEW t, job' = [job EXCEPT !.pc = "prefix", !.tries = t]
      PROVE  OnTo({"capture", "prefix"})
  BY <1>0, <1>1 DEF OnTo, JobRecord
<1>2. ASSUME job.pc = "prefix", NEW t, job' = [job EXCEPT !.tries = t]
      PROVE  OnTo({"capture", "prefix"})
  BY <1>0, <1>2 DEF OnTo, JobRecord
<1>3. CASE Fail("other")
  BY <1>3, FailEnds
<1>4. CASE UNCHANGED evidence /\ GoesTo("capture")
  BY <1>4, GoesOn DEF SameFiles, OnTo
<1>5. CASE UNCHANGED evidence /\ \E t : job' = [job EXCEPT !.pc = "prefix", !.tries = t]
  BY <1>1, <1>5 DEF SameFiles
<1>6. CASE UNCHANGED evidence /\ job.pc = "prefix" /\ \E t : job' = [job EXCEPT !.tries = t]
  BY <1>2, <1>6 DEF SameFiles
<1>7. CASE ProviderContext
  BY <1>3, <1>4, <1>5, <1>7 DEF ProviderContext
<1>8. CASE Prefix
  BY <1>3, <1>4, <1>6, <1>8 DEF Prefix, AtStep
<1> QED
  BY <1>7, <1>8

LEMMA CaptureDoes ==
    ASSUME Typed, CaptureNow
    PROVE  /\ SameFiles
           /\ \/ OnTo({"list"})
              \/ /\ job'.kind = job.kind /\ job'.pc = "save" /\ job'.lease = job.lease
                 /\ job'.calendar.status = "disabled"
<1>0. job \in JobRecord
  BY DEF Typed
<1>1. CASE job' = [job EXCEPT !.pc = "save", !.calendar.status = "disabled"]
  <2>1. SameFiles
    BY DEF CaptureNow, SameFiles, records
  <2>2. job.calendar \in CalendarRecord
    BY <1>0 DEF JobRecord
  <2>3. /\ job'.kind = job.kind /\ job'.pc = "save" /\ job'.lease = job.lease
        /\ job'.calendar = [job.calendar EXCEPT !.status = "disabled"]
    BY <1>0, <1>1 DEF JobRecord
  <2> QED
    BY <2>1, <2>2, <2>3 DEF CalendarRecord
<1>2. CASE job' = [job EXCEPT !.pc = "list", !.now = clock]
  BY <1>0, <1>2 DEF CaptureNow, SameFiles, OnTo, JobRecord, records
<1> QED
  BY <1>1, <1>2 DEF CaptureNow

\* An event is claimed or proven.
LEMMA AcquiredDoes ==
    ASSUME Typed, NEW e, NEW status, job' = [job EXCEPT !.pc = "save", !.calendar = Acquired(e, status)]
    PROVE  /\ job'.kind = job.kind /\ job'.pc = "save" /\ job'.lease = job.lease
           /\ job'.calendar.status = status /\ job'.calendar.id = e.id
  BY DEF Typed, JobRecord, Acquired

LEMMA ListDoes ==
    ASSUME Typed, ListCalendar
    PROVE  /\ AtStep("deploy", "list")
           /\ evidence'.calendar = evidence.calendar /\ evidence'.lease = evidence.lease
           /\ \/ job' = Idle \/ OnTo({"create"})
              \/ /\ job'.kind = job.kind /\ job'.pc = "save" /\ job'.lease = job.lease
                 /\ job'.calendar.status \in {"reused", "required-existing"}
<1>1. CASE \E why : Fail(why)
  BY <1>1, FailEnds DEF ListCalendar, SameFiles
<1>2. CASE evidence' = [evidence EXCEPT !.seen = @ \cup {e.id : e \in events}]
  <2>1. evidence'.calendar = evidence.calendar /\ evidence'.lease = evidence.lease
    BY <1>2 DEF Typed, EvidenceRecord
  <2>2. CASE GoesTo("create")
    BY <2>1, <2>2, GoesOn DEF ListCalendar
  <2>3. CASE \E e \in events : job' = [job EXCEPT !.pc = "save", !.calendar = Claimed(e)]
    <3>1. PICK e \in events, status \in {"reused", "required-existing"} :
               job' = [job EXCEPT !.pc = "save", !.calendar = Acquired(e, status)]
      BY <2>3 DEF Claimed
    <3>2. /\ job'.kind = job.kind /\ job'.pc = "save" /\ job'.lease = job.lease
          /\ job'.calendar.status = status
      BY <3>1, AcquiredDoes
    <3> QED
      BY <2>1, <3>2 DEF ListCalendar
  <2> QED
    BY <1>1, <1>2, <2>2, <2>3 DEF ListCalendar, Active, CoveringTo
<1> QED
  BY <1>1, <1>2 DEF ListCalendar

LEMMA CreateDoes ==
    ASSUME Typed, CreateEvent
    PROVE  /\ SameFiles
           /\ \/ job' = Idle
              \/ /\ job'.kind = job.kind /\ job'.pc = "prove" /\ job'.lease = job.lease
                 /\ job'.calendar.status = job.calendar.status
                 /\ job'.calendar.id = lastId + 1 /\ lastId' = lastId + 1
<1>1. CASE Fail("other")
  BY <1>1, FailEnds
<1>2. CASE /\ job' = [job EXCEPT !.pc = "prove", !.calendar.id = lastId + 1]
           /\ lastId' = lastId + 1 /\ UNCHANGED evidence
  BY <1>2 DEF Typed, JobRecord, CalendarRecord, SameFiles
<1> QED
  BY <1>1, <1>2 DEF CreateEvent

LEMMA ProveDoes ==
    ASSUME Typed, ProveEvent
    PROVE  /\ SameFiles
           /\ \/ job' = Idle
              \/ /\ job'.kind = job.kind /\ job'.pc = "save" /\ job'.lease = job.lease
                 /\ job'.calendar.id = job.calendar.id
<1>1. CASE Fail("other")
  BY <1>1, FailEnds
<1>2. ASSUME NEW e \in Proven, UNCHANGED evidence,
             job' = [job EXCEPT !.pc = "save", !.calendar = Acquired(e, "created")]
      PROVE  SameFiles /\ job'.kind = job.kind /\ job'.pc = "save" /\ job'.lease = job.lease
             /\ job'.calendar.id = job.calendar.id
  BY <1>2, AcquiredDoes DEF Proven, SameFiles
<1> QED
  BY <1>1, <1>2 DEF ProveEvent

LEMMA WritingDoes ==
    ASSUME Typed
    PROVE  /\ SaveState => SameFiles /\ OnTo({"evidence"})
           /\ WriteCalendar => /\ OnTo({"prepare"}) /\ evidence'.calendar = job.calendar
                               /\ evidence'.lease = evidence.lease /\ evidence'.seen = evidence.seen
           /\ RecordLease => /\ OnTo({"authority"}) /\ evidence'.lease = job.lease
                             /\ evidence'.calendar = evidence.calendar /\ evidence'.seen = evidence.seen
           /\ UpdateAuthority => SameFiles /\ OnTo({"finish"})
<1>0. evidence \in EvidenceRecord
  BY DEF Typed
<1>1. SaveState => SameFiles /\ OnTo({"evidence"})
  BY GoesOn DEF SaveState, SameFiles
<1>2. WriteCalendar => /\ OnTo({"prepare"}) /\ evidence'.calendar = job.calendar
                       /\ evidence'.lease = evidence.lease /\ evidence'.seen = evidence.seen
  BY <1>0, GoesOn DEF WriteCalendar, EvidenceRecord
<1>3. RecordLease => /\ OnTo({"authority"}) /\ evidence'.lease = job.lease
                     /\ evidence'.calendar = evidence.calendar /\ evidence'.seen = evidence.seen
  BY <1>0, GoesOn DEF RecordLease, EvidenceRecord
<1>4. UpdateAuthority => SameFiles /\ OnTo({"finish"})
  BY <1>0, GoesOn DEF UpdateAuthority, EvidenceRecord, SameFiles
<1> QED
  BY <1>1, <1>2, <1>3, <1>4

LEMMA PrepareDoes ==
    ASSUME Typed, PrepareHosts
    PROVE  SameFiles /\ (job' = Idle \/ OnTo({"accept", "window"}))
<1>1. CASE Fail("other")
  BY <1>1, FailEnds
<1>2. CASE /\ evidence' = [evidence EXCEPT !.status = "ready"]
           /\ GoesTo(IF job.policy.r2lab = "off" THEN "accept" ELSE "window")
  <2>1. SameFiles
    BY <1>2 DEF Typed, EvidenceRecord, SameFiles
  <2> QED
    BY <1>2, <2>1, GoesOn DEF OnTo
<1> QED
  BY <1>1, <1>2 DEF PrepareHosts

LEMMA WindowDoes ==
    ASSUME Typed, Window
    PROVE  /\ SameFiles
           /\ \/ job' = Idle
              \/ /\ job'.kind = job.kind /\ job'.pc = "query" /\ job'.calendar = job.calendar
                 /\ job'.lease.status = job.lease.status /\ job'.lease.start <= clock
<1>1. SameFiles
  BY DEF Typed, EvidenceRecord, SameFiles, Window, PhaseStarts
<1>2. ASSUME job' = [job EXCEPT !.pc = "query", !.lease.start = WindowStart, !.lease.end = WindowEnd]
      PROVE  /\ job'.kind = job.kind /\ job'.pc = "query" /\ job'.calendar = job.calendar
             /\ job'.lease.status = job.lease.status /\ job'.lease.start <= clock
  BY <1>2, WindowTyped DEF Typed, JobRecord, LeaseRecord
<1> QED
  BY <1>1, <1>2 DEF Window

LEMMA FinishDoes ==
    ASSUME Typed, FinishPhase
    PROVE  SameFiles /\ (job' = Idle \/ OnTo({"accept"}))
<1>1. SameFiles
  BY DEF Typed, EvidenceRecord, SameFiles, FinishPhase, PhaseEnds
<1> QED
  BY <1>1, GoesOn DEF FinishPhase

\* The answer to the demand of a lease.
LEMMA GrantedDoes ==
    ASSUME Typed, NEW l, NEW status, job' = Granted(l, status)
    PROVE  /\ job'.kind = job.kind /\ job'.pc = "record" /\ job'.calendar = job.calendar
           /\ job'.lease.status = status /\ job'.lease.id = l.id
  BY DEF Typed, Granted, Demand, JobRecord, LeaseRecord

LEMMA LeaseFailsDoes ==
    ASSUME Typed, LeaseFails
    PROVE  /\ job'.kind = job.kind /\ job'.pc = "record" /\ job'.calendar = job.calendar
           /\ job'.lease.status = "failed"
  BY DEF Typed, LeaseFails, JobRecord, LeaseRecord

LEMMA QueryDoes ==
    ASSUME Typed, QueryLeases
    PROVE  /\ evidence'.calendar = evidence.calendar /\ evidence'.lease = evidence.lease
           /\ evidence'.seen = evidence.seen \cup {l.id : l \in leases}
           /\ job'.kind = job.kind /\ job'.calendar = job.calendar
           /\ \/ job'.pc = "record" /\ job'.lease.status \in {"disabled", "failed", "reused"}
              \/ job'.pc = "book" /\ job'.lease = job.lease /\ Owned = {}
              \/ job'.pc = "extend"
<1>1. /\ evidence'.calendar = evidence.calendar /\ evidence'.lease = evidence.lease
      /\ evidence'.seen = evidence.seen \cup {l.id : l \in leases}
  BY DEF Typed, EvidenceRecord, QueryLeases
<1>2. CASE job' = [job EXCEPT !.pc = "record", !.lease.status = "disabled"]
  BY <1>1, <1>2 DEF Typed, JobRecord, LeaseRecord
<1>3. CASE LeaseFails
  BY <1>1, <1>3, LeaseFailsDoes
<1>4. CASE \E l \in CoveringLeases : job' = Granted(l, "reused")
  BY <1>1, <1>4, GrantedDoes
<1>5. CASE Owned = {} /\ GoesTo("book")
  BY <1>1, <1>5, GoesOn DEF OnTo
<1>6. CASE \E l \in Owned : job' = [job EXCEPT !.pc = "extend", !.lease.id = l.id]
  BY <1>1, <1>6 DEF Typed, JobRecord, LeaseRecord
<1> QED
  BY <1>2, <1>3, <1>4, <1>5, <1>6 DEF QueryLeases

LEMMA ExtendDoes ==
    ASSUME Typed, ExtendLease
    PROVE  /\ SameFiles
           /\ job'.kind = job.kind /\ job'.pc \in {"record", "verify"} /\ job'.calendar = job.calendar
           /\ job'.lease.status \in {"failed", "extended"}
<1>1. SameFiles
  BY DEF ExtendLease, SameFiles, records
<1>2. CASE LeaseFails
  BY <1>1, <1>2, LeaseFailsDoes
<1>3. CASE job' = [job EXCEPT !.pc = "verify", !.lease.status = "extended"]
  BY <1>1, <1>3 DEF Typed, JobRecord, LeaseRecord
<1> QED
  BY <1>2, <1>3 DEF ExtendLease

LEMMA BookDoes ==
    ASSUME Typed, BookLease
    PROVE  /\ SameFiles
           /\ job'.kind = job.kind /\ job'.calendar = job.calendar
           /\ \/ job'.pc = "record" /\ job'.lease.status = "failed"
              \/ /\ job'.pc = "verify"
                 /\ job'.lease.start = job.lease.start /\ job'.lease.end = job.lease.end
<1>1. SameFiles
  BY DEF BookLease, SameFiles, records
<1>2. CASE LeaseFails
  BY <1>1, <1>2, LeaseFailsDoes
<1>3. CASE job' = [job EXCEPT !.pc = "verify", !.lease.status = "booked"]
  BY <1>1, <1>3 DEF Typed, JobRecord, LeaseRecord
<1> QED
  BY <1>2, <1>3 DEF BookLease

LEMMA VerifyDoes ==
    ASSUME Typed, VerifyLease
    PROVE  /\ SameFiles
           /\ job'.kind = job.kind /\ job'.pc = "record" /\ job'.calendar = job.calendar
           /\ \/ job'.lease.status = "failed"
              \/ \E l \in Verified : job'.lease.status = job.lease.status /\ job'.lease.id = l.id
<1>1. SameFiles
  BY DEF VerifyLease, SameFiles, records
<1>2. CASE LeaseFails
  BY <1>1, <1>2, LeaseFailsDoes
<1>3. CASE \E l \in Verified : job' = Granted(l, Demand.status)
  BY <1>1, <1>3, GrantedDoes DEF Demand
<1> QED
  BY <1>2, <1>3 DEF VerifyLease

LEMMA EndingDoes ==
    /\ Accept \/ Dies => SameFiles /\ job' = Idle
    /\ InvokeTeardown => /\ SameFiles /\ job'.kind = "teardown" /\ job'.pc = "pos"
                         /\ job'.calendar.status = "none" /\ job'.lease.status = "none"
<1>1. Accept \/ Dies \/ InvokeTeardown => SameFiles
  BY DEF Accept, Dies, InvokeTeardown, SameFiles, records
<1>2. Accept \/ Dies => job' = Idle
  BY DEF Accept, Dies
<1>3. InvokeTeardown => /\ job'.kind = "teardown" /\ job'.pc = "pos"
                        /\ job'.calendar.status = "none" /\ job'.lease.status = "none"
  BY DEF InvokeTeardown, Idle, NoCalendar, NoLease
<1> QED
  BY <1>1, <1>2, <1>3

LEMMA OthersDo ==
    Tick \/ OthersChangeEvents \/ OthersChangeLeases \/ UNCHANGED vars => SameFiles /\ job' = job
  BY DEF Tick, OthersChangeEvents, OthersChangeLeases, Meddle, vars, records, SameFiles

LEMMA ReleaseEventDoes ==
    ASSUME Typed, ReleaseEvent
    PROVE  /\ SameFiles
           /\ \/ job' = Idle \/ OnTo({"r2lab"})
              \/ /\ job'.kind = job.kind /\ job'.pc = "delete" /\ job'.lease = job.lease
                 /\ job'.calendar = evidence.calendar /\ evidence.calendar.status = "created"
<1>1. SameFiles
  BY DEF ReleaseEvent, SameFiles
<1>2. CASE job' = Idle \/ GoesTo("r2lab")
  BY <1>1, <1>2, GoesOn
<1>3. CASE /\ evidence.calendar.status = "created"
           /\ job' = [job EXCEPT !.pc = "delete", !.calendar = evidence.calendar]
  BY <1>1, <1>3 DEF Typed, JobRecord
<1> QED
  BY <1>2, <1>3 DEF ReleaseEvent, PosOutcome, TeardownFails

LEMMA DeleteDoes ==
    ASSUME Typed, DeleteEvent \/ CheckDeleted \/ ReleaseLease
    PROVE  /\ SameFiles
           /\ \/ job' = Idle
              \/ DeleteEvent /\ OnTo({"check"})
              \/ CheckDeleted /\ OnTo({"r2lab"})
<1>1. SameFiles
  BY DEF DeleteEvent, CheckDeleted, ReleaseLease, SameFiles
<1>2. CASE DeleteEvent
  <2>1. job' = Idle \/ GoesTo("check")
    BY <1>2 DEF DeleteEvent, TeardownFails
  <2> QED
    BY <1>1, <1>2, <2>1, GoesOn
<1>3. CASE CheckDeleted
  <2>1. job' = Idle \/ GoesTo("r2lab")
    BY <1>3 DEF CheckDeleted, TeardownFails, PosOutcome
  <2> QED
    BY <1>1, <1>3, <2>1, GoesOn
<1>4. CASE ReleaseLease
  BY <1>1, <1>4 DEF ReleaseLease, LeaseOutcome, TeardownFails
<1> QED
  BY <1>2, <1>3, <1>4

(* ------------------------- what the run owns --------------------------- *)
\* The step lists no events; it may list leases.
ListsNoEvent == evidence'.seen \subseteq evidence.seen \cup {l.id : l \in leases}

LEMMA SameFilesList == SameFiles => ListsNoEvent /\ evidence'.seen \subseteq evidence.seen
  BY DEF SameFiles, ListsNoEvent

\* An id that the run had not found stays one.
LEMMA NotFoundKept ==
    ASSUME Typed, [Next]_vars, NEW id, NotFound(id), evidence'.seen \subseteq evidence.seen
    PROVE  NotFound(id)'
<1>1. lastId <= lastId' /\ lastId' \in Nat /\ lastId \in Nat
  BY IdsGrow, TypedStep DEF Typed
<1> QED
  BY <1>1 DEF NotFound

LEMMA OwnEventKept ==
    ASSUME Typed, Named, [Next]_vars, NEW id, OwnEvent(id), ListsNoEvent
    PROVE  OwnEvent(id)'
<1>1. lastId <= lastId' /\ lastId' \in Nat /\ lastId \in Nat
  BY IdsGrow, TypedStep DEF Typed
<1>2. id \in 1..lastId' /\ id \notin evidence'.seen
  BY <1>1 DEF OwnEvent, NotFound, ListsNoEvent
<1>3. \A l \in leases' : l.id # id
  BY <1>1, LeasesContinue DEF OwnEvent, NotFound, Continues
<1> QED
  BY <1>2, <1>3 DEF OwnEvent, NotFound

\* Where the records of the event stay as they are, and the job does not come
\* to a step that relies on them.
SameCalendar ==
    /\ job'.kind = job.kind /\ job'.calendar = job.calendar
    /\ \/ job'.pc = job.pc
       \/ job'.pc \notin Unmade \cup {"delete", "check"}
       \/ job.kind = "deploy" /\ job.pc \in Unmade /\ job'.pc \in Unmade \ {"prove"}
    /\ evidence'.calendar = evidence.calendar

LEMMA StepSets ==
    /\ Unmade = {"provider", "prefix", "capture", "list", "create", "prove"}
    /\ Unleased = {"provider", "prefix", "capture", "list", "create", "prove", "save", "evidence",
                   "prepare", "window", "query"}
    /\ Leasing = {"extend", "book", "verify", "record"}
  BY DEF Unmade, Unlisted, Unleased, Leasing

\* What counts as created stays the run's own.
LEMMA CalendarStep == ReservationInv /\ [Next]_vars => CalendarInv'
<1> SUFFICES ASSUME Typed, Named, CalendarInv, [Next]_vars PROVE CalendarInv'
  BY DEF ReservationInv
<1> USE StepSets
<1>1. CASE ListsNoEvent /\ evidence'.calendar = evidence.calendar /\ job' = Idle
  <2>1. OwnEvent(evidence.calendar.id) => OwnEvent(evidence.calendar.id)'
    BY <1>1, OwnEventKept
  <2> QED
    BY <1>1, <2>1, IdleHolds DEF CalendarInv, AtStep
<1>2. CASE ListsNoEvent /\ SameCalendar
  <2>1. /\ OwnEvent(evidence.calendar.id) => OwnEvent(evidence.calendar.id)'
        /\ OwnEvent(job.calendar.id) => OwnEvent(job.calendar.id)'
    BY <1>2, OwnEventKept DEF SameCalendar
  <2> QED
    BY <1>2, <2>1 DEF SameCalendar, CalendarInv, AtStep
<1>3. CASE Invoke
  BY <1>3, InvokeDoes DEF CalendarInv, AtStep
<1>4. CASE SameFiles /\ job' = Idle
  BY <1>1, <1>4, SameFilesList DEF SameFiles
<1>5. CASE SameFiles /\ SameCalendar
  BY <1>2, <1>5, SameFilesList
<1>6. CASE ProviderContext \/ Prefix
  <2>1. OnTo({"capture", "prefix"}) /\ SameFiles => SameCalendar
    BY <1>6 DEF ProviderContext, Prefix, AtStep, OnTo, SameCalendar, SameFiles
  <2> QED
    BY <1>4, <1>5, <1>6, <2>1, ContextDoes
<1>7. CASE CaptureNow
  <2>1. job.kind = "deploy" /\ job.pc = "capture"
    BY <1>7 DEF CaptureNow, AtStep
  <2>2. OnTo({"list"}) /\ SameFiles => SameCalendar
    BY <2>1 DEF OnTo, SameCalendar, SameFiles
  <2>3. CASE /\ SameFiles /\ job'.kind = job.kind /\ job'.pc = "save"
             /\ job'.calendar.status = "disabled"
    BY <2>1, <2>3 DEF CalendarInv, AtStep, SameFiles
  <2> QED
    BY <1>5, <1>7, <2>2, <2>3, CaptureDoes
<1>8. CASE ListCalendar
  <2>1. /\ job.kind = "deploy" /\ job.pc = "list" /\ evidence'.calendar = evidence.calendar
        /\ evidence.calendar.status = "none" /\ job.calendar.status = "none"
    BY <1>8, ListDoes DEF AtStep, CalendarInv
  <2>2. CASE job' = Idle
    BY <2>1, <2>2, IdleHolds DEF CalendarInv, AtStep
  <2>3. CASE OnTo({"create"})
    BY <2>1, <2>3 DEF CalendarInv, AtStep, OnTo
  <2>4. CASE /\ job'.kind = job.kind /\ job'.pc = "save"
             /\ job'.calendar.status \in {"reused", "required-existing"}
    BY <2>1, <2>4 DEF CalendarInv, AtStep
  <2> QED
    BY <1>8, <2>2, <2>3, <2>4, ListDoes
<1>9. CASE CreateEvent
  <2>1. /\ job.kind = "deploy" /\ evidence.calendar.status = "none" /\ job.calendar.status = "none"
        /\ SameFiles
    BY <1>9, CreateDoes DEF CreateEvent, AtStep, CalendarInv
  <2>2. ASSUME /\ job'.kind = job.kind /\ job'.pc = "prove"
               /\ job'.calendar.status = job.calendar.status
               /\ job'.calendar.id = lastId + 1 /\ lastId' = lastId + 1
        PROVE  CalendarInv'
    <3>1. lastId \in Nat /\ evidence.seen \subseteq 1..lastId /\ leases' = leases
      BY <1>9 DEF Typed, CreateEvent
    <3>2. \A l \in leases : l.id # lastId + 1
      BY <3>1, LeaseTyped
    <3>3. evidence'.seen = evidence.seen
      BY <2>1 DEF SameFiles
    <3>4. lastId + 1 \in 1..lastId' /\ lastId + 1 \notin evidence.seen
      BY <2>2, <3>1
    <3>5. NotFound(job.calendar.id)'
      BY <2>2, <3>3, <3>4 DEF NotFound
    <3>6. OwnEvent(job.calendar.id)'
      BY <2>2, <3>1, <3>2, <3>5 DEF OwnEvent
    <3> QED
      BY <2>1, <2>2, <3>6 DEF CalendarInv, AtStep, SameFiles
  <2> QED
    BY <1>4, <1>9, <2>1, <2>2, CreateDoes
<1>10. CASE ProveEvent
  <2>1. /\ job.kind = "deploy" /\ evidence.calendar.status = "none" /\ OwnEvent(job.calendar.id)
        /\ SameFiles
    BY <1>10, ProveDoes DEF ProveEvent, AtStep, CalendarInv
  <2>2. ASSUME job'.kind = job.kind, job'.pc = "save", job'.calendar.id = job.calendar.id
        PROVE  CalendarInv'
    <3>1. OwnEvent(job.calendar.id)'
      BY <2>1, <2>2, OwnEventKept, SameFilesList
    <3> QED
      BY <2>1, <2>2, <3>1 DEF CalendarInv, AtStep, SameFiles
  <2> QED
    BY <1>4, <1>10, <2>1, <2>2, ProveDoes
<1>11. CASE WriteCalendar
  <2>1. /\ OnTo({"prepare"}) /\ evidence'.calendar = job.calendar /\ evidence'.seen = evidence.seen
        /\ job.kind = "deploy"
    BY <1>11, WritingDoes DEF WriteCalendar, AtStep
  <2>2. OwnEvent(job.calendar.id) => OwnEvent(job.calendar.id)'
    BY <2>1, OwnEventKept DEF ListsNoEvent, OnTo
  <2> QED
    BY <2>1, <2>2 DEF CalendarInv, AtStep, OnTo
<1>12. CASE SaveState \/ UpdateAuthority \/ PrepareHosts \/ FinishPhase
  <2>1. SameFiles /\ (job' = Idle \/ OnTo({"evidence", "finish", "accept", "window"}))
    BY <1>12, WritingDoes, PrepareDoes, FinishDoes DEF OnTo
  <2>2. OnTo({"evidence", "finish", "accept", "window"}) /\ SameFiles => SameCalendar
    BY DEF OnTo, SameCalendar, SameFiles
  <2> QED
    BY <1>4, <1>5, <2>1, <2>2
<1>13. CASE Window \/ ExtendLease \/ BookLease \/ VerifyLease
  <2>1. /\ SameFiles
        /\ \/ job' = Idle
           \/ /\ job'.kind = job.kind /\ job'.calendar = job.calendar
              /\ job'.pc \in {"query", "record", "verify"}
    BY <1>13, WindowDoes, ExtendDoes, BookDoes, VerifyDoes
  <2>2. CASE /\ job'.kind = job.kind /\ job'.calendar = job.calendar
             /\ job'.pc \in {"query", "record", "verify"}
    BY <1>5, <2>1, <2>2 DEF SameCalendar, SameFiles
  <2> QED
    BY <1>4, <2>1, <2>2
<1>14. CASE RecordLease \/ QueryLeases
  <2>1. ListsNoEvent /\ SameCalendar
    BY <1>14, WritingDoes, QueryDoes DEF ListsNoEvent, SameCalendar, OnTo
  <2> QED
    BY <1>2, <2>1
<1>15. CASE Accept \/ Dies \/ ReleaseLease
  <2>1. SameFiles /\ job' = Idle
    BY <1>15, EndingDoes, DeleteDoes DEF DeleteEvent, CheckDeleted, ReleaseLease, AtStep
  <2> QED
    BY <1>4, <2>1
<1>16. CASE InvokeTeardown
  <2>1. SameFiles /\ job'.kind = "teardown" /\ job'.pc = "pos" /\ job'.calendar.status = "none"
    BY <1>16, EndingDoes
  <2>2. OwnEvent(evidence.calendar.id) => OwnEvent(evidence.calendar.id)'
    BY <2>1, OwnEventKept, SameFilesList DEF SameFiles
  <2> QED
    BY <2>1, <2>2 DEF CalendarInv, AtStep, SameFiles
<1>17. CASE ReleaseEvent
  <2>1. SameFiles /\ job.kind = "teardown"
    BY <1>17, ReleaseEventDoes DEF ReleaseEvent, AtStep
  <2>2. OnTo({"r2lab"}) => SameCalendar
    BY <2>1 DEF OnTo, SameCalendar, SameFiles
  <2>3. ASSUME /\ job'.kind = job.kind /\ job'.pc = "delete"
               /\ job'.calendar = evidence.calendar /\ evidence.calendar.status = "created"
        PROVE  CalendarInv'
    <3>1. OwnEvent(evidence.calendar.id)'
      BY <2>1, <2>3, OwnEventKept, SameFilesList DEF CalendarInv, SameFiles
    <3> QED
      BY <2>1, <2>3, <3>1 DEF CalendarInv, AtStep, SameFiles
  <2> QED
    BY <1>4, <1>5, <1>17, <2>1, <2>2, <2>3, ReleaseEventDoes
<1>18. CASE DeleteEvent
  <2>1. SameFiles /\ job.kind = "teardown" /\ job.pc = "delete"
    BY <1>18, DeleteDoes DEF DeleteEvent, AtStep
  <2>2. ASSUME OnTo({"check"}) PROVE CalendarInv'
    <3>1. OwnEvent(evidence.calendar.id)'
      BY <2>1, OwnEventKept, SameFilesList DEF CalendarInv, SameFiles
    <3> QED
      BY <2>1, <2>2, <3>1 DEF CalendarInv, AtStep, SameFiles, OnTo
  <2>3. ~CheckDeleted
    BY <2>1 DEF CheckDeleted, AtStep
  <2> QED
    BY <1>4, <1>18, <2>1, <2>2, <2>3, DeleteDoes
<1>19. CASE CheckDeleted
  <2>1. SameFiles /\ job.pc = "check"
    BY <1>19, DeleteDoes DEF CheckDeleted, AtStep
  <2>2. OnTo({"r2lab"}) => SameCalendar
    BY <2>1 DEF OnTo, SameCalendar, SameFiles
  <2>3. ~DeleteEvent
    BY <2>1 DEF DeleteEvent, AtStep
  <2> QED
    BY <1>4, <1>5, <1>19, <2>1, <2>2, <2>3, DeleteDoes
<1>20. CASE Tick \/ OthersChangeEvents \/ OthersChangeLeases \/ UNCHANGED vars
  <2>1. SameFiles /\ SameCalendar
    BY <1>20, OthersDo DEF SameCalendar, SameFiles
  <2> QED
    BY <1>5, <2>1
<1> QED
  BY <1>3, <1>6, <1>7, <1>8, <1>9, <1>10, <1>11, <1>12, <1>13, <1>14, <1>15, <1>16, <1>17, <1>18,
     <1>19, <1>20 DEF Next, Deploy, Teardown

(* ------------------------------- the lease ------------------------------ *)
\* Time does not run backwards.
LEMMA ClockGrows == Typed /\ [Next]_vars => clock <= clock'
<1> SUFFICES ASSUME Typed, [Next]_vars PROVE clock <= clock'
  OBVIOUS
<1>1. clock \in Nat /\ (clock' = clock \/ clock' = clock + 1)
  BY DEF Typed, Next, Deploy, Teardown, vars, providers, records, Invoke, ProviderContext, Prefix,
         CaptureNow, ListCalendar, CreateEvent, ProveEvent, SaveState, WriteCalendar, PrepareHosts,
         Window, QueryLeases, ExtendLease, BookLease, VerifyLease, RecordLease, UpdateAuthority,
         FinishPhase, Accept, InvokeTeardown, ReleaseEvent, DeleteEvent, CheckDeleted,
         ReleaseLease, Tick, OthersChangeEvents, OthersChangeLeases, Meddle, Dies
<1> QED
  BY <1>1

\* Nobody brings a lease that was found into the window: others prolong one
\* only while it lasts, and then it would have been in the window before.
LEMMA WindowStaysNew ==
    ASSUME Typed, Named, [Next]_vars, WindowIsNew,
           job'.lease.start = job.lease.start, job'.lease.end = job.lease.end,
           evidence'.seen \subseteq evidence.seen,
           ~AtStep("deploy", "extend"), ~AtStep("teardown", "r2lab")
    PROVE  WindowIsNew'
<1>1. /\ job.lease.start \in Nat /\ job.lease.end \in Nat /\ clock \in Nat /\ clock' \in Nat
      /\ evidence.seen \subseteq 1..lastId /\ lastId \in Nat
  BY TypedStep DEF Typed, JobRecord, LeaseRecord
<1>2. job'.lease.start <= clock'
  BY <1>1, ClockGrows DEF WindowIsNew
<1>3. ASSUME NEW l \in leases', l.ours, l.id \in evidence'.seen
      PROVE  l.until <= job.lease.start \/ job.lease.end <= l.from
  <2>1. l.id \in evidence.seen /\ ~(l.id > lastId)
    BY <1>1, <1>3
  <2>2. PICK m \in leases : Continues(l, m)
    BY <2>1, LeasesContinue
  <2>3. /\ m.ours /\ m.id \in evidence.seen /\ m.from = l.from
        /\ l.until = m.until \/ m.until > clock
    BY <1>3, <2>1, <2>2 DEF Continues, ExtendLease, ReleaseLease
  <2>4. m.until \in Nat /\ (m.until <= job.lease.start \/ job.lease.end <= m.from)
    BY <2>3, LeaseTyped DEF WindowIsNew
  <2> QED
    BY <1>1, <2>3, <2>4 DEF WindowIsNew
<1> QED
  BY <1>2, <1>3 DEF WindowIsNew

\* What of a step concerns the lease of the job: it goes nowhere that relies on it.
SameLease ==
    /\ job'.kind = job.kind /\ job'.lease = job.lease
    /\ \/ job'.pc = job.pc
       \/ job'.pc \notin Unleased \cup Leasing
       \/ job.kind = "deploy" /\ job.pc \in Unleased /\ job'.pc \in Unleased \ {"query"}

LEMMA LeaseStep == ReservationInv /\ [Next]_vars => LeaseInv'
<1> SUFFICES ASSUME Typed, Named, LeaseInv, [Next]_vars PROVE LeaseInv'
  BY DEF ReservationInv
<1> USE StepSets
<1>1. CASE SameFiles /\ job' = Idle
  <2>1. NotFound(evidence.lease.id) => NotFound(evidence.lease.id)'
    BY <1>1, NotFoundKept, SameFilesList DEF SameFiles
  <2> QED
    BY <1>1, <2>1, IdleHolds DEF LeaseInv, AtStep, SameFiles
<1>2. CASE SameFiles /\ SameLease /\ ~AtStep("deploy", "extend")
  <2>1. /\ NotFound(evidence.lease.id) => NotFound(evidence.lease.id)'
        /\ NotFound(job.lease.id) => NotFound(job.lease.id)'
    BY <1>2, NotFoundKept, SameFilesList DEF SameFiles, SameLease
  <2>2. job.kind = "deploy" /\ WindowIsNew => WindowIsNew'
    BY <1>2, WindowStaysNew, SameFilesList DEF SameLease, AtStep
  <2>3. AtStep("deploy", "query")' => AtStep("deploy", "query")
    BY <1>2 DEF SameLease, AtStep
  <2>4. AtStep("deploy", "query") => (job.lease.start <= clock)'
    <3>1. job.lease.start \in Nat /\ clock \in Nat /\ clock' \in Nat
      BY TypedStep DEF Typed, JobRecord, LeaseRecord
    <3> QED
      BY <1>2, <3>1, ClockGrows DEF LeaseInv, SameLease
  <2> QED
    BY <1>2, <2>1, <2>2, <2>3, <2>4 DEF LeaseInv, AtStep, SameFiles, SameLease
<1>3. CASE Invoke
  BY <1>3, InvokeDoes DEF LeaseInv, AtStep
<1>4. CASE ProviderContext \/ Prefix
  <2>1. OnTo({"capture", "prefix"}) /\ SameFiles => SameLease /\ ~AtStep("deploy", "extend")
    BY <1>4 DEF ProviderContext, Prefix, AtStep, OnTo, SameLease, SameFiles
  <2> QED
    BY <1>1, <1>2, <1>4, <2>1, ContextDoes
<1>5. CASE CaptureNow \/ CreateEvent \/ ProveEvent
  <2>1. /\ job.kind = "deploy" /\ job.pc \in {"capture", "create", "prove"} /\ SameFiles
        /\ \/ job' = Idle
           \/ /\ job'.kind = job.kind /\ job'.pc \in {"list", "save", "prove"}
              /\ job'.lease = job.lease
    BY <1>5, CaptureDoes, CreateDoes, ProveDoes DEF CaptureNow, CreateEvent, ProveEvent, AtStep, OnTo
  <2> QED
    BY <1>1, <1>2, <2>1 DEF SameLease, AtStep
<1>6. CASE ListCalendar
  <2>1. /\ job.kind = "deploy" /\ job.pc = "list" /\ evidence'.lease = evidence.lease
        /\ evidence.lease.status = "none" /\ job.lease.status = "none"
    BY <1>6, ListDoes DEF AtStep, LeaseInv
  <2>2. CASE job' = Idle
    BY <2>1, <2>2, IdleHolds DEF LeaseInv, AtStep
  <2>3. CASE job'.kind = job.kind /\ job'.pc \in {"create", "save"} /\ job'.lease = job.lease
    BY <2>1, <2>3 DEF LeaseInv, AtStep
  <2> QED
    BY <1>6, <2>2, <2>3, ListDoes DEF OnTo
<1>7. CASE SaveState \/ UpdateAuthority \/ PrepareHosts \/ FinishPhase
  <2>1. SameFiles /\ (job' = Idle \/ OnTo({"evidence", "finish", "accept", "window"}))
    BY <1>7, WritingDoes, PrepareDoes, FinishDoes DEF OnTo
  <2>2. job.kind = "deploy" /\ job.pc \in {"save", "authority", "prepare", "finish"}
    BY <1>7 DEF SaveState, UpdateAuthority, PrepareHosts, FinishPhase, AtStep
  <2>3. SaveState \/ PrepareHosts => job.pc \in Unleased
    BY DEF SaveState, PrepareHosts, AtStep
  <2>4. /\ UpdateAuthority => OnTo({"finish"})
        /\ FinishPhase => job' = Idle \/ OnTo({"accept"})
    BY WritingDoes, FinishDoes
  <2>5. job' = Idle \/ SameLease
    BY <1>7, <2>1, <2>2, <2>3, <2>4 DEF OnTo, SameLease
  <2> QED
    BY <1>1, <1>2, <2>1, <2>2, <2>5 DEF AtStep
<1>8. CASE WriteCalendar
  <2>1. /\ OnTo({"prepare"}) /\ evidence'.lease = evidence.lease
        /\ job.kind = "deploy" /\ job.pc = "evidence"
    BY <1>8, WritingDoes DEF WriteCalendar, AtStep
  <2> QED
    BY <2>1 DEF LeaseInv, AtStep, OnTo
<1>9. CASE Window
  <2>1. SameFiles /\ job.kind = "deploy" /\ job.pc = "window"
    BY <1>9, WindowDoes DEF Window, AtStep
  <2>2. ASSUME /\ job'.kind = job.kind /\ job'.pc = "query"
               /\ job'.lease.status = job.lease.status /\ job'.lease.start <= clock
        PROVE  LeaseInv'
    <3>1. job'.lease.start <= clock'
      <4>1. clock' = clock
        BY <1>9 DEF Window
      <4> QED
        BY <2>2, <4>1
    <3> QED
      BY <2>1, <2>2, <3>1 DEF LeaseInv, AtStep, SameFiles
  <2> QED
    BY <1>1, <1>9, <2>1, <2>2, WindowDoes
<1>10. CASE QueryLeases
  <2>1. /\ job.kind = "deploy" /\ job.pc = "query" /\ job'.kind = "deploy"
        /\ evidence.lease.status = "none" /\ evidence'.lease.status = "none"
        /\ job.lease.start <= clock /\ clock' = clock /\ leases' = leases
    BY <1>10, QueryDoes DEF QueryLeases, AtStep, LeaseInv, providers
  <2>2. CASE job'.pc = "record" /\ job'.lease.status \in {"disabled", "failed", "reused"}
    BY <2>1, <2>2 DEF LeaseInv, AtStep
  <2>3. CASE job'.pc = "extend"
    BY <2>1, <2>3 DEF LeaseInv, AtStep
  <2>4. CASE job'.pc = "book" /\ job'.lease = job.lease /\ Owned = {}
    <3>1. ASSUME NEW l \in leases, l.ours
          PROVE  l.until <= job.lease.start \/ job.lease.end <= l.from
      <4>1. ~(l.from < job.lease.end /\ l.until > job.lease.start)
        BY <2>4, <3>1 DEF Owned, LeasesIn, Demand
      <4>2. job.lease.start \in Nat /\ job.lease.end \in Nat /\ l.from \in Nat /\ l.until \in Nat
        BY LeaseTyped DEF Typed, JobRecord, LeaseRecord
      <4> QED
        BY <4>1, <4>2
    <3>2. WindowIsNew'
      BY <2>1, <2>4, <3>1 DEF WindowIsNew
    <3> QED
      BY <2>1, <2>4, <3>2 DEF LeaseInv, AtStep
  <2> QED
    BY <1>10, <2>2, <2>3, <2>4, QueryDoes
<1>11. CASE ExtendLease
  <2>1. /\ job.kind = "deploy" /\ job.pc = "extend" /\ job'.kind = "deploy" /\ SameFiles
        /\ evidence.lease.status = "none"
        /\ job'.pc \in {"record", "verify"} /\ job'.lease.status \in {"failed", "extended"}
    BY <1>11, ExtendDoes DEF ExtendLease, AtStep, LeaseInv
  <2> QED
    BY <2>1 DEF LeaseInv, AtStep, SameFiles
<1>12. CASE BookLease
  <2>1. /\ job.kind = "deploy" /\ job.pc = "book" /\ job'.kind = "deploy" /\ SameFiles
        /\ evidence.lease.status = "none" /\ WindowIsNew
    BY <1>12, BookDoes DEF BookLease, AtStep, LeaseInv
  <2>2. CASE job'.pc = "record" /\ job'.lease.status = "failed"
    BY <2>1, <2>2 DEF LeaseInv, AtStep, SameFiles
  <2>3. CASE /\ job'.pc = "verify"
             /\ job'.lease.start = job.lease.start /\ job'.lease.end = job.lease.end
    <3>1. WindowIsNew'
      BY <2>1, <2>3, WindowStaysNew, SameFilesList DEF AtStep
    <3> QED
      BY <2>1, <2>3, <3>1 DEF LeaseInv, AtStep, SameFiles
  <2> QED
    BY <1>12, <2>2, <2>3, BookDoes
<1>13. CASE VerifyLease
  <2>1. /\ job.kind = "deploy" /\ job.pc = "verify" /\ job'.kind = "deploy" /\ SameFiles
        /\ job'.pc = "record" /\ evidence.lease.status = "none"
        /\ job.lease.status = "booked" => WindowIsNew
    BY <1>13, VerifyDoes DEF VerifyLease, AtStep, LeaseInv
  <2>2. CASE job'.lease.status = "failed"
    BY <2>1, <2>2 DEF LeaseInv, AtStep, SameFiles
  <2>3. ASSUME NEW l \in Verified, job'.lease.status = job.lease.status, job'.lease.id = l.id
        PROVE  LeaseInv'
    <3>1. ASSUME job.lease.status = "booked" PROVE NotFound(job.lease.id)'
      <4>1. /\ l \in leases /\ l.ours
            /\ l.from < job.lease.end /\ l.until > job.lease.start
        BY <2>3 DEF Verified, CoveringLeases, Owned, LeasesIn, Demand
      <4>2. job.lease.start \in Nat /\ job.lease.end \in Nat /\ l.from \in Nat /\ l.until \in Nat
        BY <4>1, LeaseTyped DEF Typed, JobRecord, LeaseRecord
      <4>3. ~(l.until <= job.lease.start \/ job.lease.end <= l.from)
        BY <4>1, <4>2
      <4>4. NotFound(l.id)
        BY <2>1, <3>1, <4>1, <4>3, LeaseTyped DEF WindowIsNew, NotFound
      <4>5. NotFound(l.id)'
        <5>1. lastId <= lastId' /\ lastId \in Nat /\ lastId' \in Nat
          BY IdsGrow, TypedStep DEF Typed
        <5>2. evidence'.seen = evidence.seen
          BY <2>1 DEF SameFiles
        <5>3. l.id \in 1..lastId' /\ l.id \notin evidence'.seen
          BY <4>4, <5>1, <5>2 DEF NotFound
        <5> QED
          BY <2>3, <5>3 DEF NotFound
      <4> QED
        BY <2>3, <4>5 DEF NotFound
    <3> QED
      BY <2>1, <2>3, <3>1 DEF LeaseInv, AtStep, SameFiles
  <2> QED
    BY <1>13, <2>2, <2>3, VerifyDoes
<1>14. CASE RecordLease
  <2>1. /\ OnTo({"authority"}) /\ evidence'.lease = job.lease /\ evidence'.seen = evidence.seen
        /\ job.kind = "deploy" /\ job.pc = "record"
    BY <1>14, WritingDoes DEF RecordLease, AtStep
  <2>2. NotFound(job.lease.id) => NotFound(job.lease.id)'
    BY <2>1, NotFoundKept DEF OnTo
  <2> QED
    BY <2>1, <2>2 DEF LeaseInv, AtStep, OnTo
<1>15. CASE Accept \/ Dies \/ ReleaseLease
  <2>1. SameFiles /\ job' = Idle
    BY <1>15, EndingDoes, DeleteDoes DEF DeleteEvent, CheckDeleted, ReleaseLease, AtStep
  <2> QED
    BY <1>1, <2>1
<1>16. CASE InvokeTeardown
  <2>1. SameFiles /\ job'.kind = "teardown"
    BY <1>16, EndingDoes
  <2>2. NotFound(evidence.lease.id) => NotFound(evidence.lease.id)'
    BY <2>1, NotFoundKept, SameFilesList DEF SameFiles
  <2> QED
    BY <2>1, <2>2 DEF LeaseInv, AtStep, SameFiles
<1>17. CASE ReleaseEvent \/ DeleteEvent \/ CheckDeleted
  <2>1. /\ SameFiles /\ job.kind = "teardown"
        /\ \/ job' = Idle
           \/ job'.kind = job.kind /\ job'.pc \in {"r2lab", "delete", "check"}
    BY <1>17, ReleaseEventDoes, DeleteDoes DEF ReleaseEvent, DeleteEvent, CheckDeleted, AtStep, OnTo
  <2>2. NotFound(evidence.lease.id) => NotFound(evidence.lease.id)'
    BY <2>1, NotFoundKept, SameFilesList DEF SameFiles
  <2> QED
    BY <1>1, <2>1, <2>2 DEF LeaseInv, AtStep, SameFiles
<1>18. CASE Tick \/ OthersChangeEvents \/ OthersChangeLeases \/ UNCHANGED vars
  <2>1. SameFiles /\ job' = job
    BY <1>18, OthersDo
  <2>2. CASE AtStep("deploy", "extend")
    <3>1. evidence.lease.status = "none"
      BY <2>2 DEF LeaseInv, AtStep
    <3> QED
      BY <2>1, <2>2, <3>1 DEF LeaseInv, AtStep, SameFiles
  <2> QED
    BY <1>2, <2>1, <2>2 DEF SameLease
<1> QED
  BY <1>3, <1>4, <1>5, <1>6, <1>7, <1>8, <1>9, <1>10, <1>11, <1>12, <1>13, <1>14, <1>15, <1>16,
     <1>17, <1>18 DEF Next, Deploy, Teardown

(* ---------------------------- what is gone ------------------------------ *)
\* Events do not change, and a new one has a new id.
LEMMA EventsContinue ==
    Typed /\ [Next]_vars => \A e \in events' : e \in events \/ e.id = lastId + 1
<1> SUFFICES ASSUME Typed, [Next]_vars
             PROVE  \A e \in events' : e \in events \/ e.id = lastId + 1
  OBVIOUS
<1>1. CASE CreateEvent
  BY <1>1 DEF CreateEvent
<1>2. CASE OthersChangeEvents
  BY <1>2 DEF OthersChangeEvents
<1>3. CreateEvent \/ OthersChangeEvents \/ events' \subseteq events
  BY DEF Next, Deploy, Teardown, vars, providers, records, Invoke, ProviderContext, Prefix,
         CaptureNow, ListCalendar, ProveEvent, SaveState, WriteCalendar, PrepareHosts,
         Window, QueryLeases, ExtendLease, BookLease, VerifyLease, RecordLease, UpdateAuthority,
         FinishPhase, Accept, InvokeTeardown, ReleaseEvent, DeleteEvent, CheckDeleted,
         ReleaseLease, Tick, OthersChangeLeases, Dies
<1> QED
  BY <1>1, <1>2, <1>3

EventIsGone ==
    /\ \A e \in events : e.id = evidence.calendar.id => e.end <= clock
    /\ managed # evidence.calendar.id
LeaseIsGone == \A l \in leases : l.id = evidence.lease.id => l.until <= clock

\* What is gone does not come back.
LEMMA EventStaysGone ==
    ASSUME Typed, CalendarInv, [Next]_vars, SameFiles, managed' \in {managed, 0},
           evidence.calendar.status = "created", EventIsGone
    PROVE  EventIsGone'
<1>1. evidence.calendar.id \in 1..lastId /\ lastId \in Nat /\ evidence'.calendar = evidence.calendar
  BY DEF CalendarInv, OwnEvent, NotFound, SameFiles, Typed
<1>2. ASSUME NEW e \in events', e.id = evidence.calendar.id PROVE e.end <= clock'
  <2>1. e \in events
    BY <1>1, <1>2, EventsContinue
  <2>2. e.end <= clock /\ e.end \in Nat /\ clock \in Nat /\ clock' \in Nat
    BY <1>2, <2>1, TypedStep DEF EventIsGone, Typed
  <2> QED
    BY <2>2, ClockGrows
<1> QED
  BY <1>1, <1>2 DEF EventIsGone

LEMMA LeaseStaysGone ==
    ASSUME Typed, Named, LeaseInv, [Next]_vars, SameFiles, ~ExtendLease, ~ReleaseLease,
           evidence.lease.status = "booked", LeaseIsGone
    PROVE  LeaseIsGone'
<1>1. evidence.lease.id \in 1..lastId /\ lastId \in Nat /\ evidence'.lease = evidence.lease
  BY DEF LeaseInv, NotFound, SameFiles, Typed
<1>2. ASSUME NEW l \in leases', l.id = evidence.lease.id PROVE l.until <= clock'
  <2>1. PICK m \in leases : Continues(l, m)
    BY <1>1, <1>2, LeasesContinue
  <2>2. m.until <= clock /\ m.until \in Nat /\ clock \in Nat /\ clock' \in Nat
    BY <1>2, <2>1, LeaseTyped, TypedStep DEF LeaseIsGone, Continues, Typed
  <2>3. l.until = m.until
    BY <2>1, <2>2 DEF Continues
  <2> QED
    BY <2>2, <2>3, ClockGrows
<1> QED
  BY <1>1, <1>2 DEF LeaseIsGone

LEMMA GoneStep == ReservationInv /\ [Next]_vars => GoneInv'
<1> SUFFICES ASSUME Typed, Named, CalendarInv, LeaseInv, GoneInv, [Next]_vars PROVE GoneInv'
  BY DEF ReservationInv
<1>0. /\ outcome.pos \in Gone => evidence.calendar.status = "created" /\ EventIsGone
      /\ outcome.r2lab \in Gone => evidence.lease.status = "booked" /\ LeaseIsGone
  BY DEF GoneInv, TornDownIsGone, EventIsGone, LeaseIsGone
<1>1. SUFFICES /\ job'.kind = "deploy" => outcome' = NothingReleased
               /\ outcome'.pos \in Gone => evidence'.calendar.status = "created" /\ EventIsGone'
               /\ outcome'.r2lab \in Gone => evidence'.lease.status = "booked" /\ LeaseIsGone'
  BY DEF GoneInv, TornDownIsGone, EventIsGone, LeaseIsGone
<1>2. CASE outcome' = NothingReleased
  BY <1>2 DEF NothingReleased, Gone
<1>3. CASE /\ SameFiles /\ outcome' = outcome /\ managed' \in {managed, 0}
           /\ job'.kind # "deploy" /\ ~ExtendLease /\ ~ReleaseLease
  <2>1. outcome.pos \in Gone => evidence'.calendar.status = "created" /\ EventIsGone'
    BY <1>0, <1>3, EventStaysGone DEF SameFiles
  <2>2. outcome.r2lab \in Gone => evidence'.lease.status = "booked" /\ LeaseIsGone'
    BY <1>0, <1>3, LeaseStaysGone DEF SameFiles
  <2> QED
    BY <1>3, <2>1, <2>2
<1>4. CASE Invoke
  BY <1>2, <1>4 DEF Invoke
<1>5. CASE Deploy
  <2>1. job.kind = "deploy" /\ outcome' = outcome
    BY <1>5 DEF Deploy, AtStep, records, ProviderContext, Prefix, CaptureNow, ListCalendar,
           CreateEvent, ProveEvent, SaveState, WriteCalendar, PrepareHosts, Window, QueryLeases,
           ExtendLease, BookLease, VerifyLease, RecordLease, UpdateAuthority, FinishPhase, Accept
  <2> QED
    BY <1>2, <2>1 DEF GoneInv
<1>6. CASE InvokeTeardown \/ Dies
  <2>1. SameFiles /\ outcome' = outcome /\ managed' = managed /\ leases' = leases
        /\ job'.kind # "deploy"
    BY <1>6, EndingDoes, IdleHolds DEF InvokeTeardown, Dies, records, providers
  <2>2. CASE job.kind = "deploy"
    BY <1>2, <2>1, <2>2 DEF GoneInv
  <2>3. CASE AtStep("teardown", "r2lab") \/ job.kind # "deploy"
    <3>1. LeaseIsGone => LeaseIsGone'
      <4>1. clock' = clock /\ evidence' = evidence
        BY <1>6 DEF InvokeTeardown, Dies, records
      <4> QED
        BY <2>1, <4>1 DEF LeaseIsGone
    <3>2. outcome.pos \in Gone => evidence'.calendar.status = "created" /\ EventIsGone'
      BY <1>0, <2>1, EventStaysGone DEF SameFiles
    <3> QED
      BY <1>0, <2>1, <3>1, <3>2 DEF SameFiles
  <2> QED
    BY <2>2, <2>3
<1>7. CASE ReleaseEvent
  <2>1. /\ SameFiles /\ clock' = clock /\ events' = events /\ leases' = leases
        /\ job'.kind # "deploy"
    <3>1. job'.kind = job.kind \/ job' = Idle
      BY <1>7, ReleaseEventDoes DEF OnTo
    <3> QED
      BY <1>7, <3>1, ReleaseEventDoes, IdleHolds DEF ReleaseEvent, AtStep, providers
  <2>2. outcome.r2lab \in Gone => evidence'.lease.status = "booked" /\ LeaseIsGone'
    BY <1>0, <2>1 DEF SameFiles, LeaseIsGone
  <2>3. CASE outcome' = outcome /\ managed' = managed
    BY <1>0, <2>1, <2>2, <2>3 DEF SameFiles, EventIsGone
  <2>4. CASE PosOutcome("preserved")
    BY <2>1, <2>2, <2>4 DEF PosOutcome, Typed, Outcomes, Gone
  <2>5. CASE /\ evidence.calendar.status = "created"
             /\ {e \in events : e.id = evidence.calendar.id /\ clock < e.end} = {}
             /\ PosOutcome("already-absent") /\ ClearManaged(evidence.calendar.id)
    <3>1. outcome'.r2lab = outcome.r2lab
      BY <2>5 DEF PosOutcome, Typed, Outcomes
    <3>2. \A e \in events : e.id = evidence.calendar.id => e.end <= clock
      <4>1. \A e \in events : e.end \in Nat /\ clock \in Nat
        BY DEF Typed
      <4> QED
        BY <2>5, <4>1
    <3>3. managed' # evidence.calendar.id
      <4>1. evidence.calendar.id # 0
        BY <2>5 DEF CalendarInv, OwnEvent, NotFound, Typed
      <4> QED
        BY <2>5, <4>1 DEF ClearManaged
    <3> QED
      BY <2>1, <2>2, <2>5, <3>1, <3>2, <3>3 DEF SameFiles, EventIsGone
  <2> QED
    BY <1>7, <2>3, <2>4, <2>5 DEF ReleaseEvent, TeardownFails
<1>8. CASE DeleteEvent
  <2>1. SameFiles /\ outcome' = outcome /\ managed' = managed /\ job.kind = "teardown" /\ job.pc = "delete"
    BY <1>8, DeleteDoes DEF DeleteEvent, AtStep, TeardownFails
  <2>2. job'.kind # "deploy" /\ ~ExtendLease /\ ~ReleaseLease
    BY <1>8, <2>1, DeleteDoes, IdleHolds DEF OnTo, ExtendLease, ReleaseLease, AtStep
  <2> QED
    BY <1>3, <2>1, <2>2
<1>9. CASE CheckDeleted
  <2>1. /\ SameFiles /\ job.kind = "teardown" /\ job.pc = "check"
        /\ clock' = clock /\ events' = events /\ leases' = leases
        /\ job.calendar = evidence.calendar /\ evidence.calendar.status = "created"
    BY <1>9, DeleteDoes DEF CheckDeleted, AtStep, providers, CalendarInv
  <2>2. job'.kind # "deploy"
    BY <1>9, <2>1, DeleteDoes, IdleHolds DEF OnTo
  <2>3. outcome.r2lab \in Gone => evidence'.lease.status = "booked" /\ LeaseIsGone'
    BY <1>0, <2>1 DEF SameFiles, LeaseIsGone
  <2>4. CASE outcome' = outcome /\ managed' = managed
    BY <1>0, <2>1, <2>2, <2>3, <2>4 DEF SameFiles, EventIsGone
  <2>5. CASE /\ \A e \in events : e.id # job.calendar.id
             /\ PosOutcome("released") /\ ClearManaged(job.calendar.id)
    <3>1. outcome'.r2lab = outcome.r2lab
      BY <2>5 DEF PosOutcome, Typed, Outcomes
    <3>2. managed' # evidence.calendar.id
      <4>1. evidence.calendar.id # 0
        BY <2>1 DEF CalendarInv, OwnEvent, NotFound, Typed
      <4> QED
        BY <2>1, <2>5, <4>1 DEF ClearManaged
    <3> QED
      BY <2>1, <2>2, <2>3, <2>5, <3>1, <3>2 DEF SameFiles, EventIsGone
  <2> QED
    BY <1>9, <2>4, <2>5 DEF CheckDeleted, TeardownFails
<1>10. CASE ReleaseLease
  <2>1. /\ SameFiles /\ job' = Idle /\ clock' = clock /\ events' = events /\ managed' = managed
    BY <1>10, DeleteDoes DEF ReleaseLease, AtStep, DeleteEvent, CheckDeleted
  <2>2. outcome'.pos = outcome.pos
    BY <1>10 DEF ReleaseLease, LeaseOutcome, TeardownFails, Typed, Outcomes
  <2>3. outcome'.pos \in Gone => evidence'.calendar.status = "created" /\ EventIsGone'
    BY <1>0, <2>1, <2>2 DEF SameFiles, EventIsGone
  <2>4. CASE leases' = leases /\ outcome' = outcome
    BY <1>0, <2>1, <2>3, <2>4, IdleHolds DEF SameFiles, LeaseIsGone
  <2>5. CASE outcome'.r2lab \in {"skipped", "preserved"}
    BY <2>1, <2>3, <2>5, IdleHolds DEF Gone
  <2>6. ASSUME NEW p \in Recorded(evidence.lease)
        PROVE  p \in leases /\ p.id = evidence.lease.id
               /\ \A l \in leases : l.id = evidence.lease.id => l = p
    BY <2>6 DEF Recorded, LeasesIn, Named
  <2>7. ASSUME NEW p \in Recorded(evidence.lease), p.until <= clock, leases' = leases,
               evidence.lease.status = "booked"
        PROVE  evidence'.lease.status = "booked" /\ LeaseIsGone'
    BY <2>1, <2>6, <2>7 DEF SameFiles, LeaseIsGone
  <2>8. ASSUME NEW p \in Recorded(evidence.lease), leases' = Without(p),
               evidence.lease.status = "booked"
        PROVE  evidence'.lease.status = "booked" /\ LeaseIsGone'
    <3> DEFINE cut == [p EXCEPT !.until = clock]
    <3>1. leases' \subseteq (leases \ {p}) \cup {cut}
      BY <2>8 DEF Without
    <3>2. cut.until = clock /\ clock \in Nat
      BY <2>6 DEF Typed
    <3> HIDE DEF cut
    <3> QED
      BY <2>1, <2>6, <2>8, <3>1, <3>2 DEF SameFiles, LeaseIsGone
  <2>9. CASE LeaseOutcome("preserved") \/ LeaseOutcome("skipped")
    BY <2>5, <2>9 DEF LeaseOutcome, Typed, Outcomes
  <2> QED
    BY <1>10, <2>1, <2>3, <2>4, <2>7, <2>8, <2>9, IdleHolds DEF ReleaseLease, TeardownFails
<1>11. CASE Tick \/ OthersChangeEvents \/ OthersChangeLeases \/ UNCHANGED vars
  <2>1. SameFiles /\ job' = job /\ outcome' = outcome /\ managed' = managed
    BY <1>11, OthersDo DEF Tick, OthersChangeEvents, OthersChangeLeases, Meddle, vars, records
  <2>2. CASE job.kind = "deploy"
    BY <1>2, <2>1, <2>2 DEF GoneInv
  <2>3. CASE job.kind # "deploy"
    <3>1. ~ExtendLease
      BY <2>3 DEF ExtendLease, AtStep
    <3>2. CASE ReleaseLease
      <4>1. job # Idle /\ job' = Idle
        BY <3>2, DeleteDoes, IdleHolds DEF ReleaseLease, AtStep, DeleteEvent, CheckDeleted
      <4> QED
        BY <2>1, <4>1
    <3> QED
      BY <1>3, <2>1, <2>3, <3>1, <3>2
  <2> QED
    BY <2>2, <2>3
<1> QED
  BY <1>4, <1>5, <1>6, <1>7, <1>8, <1>9, <1>10, <1>11 DEF Next, Teardown

(* ------------------------------- theorems ------------------------------- *)
\* The invariant: what a run counts as its own was not there before it asked,
\* neither the event it created (CalendarInv) nor the lease it booked
\* (LeaseInv, by way of a window in which nothing was found), and what its
\* teardown reports gone stays gone (GoneInv).
THEOREM ReservationInvariant == Spec => []ReservationInv
<1>1. Init => ReservationInv
  <2> SUFFICES ASSUME Init PROVE ReservationInv
    OBVIOUS
  <2>1. Typed
    <3>1. NoCalendar \in CalendarRecord /\ NoLease \in LeaseRecord
      BY DEF NoCalendar, NoLease, CalendarRecord, LeaseRecord
    <3>2. NoEvidence \in EvidenceRecord /\ NoEvidence.seen = {}
      BY <3>1 DEF NoEvidence, EvidenceRecord
    <3>3. Idle \in JobRecord
      BY <3>1, StepNames DEF Idle, JobRecord, NoPolicy, PolicySet, Modes, LeaseModes
    <3>4. NothingReleased \in Outcomes /\ 0 \in 0..NumRuns
      BY ReservationAssumption DEF NothingReleased, Outcomes
    <3> QED
      BY <3>2, <3>3, <3>4 DEF Init, Typed
  <2>2. Named /\ CalendarInv /\ LeaseInv /\ GoneInv
    BY IdleHolds DEF Init, Named, CalendarInv, LeaseInv, GoneInv, TornDownIsGone, NoEvidence,
       NoCalendar, NoLease, NothingReleased, Gone, AtStep
  <2> QED
    BY <2>1, <2>2 DEF ReservationInv
<1>2. ReservationInv /\ [Next]_vars => ReservationInv'
  BY TypedStep, LeasesContinue, CalendarStep, LeaseStep, GoneStep DEF ReservationInv
<1> QED
  BY <1>1, <1>2, PTL DEF Spec

\* What a teardown reports as released or absent is gone until the next deployment.
THEOREM TornDownStaysGone == Spec => []TornDownIsGone
<1>1. ReservationInv => TornDownIsGone
  BY DEF ReservationInv, GoneInv
<1> QED
  BY <1>1, ReservationInvariant, PTL

\* A teardown takes away nothing that its run had found, nor a lease that is no
\* longer the recorded one.
THEOREM TeardownIsSparing == Spec => TeardownSparesOthers
<1> DEFINE Spares ==
        job.kind = "teardown" /\ job' # job =>
            /\ \A e \in events \ events' : e.id \notin evidence.seen
            /\ \A l \in leases \ leases' :
                  /\ l.id \notin evidence.seen
                  /\ l.from = evidence.lease.from
                  /\ l.until = evidence.lease.until
<1>1. ReservationInv /\ [Next]_vars => [Spares]_vars
  <2> SUFFICES ASSUME ReservationInv, [Next]_vars, job.kind = "teardown", job' # job
               PROVE  /\ \A e \in events \ events' : e.id \notin evidence.seen
                      /\ \A l \in leases \ leases' :
                            /\ l.id \notin evidence.seen
                            /\ l.from = evidence.lease.from
                            /\ l.until = evidence.lease.until
    OBVIOUS
  <2>1. CASE DeleteEvent
    <3>1. leases' = leases /\ (events' = events \/ events' = {e \in events : e.id # job.calendar.id})
      BY <2>1 DEF DeleteEvent
    <3>2. job.calendar = evidence.calendar /\ evidence.calendar.id \notin evidence.seen
      BY <2>1 DEF DeleteEvent, AtStep, ReservationInv, CalendarInv, OwnEvent, NotFound
    <3> QED
      BY <3>1, <3>2
  <2>2. CASE ReleaseLease
    <3>1. events' = events
      BY <2>2 DEF ReleaseLease
    <3>2. ASSUME NEW p \in Recorded(evidence.lease), evidence.lease.status = "booked",
                 leases' = Without(p)
          PROVE  \A l \in leases \ leases' :
                    /\ l.id \notin evidence.seen
                    /\ l.from = evidence.lease.from /\ l.until = evidence.lease.until
      <4>1. p.id = evidence.lease.id /\ p.from = evidence.lease.from /\ p.until = evidence.lease.until
        BY DEF Recorded
      <4>2. evidence.lease.id \notin evidence.seen
        BY <3>2 DEF ReservationInv, LeaseInv, NotFound
      <4>3. leases \ leases' \subseteq {p}
        BY <3>2 DEF Without
      <4> QED
        BY <4>1, <4>2, <4>3
    <3> QED
      BY <2>2, <3>1, <3>2 DEF ReleaseLease
  <2>3. DeleteEvent \/ ReleaseLease \/ (events' = events /\ leases' = leases)
    <3>1. job # Idle
      BY IdleHolds
    <3>2. InvokeTeardown \/ Teardown \/ Dies
      BY <3>1 DEF Next, Deploy, AtStep, vars, Invoke, ProviderContext, Prefix, CaptureNow,
             ListCalendar, CreateEvent, ProveEvent, SaveState, WriteCalendar, PrepareHosts, Window,
             QueryLeases, ExtendLease, BookLease, VerifyLease, RecordLease, UpdateAuthority,
             FinishPhase, Accept, Tick, OthersChangeEvents, OthersChangeLeases, Meddle
    <3> QED
      BY <3>2 DEF InvokeTeardown, Teardown, Dies, ReleaseEvent, CheckDeleted, providers
  <2> QED
    BY <2>1, <2>2, <2>3
<1> QED
  BY <1>1, ReservationInvariant, PTL DEF Spec, TeardownSparesOthers

(* ----------------------- what the evidence covers ----------------------- *)
EventHeld == {"created", "reused", "required-existing"}
LeaseHeld == {"booked", "reused", "extended"}

AfterCalendar == {"prepare", "window", "query", "extend", "book", "verify", "record", "authority",
                  "finish", "accept"}
Windowed == {"query", "extend", "book", "verify", "record", "authority", "finish"}
Answered == {"record", "authority", "finish", "accept"}

\* What a run whose testbed may be accepted has written.
Whole ==
    /\ evidence.status = "ready" /\ evidence.r2lab = evidence.lease
    /\ evidence.calendar.status # "none" /\ evidence.timing \in {"none", "success"}

\* The files follow the job, and nothing is accepted before they are whole.
ChainInv ==
    /\ accepted \in {"none", "accepted", "stopping"}
    /\ job.kind = "teardown" => accepted = "stopping"
    /\ accepted # "none" => Whole
    /\ job.kind = "deploy" =>
          /\ accepted = "none"
          /\ job.pc \in {"save", "evidence"} => job.calendar.status # "none"
          /\ job.pc \in AfterCalendar =>
                evidence.calendar = job.calendar /\ job.calendar.status # "none"
          /\ job.pc \in Unmade \cup {"save", "evidence", "prepare"} =>
                evidence.r2lab = evidence.lease /\ evidence.timing = "none"
          /\ job.pc = "authority" => evidence.lease = job.lease
          /\ job.pc = "finish" =>
                /\ evidence.lease = job.lease /\ evidence.r2lab = job.lease
                /\ job.lease.status # "failed" => evidence.status = "ready"
          /\ job.pc = "accept" => Whole

CalendarCovers(c) == c.status \in EventHeld => c.end >= c.due

LeaseCovers(l, c) ==
    l.status \in LeaseHeld =>
        /\ l.start < l.end /\ l.from <= l.start /\ l.end <= l.until
        /\ c.status # "disabled" => l.end <= c.end

\* Of the records of the job and of the files.
CoverInv ==
    /\ CalendarCovers(evidence.calendar)
    /\ LeaseCovers(evidence.lease, evidence.calendar)
    /\ job.kind = "deploy" =>
          /\ CalendarCovers(job.calendar)
          /\ job.pc \in Windowed =>
                /\ job.lease.start < job.lease.end /\ job.lease.start <= clock
                /\ job.calendar.status # "disabled" => job.lease.end <= job.calendar.end
          /\ job.pc \in Answered => LeaseCovers(job.lease, job.calendar)

\* As long as nobody else changes them, what was recorded is what is there.
EventStands(c, E, t) ==
    c.status \in EventHeld => \E e \in E : e.end = c.end /\ e.start <= t
LeaseStands(l, L, t) ==
    l.status \in LeaseHeld => \E m \in L : m.ours /\ m.until = l.until /\ m.from <= t

StandsInv ==
    meddling = 0 =>
        /\ job.kind = "deploy" =>
              /\ EventStands(job.calendar, events, clock)
              /\ job.pc \in Answered => LeaseStands(job.lease, leases, clock)
        /\ job.kind = "deploy" \/ accepted = "accepted" =>
              /\ EventStands(evidence.calendar, events, clock)
              /\ LeaseStands(evidence.lease, leases, clock)

\* The bounds of an instance: a run asks for two ids at most, and a lease ends
\* at the latest when the last window or the last change of others allows.
Asks ==
    IF job.kind # "deploy" THEN 0
    ELSE IF job.pc \in {"provider", "prefix", "capture", "list", "create"} THEN 2
    ELSE IF job.pc \in {"prove", "save", "evidence", "prepare", "window", "query", "extend", "book"}
         THEN 1 ELSE 0

EventTop == MaxTime + Duration
LeaseTop == MaxTime + LeaseDuration + (meddling + 1) * Grain

CalendarBounded(c, last) == c.id <= last /\ c.end <= EventTop /\ c.due <= EventTop
LeaseBounded(l, last, top) ==
    /\ l.id <= last /\ l.from <= top /\ l.until <= top /\ l.start <= top /\ l.end <= top

BoundInv ==
    /\ clock <= MaxTime /\ meddling \in 0..MaxMeddling
    /\ lastId + Asks <= 2 * run + meddling
    /\ managed <= lastId /\ job.now <= clock
    /\ job.tries <= PrefixAfterCreate + PrefixExisting
    /\ \A e \in events : e.start <= clock /\ e.end <= EventTop
    /\ \A l \in leases : l.from <= LeaseTop /\ l.until <= LeaseTop
    /\ CalendarBounded(job.calendar, lastId) /\ LeaseBounded(job.lease, lastId, LeaseTop)
    /\ CalendarBounded(evidence.calendar, lastId)
    /\ LeaseBounded(evidence.lease, lastId, LeaseTop)
    /\ LeaseBounded(evidence.r2lab, lastId, LeaseTop)

EvidenceInv == ChainInv /\ CoverInv /\ StandsInv /\ BoundInv

(* ----------------- what each step does to all the records ----------------- *)
SameRecords ==
    /\ evidence'.calendar = evidence.calendar /\ evidence'.lease = evidence.lease
    /\ evidence'.r2lab = evidence.r2lab /\ evidence'.timing = evidence.timing
SameEvidence == SameRecords /\ evidence'.status = evidence.status

\* A step of the deployment at pc, which leaves to the others what is theirs.
Deploys(pc) ==
    /\ AtStep("deploy", pc) /\ clock' = clock /\ meddling' = meddling /\ run' = run
Asking   == UNCHANGED <<events, leases, lastId>>
Deciding == UNCHANGED <<managed, accepted>>

\* The job goes on at one of the steps P with the records it has.
JobKeeps == job'.now = job.now /\ job'.tries = job.tries
Onward(P) ==
    /\ job'.kind = "deploy" /\ job'.pc \in P /\ JobKeeps
    /\ job'.calendar = job.calendar /\ job'.lease = job.lease

\* It has an event that covers its demand.
Acquires(e, status) ==
    /\ job'.kind = "deploy" /\ job'.pc = "save" /\ JobKeeps /\ job'.lease = job.lease
    /\ e \in events /\ e.start <= job.now /\ e.end >= job.now + Duration
    /\ job'.calendar.status = status /\ job'.calendar.id = e.id
    /\ job'.calendar.end = e.end /\ job'.calendar.due = job.now + Duration

\* The demand stays, and so does what the provider has said of it.
SameDemand == job'.lease.start = job.lease.start /\ job'.lease.end = job.lease.end
SameAnswer ==
    /\ job'.lease.id = job.lease.id
    /\ job'.lease.from = job.lease.from /\ job'.lease.until = job.lease.until
Demands(pc) ==
    /\ job'.kind = "deploy" /\ job'.pc = pc /\ JobKeeps /\ job'.calendar = job.calendar
    /\ SameDemand
Grants(l, status) ==
    /\ Demands("record") /\ l \in leases /\ l.ours
    /\ l.from <= job.lease.start /\ l.until >= job.lease.end
    /\ job'.lease.status = status /\ job'.lease.id = l.id
    /\ job'.lease.from = l.from /\ job'.lease.until = l.until
Refuses == Demands("record") /\ SameAnswer /\ job'.lease.status \in {"disabled", "failed"}

LEMMA OnwardBy ==
    ASSUME Typed, job.kind = "deploy", NEW p, GoesTo(p)
    PROVE  Onward({p})
  BY DEF Typed, JobRecord, GoesTo, Onward, JobKeeps

LEMMA FailRecords ==
    ASSUME Typed, NEW why, Fail(why)
    PROVE  SameRecords /\ job' = Idle
  BY DEF Typed, EvidenceRecord, Fail, SameRecords

LEMMA SameIfUnchanged == UNCHANGED evidence => SameEvidence
  BY DEF SameEvidence, SameRecords

LEMMA AcquiresBy ==
    ASSUME Typed, job.kind = "deploy", NEW e \in CoveringTo(job.now + Duration), NEW status,
           job' = [job EXCEPT !.pc = "save", !.calendar = Acquired(e, status)]
    PROVE  Acquires(e, status)
  BY DEF Typed, JobRecord, Acquired, Acquires, JobKeeps, CoveringTo, Active

LEMMA GrantsBy ==
    ASSUME Typed, job.kind = "deploy", NEW l \in CoveringLeases, NEW status,
           job' = Granted(l, status)
    PROVE  Grants(l, status)
<1>1. l \in leases /\ l.ours /\ l.from <= job.lease.start /\ l.until >= job.lease.end
  BY DEF CoveringLeases, Owned, LeasesIn, Demand
<1> DEFINE new == [job.lease EXCEPT !.status = status, !.id = l.id,
                                    !.from = l.from, !.until = l.until]
<1>2. job \in JobRecord /\ job.lease \in LeaseRecord
  BY DEF Typed, JobRecord
<1>3. /\ new.status = status /\ new.id = l.id /\ new.from = l.from /\ new.until = l.until
      /\ new.start = job.lease.start /\ new.end = job.lease.end
  BY <1>2 DEF LeaseRecord
<1>4. job' = [job EXCEPT !.pc = "record", !.lease = new]
  BY DEF Granted, Demand
<1> HIDE DEF new
<1>5. /\ job'.kind = "deploy" /\ job'.pc = "record" /\ JobKeeps /\ job'.calendar = job.calendar
      /\ job'.lease = new
  BY <1>2, <1>4 DEF JobRecord, JobKeeps
<1> QED
  BY <1>1, <1>3, <1>5 DEF Grants, Demands, SameDemand

LEMMA RefusesBy ==
    ASSUME Typed, job.kind = "deploy", NEW status \in {"disabled", "failed"},
           job' = [job EXCEPT !.pc = "record", !.lease.status = status]
    PROVE  Refuses
<1>1. /\ job' = [job EXCEPT !.pc = "record", !.lease = [job.lease EXCEPT !.status = status]]
      /\ job \in JobRecord /\ job.lease \in LeaseRecord
  BY DEF Typed, JobRecord
<1> QED
  BY <1>1 DEF Refuses, Demands, JobKeeps, SameDemand, SameAnswer, JobRecord, LeaseRecord

LEMMA InvokeEffect ==
    ASSUME Invoke
    PROVE  /\ job = Idle /\ UNCHANGED <<clock, meddling, managed>> /\ Asking
           /\ run < NumRuns /\ run' = run + 1 /\ accepted' = "none"
           /\ job'.kind = "deploy" /\ job'.pc = "provider" /\ job'.now = 0 /\ job'.tries = 0
           /\ job'.calendar = NoCalendar /\ job'.lease = NoLease
           /\ evidence'.status = "preparing" /\ evidence'.calendar = NoCalendar
           /\ evidence'.lease = NoLease /\ evidence'.r2lab = NoLease /\ evidence'.timing = "none"
  BY DEF Invoke, Idle, NoEvidence, Asking, providers

LEMMA ContextEffect ==
    ASSUME Typed, ProviderContext \/ Prefix
    PROVE  /\ Deploys(job.pc) /\ job.pc \in {"provider", "prefix"}
           /\ Asking /\ Deciding /\ SameRecords
           /\ \/ job' = Idle
              \/ /\ SameEvidence /\ job'.kind = "deploy" /\ job'.pc \in {"capture", "prefix"}
                 /\ job'.tries \in {job.tries, job.tries - 1, PrefixExisting, PrefixAfterCreate}
                 /\ job'.now = job.now /\ job'.calendar = job.calendar /\ job'.lease = job.lease
                 /\ job'.tries \in Nat
<1> DEFINE Goes ==
        /\ job'.kind = "deploy" /\ job'.pc \in {"capture", "prefix"}
        /\ job'.tries \in {job.tries, job.tries - 1, PrefixExisting, PrefixAfterCreate}
        /\ job'.now = job.now /\ job'.calendar = job.calendar /\ job'.lease = job.lease
        /\ job'.tries \in Nat
<1>1. /\ Deploys(job.pc) /\ job.pc \in {"provider", "prefix"} /\ Asking /\ Deciding
  BY DEF ProviderContext, Prefix, Deploys, AtStep, Asking, Deciding, providers
<1>2. Fail("other") => SameRecords /\ job' = Idle
  BY FailRecords
<1>3. GoesTo("capture") => Goes
  BY <1>1, OnwardBy DEF Onward, JobKeeps, Deploys, AtStep, Typed, JobRecord
<1>4. ASSUME NEW t \in {PrefixExisting, PrefixAfterCreate},
             job' = [job EXCEPT !.pc = "prefix", !.tries = t]
      PROVE  Goes
  BY <1>1, <1>4, ReservationAssumption DEF Deploys, AtStep, Typed, JobRecord
<1>5. ASSUME Prefix, job.tries > 1, job' = [job EXCEPT !.tries = @ - 1]
      PROVE  Goes
  BY <1>1, <1>5 DEF Deploys, AtStep, Typed, JobRecord, Prefix
<1>6. CASE ProviderContext
  BY <1>1, <1>2, <1>3, <1>4, <1>6, SameIfUnchanged DEF ProviderContext, SameEvidence
<1>7. CASE Prefix
  BY <1>1, <1>2, <1>3, <1>5, <1>7, SameIfUnchanged DEF Prefix, SameEvidence
<1> QED
  BY <1>6, <1>7

LEMMA CaptureEffect ==
    ASSUME Typed, CaptureNow
    PROVE  /\ Deploys("capture") /\ Asking /\ Deciding /\ SameEvidence
           /\ job'.kind = "deploy" /\ job'.tries = job.tries /\ job'.lease = job.lease
           /\ \/ /\ job'.pc = "save" /\ job'.now = job.now /\ job'.calendar.status = "disabled"
                 /\ job'.calendar.id = job.calendar.id /\ job'.calendar.end = job.calendar.end
                 /\ job'.calendar.due = job.calendar.due
              \/ job'.pc = "list" /\ job'.now = clock /\ job'.calendar = job.calendar
<1>1. Deploys("capture") /\ Asking /\ Deciding /\ SameEvidence
  BY SameIfUnchanged DEF CaptureNow, Deploys, AtStep, Asking, Deciding, providers, records
<1>2. job \in JobRecord /\ job.calendar \in CalendarRecord
  BY DEF Typed, JobRecord
<1>3. CASE job' = [job EXCEPT !.pc = "list", !.now = clock]
  BY <1>1, <1>2, <1>3 DEF JobRecord, Deploys, AtStep
<1>4. CASE job' = [job EXCEPT !.pc = "save", !.calendar.status = "disabled"]
  BY <1>1, <1>2, <1>4 DEF JobRecord, CalendarRecord, Deploys, AtStep
<1> QED
  BY <1>3, <1>4 DEF CaptureNow

LEMMA ListEffect ==
    ASSUME Typed, ListCalendar
    PROVE  /\ Deploys("list") /\ Asking /\ Deciding /\ SameRecords
           /\ \/ job' = Idle
              \/ SameEvidence /\ Onward({"create"})
              \/ SameEvidence /\ \E e \in events, s \in {"reused", "required-existing"} :
                                    Acquires(e, s)
<1>1. Deploys("list") /\ Asking /\ Deciding
  BY DEF ListCalendar, Deploys, AtStep, Asking, Deciding, providers
<1>2. CASE \E why : Fail(why)
  BY <1>1, <1>2, FailRecords
<1>3. CASE /\ evidence' = [evidence EXCEPT !.seen = @ \cup {e.id : e \in events}]
           /\ \/ GoesTo("create")
              \/ \E e \in CoveringTo(job.now + Duration) :
                    job' = [job EXCEPT !.pc = "save", !.calendar = Claimed(e)]
  <2>1. SameEvidence
    BY <1>3 DEF Typed, EvidenceRecord, SameEvidence, SameRecords
  <2>2. CASE GoesTo("create")
    BY <1>1, <2>1, <2>2, OnwardBy DEF Deploys, AtStep, SameEvidence
  <2>3. ASSUME NEW e \in CoveringTo(job.now + Duration),
               job' = [job EXCEPT !.pc = "save", !.calendar = Claimed(e)]
        PROVE  \E x \in events, s \in {"reused", "required-existing"} : Acquires(x, s)
    <3>1. PICK s \in {"reused", "required-existing"} : Claimed(e) = Acquired(e, s)
      BY DEF Claimed
    <3>2. job' = [job EXCEPT !.pc = "save", !.calendar = Acquired(e, s)]
      BY <2>3, <3>1
    <3>3. Acquires(e, s)
      BY <1>1, <3>2, AcquiresBy DEF Deploys, AtStep
    <3> QED
      BY <3>3 DEF Acquires
  <2> QED
    BY <1>1, <1>3, <2>1, <2>2, <2>3 DEF SameEvidence
<1> QED
  BY <1>2, <1>3 DEF ListCalendar

LEMMA CreateEffect ==
    ASSUME Typed, CreateEvent
    PROVE  /\ Deploys("create") /\ leases' = leases /\ Deciding /\ SameRecords
           /\ \/ events' = events /\ lastId' = lastId
              \/ /\ lastId' = lastId + 1
                 /\ events' = events \cup {[id |-> lastId + 1, start |-> clock,
                                            end |-> clock + Duration]}
           /\ \/ job' = Idle
              \/ /\ SameEvidence /\ lastId' = lastId + 1
                 /\ job'.kind = "deploy" /\ job'.pc = "prove" /\ JobKeeps
                 /\ job'.lease = job.lease /\ job'.calendar.status = job.calendar.status
                 /\ job'.calendar.id = lastId + 1
                 /\ job'.calendar.end = job.calendar.end /\ job'.calendar.due = job.calendar.due
<1>1. /\ Deploys("create") /\ leases' = leases /\ Deciding
      /\ \/ events' = events /\ lastId' = lastId
         \/ /\ lastId' = lastId + 1
            /\ events' = events \cup {[id |-> lastId + 1, start |-> clock,
                                       end |-> clock + Duration]}
  BY DEF CreateEvent, Deploys, AtStep, Deciding
<1>2. CASE Fail("other")
  BY <1>1, <1>2, FailRecords
<1>3. CASE /\ lastId' = lastId + 1 /\ UNCHANGED evidence
           /\ job' = [job EXCEPT !.pc = "prove", !.calendar.id = lastId + 1]
  <2>1. job \in JobRecord /\ job.calendar \in CalendarRecord
    BY DEF Typed, JobRecord
  <2>2. /\ job'.kind = "deploy" /\ job'.pc = "prove" /\ JobKeeps /\ job'.lease = job.lease
        /\ job'.calendar.status = job.calendar.status /\ job'.calendar.id = lastId + 1
        /\ job'.calendar.end = job.calendar.end /\ job'.calendar.due = job.calendar.due
    BY <1>1, <1>3, <2>1 DEF JobRecord, CalendarRecord, JobKeeps, Deploys, AtStep
  <2> QED
    BY <1>1, <1>3, <2>2, SameIfUnchanged DEF SameEvidence
<1> QED
  BY <1>2, <1>3 DEF CreateEvent

LEMMA ProveEffect ==
    ASSUME Typed, ProveEvent
    PROVE  /\ Deploys("prove") /\ Asking /\ Deciding /\ SameRecords
           /\ job' = Idle \/ (SameEvidence /\ \E e \in events : Acquires(e, "created"))
<1>1. Deploys("prove") /\ Asking /\ Deciding
  BY DEF ProveEvent, Deploys, AtStep, Asking, Deciding, providers
<1>2. CASE Fail("other")
  BY <1>1, <1>2, FailRecords
<1>3. ASSUME NEW e \in Proven, UNCHANGED evidence,
             job' = [job EXCEPT !.pc = "save", !.calendar = Acquired(e, "created")]
      PROVE  SameEvidence /\ \E x \in events : Acquires(x, "created")
  <2>1. e \in CoveringTo(job.now + Duration)
    BY DEF Proven
  <2>2. Acquires(e, "created")
    BY <1>1, <1>3, <2>1, AcquiresBy DEF Deploys, AtStep
  <2> QED
    BY <1>3, <2>2, SameIfUnchanged DEF Acquires
<1> QED
  BY <1>1, <1>2, <1>3 DEF ProveEvent, SameEvidence

LEMMA SaveEffect ==
    ASSUME Typed, SaveState
    PROVE  /\ Deploys("save") /\ Asking /\ SameEvidence /\ Onward({"evidence"})
           /\ accepted' = accepted /\ managed' \in {managed, job.calendar.id}
<1>1. /\ Deploys("save") /\ Asking /\ SameEvidence
      /\ accepted' = accepted /\ managed' \in {managed, job.calendar.id}
  BY SameIfUnchanged DEF SaveState, Deploys, AtStep, Asking, providers
<1> QED
  BY <1>1, OnwardBy DEF SaveState, AtStep

LEMMA WriteEffect ==
    ASSUME Typed, WriteCalendar
    PROVE  /\ Deploys("evidence") /\ Asking /\ Deciding /\ Onward({"prepare"})
           /\ evidence'.status = evidence.status /\ evidence'.timing = evidence.timing
           /\ evidence'.lease = evidence.lease /\ evidence'.r2lab = evidence.r2lab
           /\ evidence'.calendar = job.calendar
<1>1. Deploys("evidence") /\ Asking /\ Deciding
  BY DEF WriteCalendar, Deploys, AtStep, Asking, Deciding, providers
<1>2. /\ evidence'.status = evidence.status /\ evidence'.timing = evidence.timing
      /\ evidence'.lease = evidence.lease /\ evidence'.r2lab = evidence.r2lab
      /\ evidence'.calendar = job.calendar
  BY DEF WriteCalendar, Typed, EvidenceRecord
<1> QED
  BY <1>1, <1>2, OnwardBy DEF WriteCalendar, AtStep

LEMMA PrepareEffect ==
    ASSUME Typed, PrepareHosts
    PROVE  /\ Deploys("prepare") /\ Asking /\ Deciding /\ SameRecords
           /\ \/ job' = Idle
              \/ evidence'.status = "ready" /\ Onward({"accept", "window"})
<1>1. Deploys("prepare") /\ Asking /\ Deciding
  BY DEF PrepareHosts, Deploys, AtStep, Asking, Deciding, providers
<1>2. CASE Fail("other")
  BY <1>1, <1>2, FailRecords
<1>3. CASE /\ evidence' = [evidence EXCEPT !.status = "ready"]
           /\ GoesTo(IF job.policy.r2lab = "off" THEN "accept" ELSE "window")
  <2>1. SameRecords /\ evidence'.status = "ready"
    BY <1>3 DEF Typed, EvidenceRecord, SameRecords
  <2>2. Onward({"accept", "window"})
    BY <1>1, <1>3, OnwardBy DEF Onward, Deploys, AtStep
  <2> QED
    BY <1>1, <2>1, <2>2
<1> QED
  BY <1>2, <1>3 DEF PrepareHosts

LEMMA WindowEffect ==
    ASSUME Typed, Window
    PROVE  /\ Deploys("window") /\ Asking /\ Deciding
           /\ evidence'.status = evidence.status /\ evidence'.calendar = evidence.calendar
           /\ evidence'.lease = evidence.lease /\ evidence'.r2lab = evidence.r2lab
           /\ \/ job' = Idle /\ evidence' = evidence
              \/ /\ WindowEnd > WindowStart /\ evidence'.timing = "running"
                 /\ job'.kind = "deploy" /\ job'.pc = "query" /\ JobKeeps
                 /\ job'.calendar = job.calendar /\ job'.lease.status = job.lease.status
                 /\ SameAnswer
                 /\ job'.lease.start = WindowStart /\ job'.lease.end = WindowEnd
<1>1. Deploys("window") /\ Asking /\ Deciding
  BY DEF Window, Deploys, AtStep, Asking, Deciding, providers
<1>2. CASE job' = Idle /\ UNCHANGED evidence
  BY <1>1, <1>2
<1>3. CASE /\ WindowEnd > WindowStart /\ PhaseStarts
           /\ job' = [job EXCEPT !.pc = "query", !.lease.start = WindowStart,
                                 !.lease.end = WindowEnd]
  <2>1. /\ evidence'.status = evidence.status /\ evidence'.calendar = evidence.calendar
        /\ evidence'.lease = evidence.lease /\ evidence'.r2lab = evidence.r2lab
        /\ evidence'.timing = "running"
    BY <1>3 DEF PhaseStarts, Typed, EvidenceRecord
  <2> DEFINE new == [job.lease EXCEPT !.start = WindowStart, !.end = WindowEnd]
  <2>2. job \in JobRecord /\ job.lease \in LeaseRecord
    BY DEF Typed, JobRecord
  <2>3. /\ new.status = job.lease.status /\ new.id = job.lease.id /\ new.from = job.lease.from
        /\ new.until = job.lease.until /\ new.start = WindowStart /\ new.end = WindowEnd
    BY <2>2 DEF LeaseRecord
  <2>4. job' = [job EXCEPT !.pc = "query", !.lease = new]
    BY <1>3
  <2> HIDE DEF new
  <2>5. /\ job'.kind = "deploy" /\ job'.pc = "query" /\ JobKeeps /\ job'.calendar = job.calendar
        /\ job'.lease = new
    BY <1>1, <2>2, <2>4 DEF JobRecord, JobKeeps, Deploys, AtStep
  <2> QED
    BY <1>1, <1>3, <2>1, <2>3, <2>5 DEF SameAnswer
<1> QED
  BY <1>2, <1>3 DEF Window

LEMMA QueryEffect ==
    ASSUME Typed, QueryLeases
    PROVE  /\ Deploys("query") /\ Asking /\ Deciding /\ SameEvidence
           /\ \/ Refuses
              \/ \E l \in leases : Grants(l, "reused")
              \/ Onward({"book"})
              \/ /\ Demands("extend") /\ job'.lease.status = job.lease.status
                 /\ job'.lease.from = job.lease.from /\ job'.lease.until = job.lease.until
                 /\ job'.lease.id \in {l.id : l \in leases}
<1>1. Deploys("query") /\ Asking /\ Deciding /\ job.kind = "deploy"
  BY DEF QueryLeases, Deploys, AtStep, Asking, Deciding, providers
<1>2. SameEvidence
  BY DEF QueryLeases, Typed, EvidenceRecord, SameEvidence, SameRecords
<1>3. CASE \E s \in {"disabled", "failed"} :
              job' = [job EXCEPT !.pc = "record", !.lease.status = s]
  BY <1>1, <1>2, <1>3, RefusesBy
<1>4. CASE \E l \in CoveringLeases : job' = Granted(l, "reused")
  BY <1>1, <1>2, <1>4, GrantsBy DEF Grants
<1>5. CASE GoesTo("book")
  BY <1>1, <1>2, <1>5, OnwardBy
<1>6. CASE \E l \in Owned : job' = [job EXCEPT !.pc = "extend", !.lease.id = l.id]
  <2>1. PICK l \in leases : job' = [job EXCEPT !.pc = "extend", !.lease.id = l.id]
    BY <1>6 DEF Owned, LeasesIn
  <2>2. job \in JobRecord /\ job.lease \in LeaseRecord
    BY DEF Typed, JobRecord
  <2>3. /\ Demands("extend") /\ job'.lease.status = job.lease.status
        /\ job'.lease.from = job.lease.from /\ job'.lease.until = job.lease.until
        /\ job'.lease.id = l.id
    BY <1>1, <2>1, <2>2 DEF Demands, JobKeeps, SameDemand, JobRecord, LeaseRecord
  <2> QED
    BY <1>1, <1>2, <2>3
<1> QED
  BY <1>3, <1>4, <1>5, <1>6 DEF QueryLeases, LeaseFails

\* The lease is prolonged to the end of the demand, and the answer may be lost.
LEMMA ExtendEffect ==
    ASSUME Typed, ExtendLease
    PROVE  /\ Deploys("extend") /\ UNCHANGED <<events, lastId>> /\ Deciding /\ SameEvidence
           /\ \/ leases' = leases
              \/ \E l \in leases : leases' = (leases \ {l}) \cup {[l EXCEPT !.until = job.lease.end]}
           /\ \/ Refuses
              \/ Demands("verify") /\ SameAnswer /\ job'.lease.status = "extended"
<1>1. /\ Deploys("extend") /\ UNCHANGED <<events, lastId>> /\ Deciding /\ SameEvidence
      /\ job.kind = "deploy"
  BY SameIfUnchanged DEF ExtendLease, Deploys, AtStep, Deciding, records
<1>2. \/ leases' = leases
      \/ \E l \in leases : leases' = (leases \ {l}) \cup {[l EXCEPT !.until = job.lease.end]}
  BY DEF ExtendLease, Prolong, Demand
<1>3. CASE LeaseFails
  BY <1>1, <1>2, <1>3, RefusesBy DEF LeaseFails
<1>4. CASE job' = [job EXCEPT !.pc = "verify", !.lease.status = "extended"]
  <2>1. job \in JobRecord /\ job.lease \in LeaseRecord
    BY DEF Typed, JobRecord
  <2>2. Demands("verify") /\ SameAnswer /\ job'.lease.status = "extended"
    BY <1>1, <1>4, <2>1 DEF Demands, JobKeeps, SameDemand, SameAnswer, JobRecord, LeaseRecord
  <2> QED
    BY <1>1, <1>2, <2>2
<1> QED
  BY <1>3, <1>4 DEF ExtendLease

LEMMA BookEffect ==
    ASSUME Typed, BookLease
    PROVE  /\ Deploys("book") /\ events' = events /\ Deciding /\ SameEvidence
           /\ \/ leases' = leases /\ lastId' = lastId
              \/ /\ lastId' = lastId + 1
                 /\ leases' = leases \cup {[id |-> lastId + 1, ours |-> TRUE,
                                            from |-> job.lease.start, until |-> job.lease.end]}
           /\ \/ Refuses
              \/ Demands("verify") /\ SameAnswer /\ job'.lease.status = "booked"
<1>1. /\ Deploys("book") /\ events' = events /\ Deciding /\ SameEvidence /\ job.kind = "deploy"
  BY SameIfUnchanged DEF BookLease, Deploys, AtStep, Deciding, records
<1>2. \/ leases' = leases /\ lastId' = lastId
      \/ /\ lastId' = lastId + 1
         /\ leases' = leases \cup {[id |-> lastId + 1, ours |-> TRUE,
                                    from |-> job.lease.start, until |-> job.lease.end]}
  BY DEF BookLease, Book, Demand
<1>3. CASE LeaseFails
  BY <1>1, <1>2, <1>3, RefusesBy DEF LeaseFails
<1>4. CASE job' = [job EXCEPT !.pc = "verify", !.lease.status = "booked"]
  <2>1. job \in JobRecord /\ job.lease \in LeaseRecord
    BY DEF Typed, JobRecord
  <2>2. Demands("verify") /\ SameAnswer /\ job'.lease.status = "booked"
    BY <1>1, <1>4, <2>1 DEF Demands, JobKeeps, SameDemand, SameAnswer, JobRecord, LeaseRecord
  <2> QED
    BY <1>1, <1>2, <2>2
<1> QED
  BY <1>3, <1>4 DEF BookLease

LEMMA VerifyEffect ==
    ASSUME Typed, VerifyLease
    PROVE  /\ Deploys("verify") /\ Asking /\ Deciding /\ SameEvidence
           /\ Refuses \/ \E l \in leases : Grants(l, job.lease.status)
<1>1. Deploys("verify") /\ Asking /\ Deciding /\ SameEvidence /\ job.kind = "deploy"
  BY SameIfUnchanged DEF VerifyLease, Deploys, AtStep, Asking, Deciding, providers, records
<1>2. CASE LeaseFails
  BY <1>1, <1>2, RefusesBy DEF LeaseFails
<1>3. CASE \E l \in Verified : job' = Granted(l, Demand.status)
  BY <1>1, <1>3, GrantsBy DEF Verified, Demand, Grants
<1> QED
  BY <1>2, <1>3 DEF VerifyLease

LEMMA RecordEffect ==
    ASSUME Typed, RecordLease
    PROVE  /\ Deploys("record") /\ Asking /\ Deciding /\ Onward({"authority"})
           /\ evidence'.status = evidence.status /\ evidence'.timing = evidence.timing
           /\ evidence'.calendar = evidence.calendar /\ evidence'.r2lab = evidence.r2lab
           /\ evidence'.lease = job.lease
<1>1. Deploys("record") /\ Asking /\ Deciding
  BY DEF RecordLease, Deploys, AtStep, Asking, Deciding, providers
<1>2. /\ evidence'.status = evidence.status /\ evidence'.timing = evidence.timing
      /\ evidence'.calendar = evidence.calendar /\ evidence'.r2lab = evidence.r2lab
      /\ evidence'.lease = job.lease
  BY DEF RecordLease, Typed, EvidenceRecord
<1> QED
  BY <1>1, <1>2, OnwardBy DEF RecordLease, AtStep

LEMMA UpdateEffect ==
    ASSUME Typed, UpdateAuthority
    PROVE  /\ Deploys("authority") /\ Asking /\ Deciding /\ Onward({"finish"})
           /\ evidence'.timing = evidence.timing
           /\ evidence'.calendar = evidence.calendar /\ evidence'.lease = evidence.lease
           /\ evidence'.r2lab = job.lease
           /\ job.lease.status # "failed" => evidence'.status = "ready"
<1>1. Deploys("authority") /\ Asking /\ Deciding
  BY DEF UpdateAuthority, Deploys, AtStep, Asking, Deciding, providers
<1>2. /\ evidence'.timing = evidence.timing
      /\ evidence'.calendar = evidence.calendar /\ evidence'.lease = evidence.lease
      /\ evidence'.r2lab = job.lease
      /\ job.lease.status # "failed" => evidence'.status = "ready"
  BY DEF UpdateAuthority, Typed, EvidenceRecord
<1> QED
  BY <1>1, <1>2, OnwardBy DEF UpdateAuthority, AtStep

LEMMA FinishEffect ==
    ASSUME Typed, FinishPhase
    PROVE  /\ Deploys("finish") /\ Asking /\ Deciding
           /\ evidence'.status = evidence.status /\ evidence'.calendar = evidence.calendar
           /\ evidence'.lease = evidence.lease /\ evidence'.r2lab = evidence.r2lab
           /\ \/ job' = Idle
              \/ /\ job.lease.status # "failed" /\ evidence'.timing = "success"
                 /\ Onward({"accept"})
<1>1. Deploys("finish") /\ Asking /\ Deciding
  BY DEF FinishPhase, Deploys, AtStep, Asking, Deciding, providers
<1>2. /\ evidence'.status = evidence.status /\ evidence'.calendar = evidence.calendar
      /\ evidence'.lease = evidence.lease /\ evidence'.r2lab = evidence.r2lab
      /\ job' = Idle \/ (job.lease.status # "failed" /\ evidence'.timing = "success")
  BY DEF FinishPhase, PhaseEnds, Typed, EvidenceRecord
<1> QED
  BY <1>1, <1>2, OnwardBy DEF FinishPhase, AtStep

LEMMA AcceptEffect ==
    ASSUME Accept
    PROVE  /\ Deploys("accept") /\ Asking /\ managed' = managed /\ SameEvidence
           /\ accepted' \in {"none", "accepted"} /\ job' = Idle
  BY SameIfUnchanged DEF Accept, Deploys, AtStep, Asking, providers, records

LEMMA InvokeTeardownEffect ==
    ASSUME InvokeTeardown
    PROVE  /\ job = Idle /\ accepted # "none" /\ accepted' = "stopping"
           /\ UNCHANGED <<clock, meddling, run, managed>> /\ Asking /\ SameEvidence
           /\ job'.kind = "teardown" /\ job'.now = 0 /\ job'.tries = 0
           /\ job'.calendar = NoCalendar /\ job'.lease = NoLease
  BY SameIfUnchanged DEF InvokeTeardown, Asking, providers, records, Idle

\* A teardown takes away events and leases, or cuts a lease off.
LEMMA TeardownEffect ==
    ASSUME Typed, Teardown
    PROVE  /\ job.kind = "teardown" /\ UNCHANGED <<clock, meddling, run, lastId>> /\ SameEvidence
           /\ managed' \in {managed, 0} /\ accepted' \in {accepted, "none"}
           /\ events' \subseteq events
           /\ \/ leases' \subseteq leases
              \/ \E l \in leases : leases' \subseteq leases \cup {[l EXCEPT !.until = clock]}
           /\ \/ job' = Idle
              \/ /\ job'.kind = "teardown" /\ JobKeeps /\ job'.lease = job.lease
                 /\ job'.calendar \in {job.calendar, evidence.calendar}
                 /\ accepted' = accepted
<1> DEFINE Goes ==
        /\ job'.kind = "teardown" /\ JobKeeps /\ job'.lease = job.lease
        /\ job'.calendar \in {job.calendar, evidence.calendar}
<1>0. job \in JobRecord
  BY DEF Typed
<1>1. ASSUME job.kind = "teardown", NEW p, GoesTo(p) PROVE Goes
  BY <1>0, <1>1 DEF GoesTo, JobRecord, JobKeeps
<1>2. CASE ReleaseEvent
  <2>1. ASSUME job' = [job EXCEPT !.pc = "delete", !.calendar = evidence.calendar] PROVE Goes
    BY <1>0, <1>2, <2>1 DEF ReleaseEvent, AtStep, JobRecord, JobKeeps
  <2>2. job' = Idle \/ Goes
    BY <1>1, <1>2, <2>1 DEF ReleaseEvent, AtStep, PosOutcome, TeardownFails
  <2>3. managed' \in {managed, 0}
    BY <1>2 DEF ReleaseEvent, ClearManaged
  <2> QED
    BY <1>2, <2>2, <2>3, SameIfUnchanged DEF ReleaseEvent, AtStep, providers
<1>3. CASE DeleteEvent
  <2>1. job' = Idle \/ Goes
    BY <1>1, <1>3 DEF DeleteEvent, AtStep, TeardownFails
  <2> QED
    BY <1>3, <2>1, SameIfUnchanged DEF DeleteEvent, AtStep
<1>4. CASE CheckDeleted
  <2>1. job' = Idle \/ Goes
    BY <1>1, <1>4 DEF CheckDeleted, AtStep, TeardownFails, PosOutcome
  <2>2. managed' \in {managed, 0}
    BY <1>4 DEF CheckDeleted, ClearManaged
  <2> QED
    BY <1>4, <2>1, <2>2, SameIfUnchanged DEF CheckDeleted, AtStep, providers
<1>5. CASE ReleaseLease
  <2>1. job' = Idle /\ accepted' \in {accepted, "none"}
    BY <1>5 DEF ReleaseLease, LeaseOutcome, TeardownFails
  <2>2. \/ leases' = leases
        \/ \E l \in leases : leases' \subseteq leases \cup {[l EXCEPT !.until = clock]}
    BY <1>5 DEF ReleaseLease, Without, Recorded, LeasesIn
  <2> QED
    BY <1>5, <2>1, <2>2, SameIfUnchanged DEF ReleaseLease, AtStep
<1> QED
  BY <1>2, <1>3, <1>4, <1>5 DEF Teardown

LEMMA DiesEffect ==
    ASSUME Dies
    PROVE  /\ UNCHANGED <<clock, meddling, run, managed, accepted>> /\ Asking /\ SameEvidence
           /\ job' = Idle
  BY SameIfUnchanged DEF Dies, Asking, providers, records

LEMMA TickEffect ==
    ASSUME Tick
    PROVE  /\ clock < MaxTime /\ clock' = clock + 1
           /\ UNCHANGED <<meddling, run, managed, accepted, job>> /\ Asking /\ SameEvidence
  BY SameIfUnchanged DEF Tick, Asking, providers, records

\* Others change either the events or the leases, and it is counted.
LEMMA OthersEventsEffect ==
    ASSUME OthersChangeEvents
    PROVE  /\ meddling < MaxMeddling /\ meddling' = meddling + 1
           /\ UNCHANGED <<clock, run, managed, accepted, job, leases>> /\ SameEvidence
           /\ lastId' \in {lastId, lastId + 1}
           /\ \/ events' \subseteq events
              \/ /\ lastId' = lastId + 1
                 /\ \E length \in {1, Duration} :
                       events' = events \cup {[id |-> lastId + 1, start |-> clock,
                                               end |-> clock + length]}
  BY SameIfUnchanged DEF OthersChangeEvents, Meddle, records

LEMMA OthersLeasesEffect ==
    ASSUME OthersChangeLeases
    PROVE  /\ meddling < MaxMeddling /\ meddling' = meddling + 1
           /\ UNCHANGED <<clock, run, managed, accepted, job, events>> /\ SameEvidence
           /\ lastId' \in {lastId, lastId + 1}
           /\ \/ leases' \subseteq leases
              \/ \E l \in leases : leases' \subseteq leases \cup {[l EXCEPT !.until = l.until + Grain]}
              \/ /\ lastId' = lastId + 1
                 /\ \E ours \in BOOLEAN, start \in {WindowStart, WindowStart + Grain} :
                       \E end \in {start + Grain, start + LeaseDuration} :
                          leases' = leases \cup {[id |-> lastId + 1, ours |-> ours,
                                                  from |-> start, until |-> end]}
<1>1. /\ meddling < MaxMeddling /\ meddling' = meddling + 1
      /\ UNCHANGED <<clock, run, managed, accepted, job, events>> /\ SameEvidence
  BY SameIfUnchanged DEF OthersChangeLeases, Meddle, records
<1>2. CASE \E ours \in BOOLEAN, start \in {WindowStart, WindowStart + Grain} :
              \E end \in {start + Grain, start + LeaseDuration} : Book(ours, start, end)
  BY <1>1, <1>2 DEF Book
<1>3. CASE \E l \in leases : leases' = leases \ {l} /\ UNCHANGED lastId
  BY <1>1, <1>3
<1>4. CASE \E l \in leases : Prolong(l, l.until + Grain) /\ UNCHANGED lastId
  BY <1>1, <1>4 DEF Prolong
<1> QED
  BY <1>2, <1>3, <1>4 DEF OthersChangeLeases

\* What every step is, with the state it leaves as it was.
LEMMA StillEffect ==
    ASSUME UNCHANGED vars
    PROVE  /\ UNCHANGED <<clock, meddling, run, managed, accepted, job>> /\ Asking /\ SameEvidence
  BY SameIfUnchanged DEF vars, Asking, providers, records

LEMMA Blank ==
    /\ Idle.kind = "none" /\ Idle.pc = "idle" /\ Idle.now = 0 /\ Idle.tries = 0
    /\ Idle.calendar = NoCalendar /\ Idle.lease = NoLease
    /\ NoCalendar.status = "none" /\ NoCalendar.id = 0 /\ NoCalendar.end = 0 /\ NoCalendar.due = 0
    /\ NoLease.status = "none" /\ NoLease.id = 0 /\ NoLease.from = 0 /\ NoLease.until = 0
    /\ NoLease.start = 0 /\ NoLease.end = 0
  BY DEF Idle, NoCalendar, NoLease

(* ------------------------ the files follow the job ------------------------ *)
LEMMA ChainStep == ReservationInv /\ ChainInv /\ [Next]_vars => ChainInv'
<1> SUFFICES ASSUME ReservationInv, ChainInv, [Next]_vars PROVE ChainInv'
  OBVIOUS
<1>0. /\ Typed /\ CalendarInv /\ LeaseInv
      /\ job \in JobRecord /\ job.calendar \in CalendarRecord
  BY DEF ReservationInv, Typed, JobRecord
<1>1. CASE Invoke
  BY <1>1, InvokeEffect, Blank DEF ChainInv, Unmade, Unlisted, AfterCalendar
<1>2. ASSUME job.kind = "deploy", accepted' = accepted, job' = Idle PROVE ChainInv'
  BY <1>2, Blank DEF ChainInv
<1>3. CASE ProviderContext \/ Prefix
  BY <1>0, <1>2, <1>3, ContextEffect
     DEF ChainInv, Unmade, Unlisted, AfterCalendar, Deploys, AtStep, Deciding, SameEvidence, SameRecords
<1>4. CASE CaptureNow
  BY <1>0, <1>4, CaptureEffect
     DEF ChainInv, Unmade, Unlisted, AfterCalendar, Deploys, AtStep, Deciding, SameEvidence, SameRecords
<1>5. CASE ListCalendar
  BY <1>0, <1>2, <1>5, ListEffect
     DEF ChainInv, Unmade, Unlisted, AfterCalendar, Deploys, AtStep, Deciding, SameEvidence,
         SameRecords, Onward, Acquires
<1>6. CASE CreateEvent
  BY <1>0, <1>2, <1>6, CreateEffect
     DEF ChainInv, Unmade, Unlisted, AfterCalendar, Deploys, AtStep, Deciding, SameEvidence, SameRecords
<1>7. CASE ProveEvent
  BY <1>0, <1>2, <1>7, ProveEffect
     DEF ChainInv, Unmade, Unlisted, AfterCalendar, Deploys, AtStep, Deciding, SameEvidence,
         SameRecords, Acquires
<1>8. CASE SaveState
  BY <1>0, <1>8, SaveEffect
     DEF ChainInv, Unmade, Unlisted, AfterCalendar, Deploys, AtStep, SameEvidence, SameRecords, Onward
<1>9. CASE WriteCalendar
  BY <1>0, <1>9, WriteEffect
     DEF ChainInv, Unmade, Unlisted, AfterCalendar, Deploys, AtStep, Deciding, Onward
<1>10. CASE PrepareHosts
  BY <1>0, <1>2, <1>10, PrepareEffect
     DEF ChainInv, Unmade, Unlisted, AfterCalendar, Deploys, AtStep, Deciding, SameRecords, Onward,
         Whole
<1>11. CASE Window
  BY <1>0, <1>2, <1>11, WindowEffect
     DEF ChainInv, Unmade, Unlisted, AfterCalendar, Deploys, AtStep, Deciding
<1>12. CASE QueryLeases
  BY <1>0, <1>12, QueryEffect
     DEF ChainInv, Unmade, Unlisted, AfterCalendar, Deploys, AtStep, Deciding, SameEvidence,
         SameRecords, Onward, Refuses, Grants, Demands
<1>13. CASE ExtendLease
  BY <1>0, <1>13, ExtendEffect
     DEF ChainInv, Unmade, Unlisted, AfterCalendar, Deploys, AtStep, Deciding, SameEvidence,
         SameRecords, Refuses, Demands
<1>14. CASE BookLease
  BY <1>0, <1>14, BookEffect
     DEF ChainInv, Unmade, Unlisted, AfterCalendar, Deploys, AtStep, Deciding, SameEvidence,
         SameRecords, Refuses, Demands
<1>15. CASE VerifyLease
  BY <1>0, <1>15, VerifyEffect
     DEF ChainInv, Unmade, Unlisted, AfterCalendar, Deploys, AtStep, Deciding, SameEvidence,
         SameRecords, Refuses, Grants, Demands
<1>16. CASE RecordLease
  BY <1>0, <1>16, RecordEffect
     DEF ChainInv, Unmade, Unlisted, AfterCalendar, Deploys, AtStep, Deciding, Onward
<1>17. CASE UpdateAuthority
  BY <1>0, <1>17, UpdateEffect
     DEF ChainInv, Unmade, Unlisted, AfterCalendar, Deploys, AtStep, Deciding, Onward
<1>18. CASE FinishPhase
  BY <1>0, <1>2, <1>18, FinishEffect
     DEF ChainInv, Unmade, Unlisted, AfterCalendar, Deploys, AtStep, Deciding, Onward, Whole
<1>19. CASE Accept
  BY <1>19, AcceptEffect, Blank
     DEF ChainInv, Deploys, AtStep, SameEvidence, SameRecords, Whole
<1>20. CASE InvokeTeardown
  BY <1>20, InvokeTeardownEffect
     DEF ChainInv, SameEvidence, SameRecords, Whole
<1>21. CASE Teardown
  BY <1>0, <1>21, TeardownEffect, Blank
     DEF ChainInv, SameEvidence, SameRecords, Whole
<1>22. CASE Dies
  BY <1>22, DiesEffect, Blank DEF ChainInv, SameEvidence, SameRecords, Whole
<1>23. CASE UNCHANGED <<accepted, job>> /\ SameEvidence
  BY <1>23 DEF ChainInv, SameEvidence, SameRecords, Whole
<1> QED
  BY <1>1, <1>3, <1>4, <1>5, <1>6, <1>7, <1>8, <1>9, <1>10, <1>11, <1>12, <1>13, <1>14, <1>15,
     <1>16, <1>17, <1>18, <1>19, <1>20, <1>21, <1>22, <1>23, TickEffect, OthersEventsEffect,
     OthersLeasesEffect, StillEffect DEF Next, Deploy

(* --------------------- what is recorded is enough ------------------------- *)
LEMMA WindowBounds ==
    ASSUME Typed, WindowEnd > WindowStart
    PROVE  /\ WindowStart < WindowEnd /\ WindowStart <= clock
           /\ WindowEnd <= clock + LeaseDuration
           /\ job.calendar.status # "disabled" => WindowEnd <= job.calendar.end
<1>1. /\ WindowStart \in Nat /\ WindowStart <= clock /\ clock \in Nat /\ LeaseDuration \in Nat
      /\ job.calendar.end \in Nat
  BY WindowTyped, ReservationAssumption DEF Typed, JobRecord, CalendarRecord
<1> QED
  BY <1>1 DEF WindowEnd, Earlier

\* The answer to a demand covers it.
LEMMA GrantCovers ==
    ASSUME Typed, NEW l \in leases, NEW status, Grants(l, status),
           job.lease.start < job.lease.end,
           job.calendar.status # "disabled" => job.lease.end <= job.calendar.end
    PROVE  LeaseCovers(job'.lease, job'.calendar)
<1>1. /\ l.from \in Nat /\ l.until \in Nat
      /\ job.lease.start \in Nat /\ job.lease.end \in Nat /\ job.calendar.end \in Nat
  BY LeaseTyped DEF Typed, JobRecord, LeaseRecord, CalendarRecord
<1> QED
  BY <1>1 DEF Grants, Demands, SameDemand, LeaseCovers

LEMMA RefusalCovers ==
    ASSUME Refuses PROVE LeaseCovers(job'.lease, job'.calendar)
  BY DEF Refuses, LeaseCovers, LeaseHeld

LEMMA CoverStep == ReservationInv /\ ChainInv /\ CoverInv /\ [Next]_vars => CoverInv'
<1> SUFFICES ASSUME ReservationInv, ChainInv, CoverInv, [Next]_vars PROVE CoverInv'
  OBVIOUS
<1>0. /\ Typed /\ LeaseInv /\ clock \in Nat
      /\ job.calendar \in CalendarRecord /\ job.lease \in LeaseRecord
  BY DEF ReservationInv, Typed, JobRecord
<1>a. CalendarCovers(NoCalendar) /\ LeaseCovers(NoLease, NoCalendar)
  BY Blank DEF CalendarCovers, LeaseCovers, EventHeld, LeaseHeld
<1>1. CASE Invoke
  BY <1>1, <1>a, InvokeEffect DEF CoverInv, Windowed, Answered
<1>2. ASSUME evidence'.calendar = evidence.calendar, evidence'.lease = evidence.lease,
             job'.kind # "deploy"
      PROVE  CoverInv'
  BY <1>2 DEF CoverInv
<1>b. Idle.kind # "deploy"
  BY Blank
\* A step of the deployment that leaves the files as they are, ...
<1>3. ASSUME evidence'.calendar = evidence.calendar, evidence'.lease = evidence.lease,
             job.kind = "deploy", CalendarCovers(job'.calendar),
             job'.pc \in Windowed => /\ job'.lease.start < job'.lease.end
                                     /\ job'.lease.start <= clock'
                                     /\ job'.calendar.status # "disabled" =>
                                            job'.lease.end <= job'.calendar.end,
             job'.pc \in Answered => LeaseCovers(job'.lease, job'.calendar)
      PROVE  CoverInv'
  BY <1>3 DEF CoverInv
\* ... and the demand too.
<1>4. ASSUME evidence'.calendar = evidence.calendar, evidence'.lease = evidence.lease,
             job.kind = "deploy", job'.calendar = job.calendar, SameDemand,
             job.pc \in Windowed, clock' = clock,
             job'.pc \in Answered => LeaseCovers(job'.lease, job'.calendar)
      PROVE  CoverInv'
  BY <1>4 DEF CoverInv, SameDemand
<1>5. CASE ProviderContext \/ Prefix
  BY <1>0, <1>2, <1>b, <1>3, <1>5, ContextEffect
     DEF Deploys, AtStep, SameEvidence, SameRecords, CoverInv, Windowed, Answered
<1>6. CASE CaptureNow
  <2>1. CalendarCovers(job'.calendar)
    BY <1>0, <1>6, CaptureEffect DEF CoverInv, CalendarCovers, EventHeld, Deploys, AtStep
  <2> QED
    BY <1>0, <1>3, <1>6, <2>1, CaptureEffect
       DEF Deploys, AtStep, SameEvidence, SameRecords, Windowed, Answered
<1>7. ASSUME NEW e, NEW status, Acquires(e, status), SameRecords, job.kind = "deploy"
      PROVE  CoverInv'
  <2>1. CalendarCovers(job'.calendar)
    BY <1>7 DEF Acquires, CalendarCovers
  <2> QED
    BY <1>3, <1>7, <2>1 DEF Acquires, SameRecords, Windowed, Answered
<1>8. CASE ListCalendar
  BY <1>0, <1>2, <1>b, <1>3, <1>7, <1>8, ListEffect
     DEF Deploys, AtStep, SameEvidence, SameRecords, CoverInv, Windowed, Answered, Onward
<1>9. CASE CreateEvent
  <2>1. CASE job' = Idle
    BY <1>0, <1>2, <1>b, <1>9, <2>1, CreateEffect DEF SameRecords
  <2>2. CASE job' # Idle
    <3>1. CalendarCovers(job'.calendar)
      BY <1>0, <1>9, <2>2, CreateEffect DEF CalendarCovers, CoverInv, Deploys, AtStep
    <3> QED
      BY <1>0, <1>3, <1>9, <2>2, <3>1, CreateEffect
         DEF Deploys, AtStep, SameEvidence, SameRecords, Windowed, Answered
  <2> QED
    BY <2>1, <2>2
<1>10. CASE ProveEvent
  BY <1>0, <1>2, <1>b, <1>7, <1>10, ProveEffect DEF Deploys, AtStep, SameEvidence, SameRecords
<1>11. CASE SaveState
  BY <1>0, <1>3, <1>11, SaveEffect
     DEF Deploys, AtStep, SameEvidence, SameRecords, CoverInv, Windowed, Answered, Onward
<1>12. CASE WriteCalendar
  <2>1. evidence.lease.status = "none"
    BY <1>0, <1>12, WriteEffect DEF Deploys, AtStep, LeaseInv, Unleased
  <2>2. LeaseCovers(evidence'.lease, evidence'.calendar)
    BY <1>0, <1>12, <2>1, WriteEffect DEF LeaseCovers, LeaseHeld
  <2> QED
    BY <1>0, <1>12, <2>2, WriteEffect DEF Deploys, AtStep, CoverInv, Windowed, Answered, Onward
<1>13. CASE PrepareHosts
  <2>1. CASE job' = Idle
    BY <1>0, <1>2, <1>b, <1>13, <2>1, PrepareEffect DEF SameRecords
  <2>2. CASE job' # Idle
    <3>1. job.lease.status = "none" /\ job'.lease = job.lease
      BY <1>0, <1>13, <2>2, PrepareEffect DEF Deploys, AtStep, LeaseInv, Unleased, Onward
    <3>2. LeaseCovers(job'.lease, job'.calendar)
      BY <3>1 DEF LeaseCovers, LeaseHeld
    <3> QED
      BY <1>0, <1>3, <1>13, <2>2, <3>2, PrepareEffect
         DEF Deploys, AtStep, SameRecords, CoverInv, Windowed, Onward
  <2> QED
    BY <2>1, <2>2
<1>14. CASE Window
  <2>1. CASE job' = Idle
    BY <1>0, <1>2, <1>b, <1>14, <2>1, WindowEffect
  <2>2. CASE job' # Idle
    BY <1>0, <1>3, <1>14, <2>2, WindowEffect, WindowBounds
       DEF Deploys, AtStep, CoverInv, Answered
  <2> QED
    BY <2>1, <2>2
<1>c. job.kind = "deploy" /\ job.pc \in Windowed =>
          /\ job.lease.start < job.lease.end
          /\ job.calendar.status # "disabled" => job.lease.end <= job.calendar.end
  BY DEF CoverInv
<1>15. CASE QueryLeases
  <2>1. job.kind = "deploy" /\ job.pc \in Windowed /\ clock' = clock /\ SameEvidence
    BY <1>0, <1>15, QueryEffect DEF Deploys, AtStep, Windowed
  <2>2. CASE Refuses
    BY <1>4, <2>1, <2>2, RefusalCovers DEF SameEvidence, SameRecords, Refuses, Demands
  <2>3. CASE \E l \in leases : Grants(l, "reused")
    BY <1>0, <1>4, <1>c, <2>1, <2>3, GrantCovers DEF SameEvidence, SameRecords, Grants, Demands
  <2>4. CASE Onward({"book"})
    BY <1>4, <2>1, <2>4 DEF SameEvidence, SameRecords, Onward, SameDemand, Answered
  <2>5. CASE Demands("extend")
    BY <1>4, <2>1, <2>5 DEF SameEvidence, SameRecords, Demands, Answered
  <2> QED
    BY <1>0, <1>15, <2>2, <2>3, <2>4, <2>5, QueryEffect
<1>16. CASE ExtendLease \/ BookLease
  <2>1. /\ job.kind = "deploy" /\ job.pc \in Windowed /\ clock' = clock /\ SameEvidence
        /\ Refuses \/ Demands("verify")
    BY <1>0, <1>16, ExtendEffect, BookEffect DEF Deploys, AtStep, Windowed
  <2>2. CASE Refuses
    BY <1>4, <2>1, <2>2, RefusalCovers DEF SameEvidence, SameRecords, Refuses, Demands
  <2>3. CASE Demands("verify")
    BY <1>4, <2>1, <2>3 DEF SameEvidence, SameRecords, Demands, Answered
  <2> QED
    BY <2>1, <2>2, <2>3
<1>17. CASE VerifyLease
  <2>1. job.kind = "deploy" /\ job.pc \in Windowed /\ clock' = clock /\ SameEvidence
    BY <1>0, <1>17, VerifyEffect DEF Deploys, AtStep, Windowed
  <2>2. CASE Refuses
    BY <1>4, <2>1, <2>2, RefusalCovers DEF SameEvidence, SameRecords, Refuses, Demands
  <2>3. CASE \E l \in leases : Grants(l, job.lease.status)
    BY <1>0, <1>4, <1>c, <2>1, <2>3, GrantCovers DEF SameEvidence, SameRecords, Grants, Demands
  <2> QED
    BY <1>0, <1>17, <2>2, <2>3, VerifyEffect
<1>18. CASE RecordLease
  <2>1. /\ AtStep("deploy", "record") /\ evidence.calendar = job.calendar
        /\ LeaseCovers(job.lease, job.calendar)
    BY <1>0, <1>18, RecordEffect DEF Deploys, AtStep, ChainInv, AfterCalendar, CoverInv, Answered
  <2> QED
    BY <1>0, <1>18, <2>1, RecordEffect
       DEF Deploys, AtStep, CoverInv, Windowed, Answered, Onward
<1>19. CASE UpdateAuthority
  BY <1>0, <1>19, UpdateEffect DEF Deploys, AtStep, CoverInv, Windowed, Answered, Onward
<1>20. CASE FinishPhase
  BY <1>0, <1>2, <1>b, <1>20, FinishEffect DEF Deploys, AtStep, CoverInv, Windowed, Answered, Onward
<1>21. CASE Accept \/ Dies
  BY <1>2, <1>b, <1>21, AcceptEffect, DiesEffect DEF SameEvidence, SameRecords
<1>22. CASE InvokeTeardown \/ Teardown
  BY <1>0, <1>2, <1>b, <1>22, InvokeTeardownEffect, TeardownEffect DEF SameEvidence, SameRecords
<1>23. CASE UNCHANGED job /\ SameEvidence
  <2>1. clock <= clock' /\ clock' \in Nat
    BY <1>0, ClockGrows, TypedStep DEF Typed
  <2> QED
    BY <1>0, <1>23, <2>1 DEF CoverInv, SameEvidence, SameRecords, LeaseRecord
<1> QED
  BY <1>1, <1>5, <1>6, <1>8, <1>9, <1>10, <1>11, <1>12, <1>13, <1>14, <1>15, <1>16, <1>17, <1>18,
     <1>19, <1>20, <1>21, <1>22, <1>23, TickEffect, OthersEventsEffect, OthersLeasesEffect,
     StillEffect DEF Next, Deploy

(* ------------------- what is recorded is what is there --------------------- *)
LEMMA EventStandsOn ==
    ASSUME Typed, clock <= clock', clock' \in Nat, events \subseteq events',
           NEW c, EventStands(c, events, clock)
    PROVE  EventStands(c, events', clock')
  BY DEF EventStands, Typed

LEMMA LeaseStandsOn ==
    ASSUME Typed, clock <= clock', clock' \in Nat, leases \subseteq leases',
           NEW l, LeaseStands(l, leases, clock)
    PROVE  LeaseStands(l, leases', clock')
  BY DEF LeaseStands, Typed

LEMMA AcquiredStands ==
    ASSUME Typed, NEW e, NEW status, Acquires(e, status), job.now <= clock
    PROVE  EventStands(job'.calendar, events, clock)
<1>1. e.start \in Nat /\ job.now \in Nat /\ clock \in Nat
  BY DEF Typed, JobRecord, Acquires
<1> QED
  BY <1>1 DEF Acquires, EventStands

LEMMA GrantStands ==
    ASSUME Typed, NEW l \in leases, NEW status, Grants(l, status), job.lease.start <= clock
    PROVE  LeaseStands(job'.lease, leases, clock)
<1>1. l.from \in Nat /\ job.lease.start \in Nat /\ clock \in Nat
  BY LeaseTyped DEF Typed, JobRecord, LeaseRecord
<1> QED
  BY <1>1 DEF Grants, LeaseStands

LEMMA RefusalStands ==
    ASSUME Refuses PROVE LeaseStands(job'.lease, leases, clock)
  BY DEF Refuses, LeaseStands, LeaseHeld

\* Nothing is released while the deployment goes on: what stood stands.
LEMMA StandsOn ==
    ASSUME ReservationInv, Typed', clock <= clock', meddling' = meddling, StandsInv, job.kind = "deploy",
           events \subseteq events',
           leases \subseteq leases' \/ (evidence'.lease = evidence.lease /\ job.pc \in Leasing),
           evidence'.calendar \in {evidence.calendar, job.calendar},
           evidence'.lease = evidence.lease \/ (job.pc \in Answered /\ evidence'.lease = job.lease),
           meddling = 0 /\ job'.kind = "deploy" =>
               /\ job'.calendar = job.calendar \/ EventStands(job'.calendar, events, clock)
               /\ job'.pc \in Answered => LeaseStands(job'.lease, leases', clock')
    PROVE  StandsInv'
<1> SUFFICES ASSUME meddling = 0
             PROVE  /\ job'.kind = "deploy" =>
                          /\ EventStands(job'.calendar, events', clock')
                          /\ job'.pc \in Answered => LeaseStands(job'.lease, leases', clock')
                    /\ EventStands(evidence'.calendar, events', clock')
                    /\ LeaseStands(evidence'.lease, leases', clock')
  BY DEF StandsInv
<1>1. Typed /\ clock' \in Nat
  BY DEF ReservationInv, Typed
<1>2. /\ EventStands(job.calendar, events, clock) /\ EventStands(evidence.calendar, events, clock)
      /\ job.pc \in Answered => LeaseStands(job.lease, leases, clock)
      /\ LeaseStands(evidence.lease, leases, clock)
  BY DEF StandsInv
<1>3. /\ EventStands(evidence'.calendar, events', clock')
      /\ EventStands(job.calendar, events', clock')
  BY <1>1, <1>2, EventStandsOn
<1>4. job'.kind = "deploy" => EventStands(job'.calendar, events', clock')
  BY <1>1, <1>3, EventStandsOn
<1>5. LeaseStands(evidence'.lease, leases', clock')
  <2>1. CASE evidence'.lease = evidence.lease /\ job.pc \in Leasing
    BY <2>1 DEF ReservationInv, LeaseInv, LeaseStands, LeaseHeld
  <2>2. CASE leases \subseteq leases'
    BY <1>1, <1>2, <2>2, LeaseStandsOn
  <2> QED
    BY <2>1, <2>2
<1> QED
  BY <1>3, <1>4, <1>5

LEMMA StandsStep ==
    ReservationInv /\ ChainInv /\ CoverInv /\ StandsInv /\ BoundInv /\ [Next]_vars
        => StandsInv'
<1> SUFFICES ASSUME ReservationInv, ChainInv, CoverInv, StandsInv, BoundInv, [Next]_vars
             PROVE  StandsInv'
  OBVIOUS
<1>0. /\ Typed /\ Typed' /\ clock <= clock' /\ clock' \in Nat
      /\ job.calendar \in CalendarRecord /\ job.lease \in LeaseRecord
      /\ job.now <= clock /\ meddling \in Nat
  BY ClockGrows, TypedStep, ReservationAssumption DEF ReservationInv, Typed, JobRecord, BoundInv
<1>a. Idle.kind = "none" /\ Answered \cap Unleased = {} /\ Answered \cap Leasing = {"record"}
  BY Blank DEF Answered, Unleased, Unmade, Unlisted, Leasing
<1>b. job.kind = "deploy" => accepted = "none"
  BY DEF ChainInv
\* A step of the deployment that asks for no lease.
<1>1. ASSUME NEW p \in Steps, Deploys(p), events \subseteq events', leases' = leases,
             evidence'.calendar \in {evidence.calendar, job.calendar},
             evidence'.lease = evidence.lease \/ (job.pc \in Answered /\ evidence'.lease = job.lease),
             meddling = 0 /\ job'.kind = "deploy" =>
                 /\ job'.calendar = job.calendar \/ EventStands(job'.calendar, events, clock)
                 /\ job'.pc \in Answered => LeaseStands(job'.lease, leases, clock)
      PROVE  StandsInv'
  <2>1. meddling' = meddling /\ job.kind = "deploy" /\ leases \subseteq leases' /\ clock' = clock
    BY <1>1 DEF Deploys, AtStep
  <2>2. meddling = 0 /\ job'.kind = "deploy" =>
            /\ job'.calendar = job.calendar \/ EventStands(job'.calendar, events, clock)
            /\ job'.pc \in Answered => LeaseStands(job'.lease, leases', clock')
    BY <1>1, <2>1
  <2> QED
    BY <1>0, <1>1, <2>1, <2>2, StandsOn
\* It ends.
<1>3. ASSUME NEW p, Deploys(p), Deciding, job' = Idle PROVE StandsInv'
  BY <1>3, <1>a, <1>b DEF StandsInv, Deploys, AtStep, Deciding
<1>4. CASE Invoke
  <2>1. /\ job'.calendar.status = "none" /\ evidence'.calendar.status = "none"
        /\ evidence'.lease.status = "none" /\ job'.pc = "provider"
    BY <1>4, InvokeEffect, Blank
  <2> QED
    BY <2>1 DEF StandsInv, EventStands, LeaseStands, EventHeld, LeaseHeld, Answered
<1>5. CASE ProviderContext \/ Prefix
  <2>1. PICK p \in Steps : Deploys(p)
    BY <1>0, <1>5, ContextEffect, StepNames
  <2> QED
    BY <1>0, <1>1, <1>3, <1>5, <2>1, ContextEffect
       DEF Asking, SameEvidence, SameRecords, Answered
<1>6. CASE CaptureNow
  <2>1. job'.calendar = job.calendar \/ EventStands(job'.calendar, events, clock)
    BY <1>0, <1>6, CaptureEffect DEF EventStands, EventHeld
  <2> QED
    BY <1>0, <1>1, <1>6, <2>1, CaptureEffect, StepNames
       DEF Asking, SameEvidence, SameRecords, Answered
<1>7. CASE ListCalendar \/ ProveEvent
  <2>1. PICK p \in Steps : Deploys(p)
    BY <1>0, <1>7, ListEffect, ProveEffect, StepNames
  <2>2. CASE job' = Idle
    BY <1>0, <1>3, <1>7, <2>1, <2>2, ListEffect, ProveEffect
  <2>3. CASE Onward({"create"})
    BY <1>0, <1>1, <1>7, <2>1, <2>3, ListEffect, ProveEffect
       DEF Asking, SameEvidence, SameRecords, Onward, Answered
  <2>4. CASE \E e, status : Acquires(e, status)
    <3>1. EventStands(job'.calendar, events, clock) /\ job'.pc = "save"
      BY <1>0, <2>4, AcquiredStands DEF Acquires
    <3> QED
      BY <1>0, <1>1, <1>7, <2>1, <3>1, ListEffect, ProveEffect
         DEF Asking, SameEvidence, SameRecords, Answered
  <2> QED
    BY <1>0, <1>7, <2>2, <2>3, <2>4, ListEffect, ProveEffect
<1>8. CASE CreateEvent
  <2>1. CASE job' = Idle
    BY <1>0, <1>3, <1>8, <2>1, CreateEffect
  <2>2. CASE job' # Idle
    <3>1. job'.calendar.status = "none" /\ job'.pc = "prove"
      BY <1>0, <1>8, <2>2, CreateEffect
         DEF ReservationInv, CalendarInv, Deploys, AtStep, Unmade
    <3>2. EventStands(job'.calendar, events, clock)
      BY <3>1 DEF EventStands, EventHeld
    <3>3. events \subseteq events'
      BY <1>0, <1>8, CreateEffect
    <3> QED
      BY <1>0, <1>1, <1>8, <2>2, <3>1, <3>2, <3>3, CreateEffect, StepNames
         DEF SameRecords, Answered
  <2> QED
    BY <2>1, <2>2
<1>9. CASE SaveState \/ WriteCalendar
  <2>1. PICK p \in Steps : Deploys(p)
    BY <1>0, <1>9, SaveEffect, WriteEffect, StepNames
  <2> QED
    BY <1>0, <1>1, <1>9, <2>1, SaveEffect, WriteEffect
       DEF Asking, SameEvidence, SameRecords, Onward, Answered
<1>10. CASE PrepareHosts
  <2>1. CASE job' = Idle
    BY <1>0, <1>3, <1>10, <2>1, PrepareEffect
  <2>2. CASE job' # Idle
    <3>1. job'.lease.status = "none"
      BY <1>0, <1>10, <2>2, PrepareEffect
         DEF ReservationInv, LeaseInv, Unleased, Deploys, AtStep, Onward
    <3>2. LeaseStands(job'.lease, leases, clock)
      BY <3>1 DEF LeaseStands, LeaseHeld
    <3> QED
      BY <1>0, <1>1, <1>10, <2>2, <3>2, PrepareEffect, StepNames DEF Asking, SameRecords, Onward
  <2> QED
    BY <2>1, <2>2
<1>11. CASE Window
  BY <1>0, <1>1, <1>3, <1>11, WindowEffect, StepNames DEF Asking, Answered
<1>c. job.kind = "deploy" /\ job.pc \in Windowed => job.lease.start <= clock
  BY DEF CoverInv
<1>12. CASE QueryLeases \/ VerifyLease
  <2>1. PICK p \in Steps : Deploys(p) /\ p \in Windowed
    BY <1>0, <1>12, QueryEffect, VerifyEffect, StepNames DEF Windowed
  <2>2. job.lease.start <= clock
    BY <1>c, <2>1 DEF Deploys, AtStep
  <2>3. job'.calendar = job.calendar /\ (job'.pc \in Answered => LeaseStands(job'.lease, leases, clock))
    <3>1. CASE Refuses
      BY <3>1, RefusalStands DEF Refuses, Demands
    <3>2. CASE \E l \in leases, status \in {"reused", job.lease.status} : Grants(l, status)
      BY <1>0, <2>2, <3>2, GrantStands DEF Grants, Demands
    <3>3. CASE Onward({"book"}) \/ Demands("extend")
      BY <3>3 DEF Onward, Demands, Answered
    <3> QED
      BY <1>0, <1>12, <3>1, <3>2, <3>3, QueryEffect, VerifyEffect
  <2> QED
    BY <1>0, <1>1, <1>12, <2>1, <2>3, QueryEffect, VerifyEffect
       DEF Asking, SameEvidence, SameRecords
<1>13. CASE ExtendLease \/ BookLease
  <2>1. /\ job.kind = "deploy" /\ job.pc \in Leasing /\ meddling' = meddling /\ events' = events
        /\ SameEvidence /\ job'.calendar = job.calendar
    BY <1>0, <1>13, ExtendEffect, BookEffect
       DEF Deploys, AtStep, Leasing, Refuses, Demands
  <2>2. job'.pc \in Answered => LeaseStands(job'.lease, leases', clock')
    BY <1>0, <1>13, ExtendEffect, BookEffect
       DEF Refuses, Demands, Answered, LeaseStands, LeaseHeld
  <2> QED
    BY <1>0, <2>1, <2>2, StandsOn DEF SameEvidence, SameRecords
<1>14. CASE RecordLease \/ UpdateAuthority
  <2>1. PICK p \in Steps : Deploys(p) /\ p \in Answered
    BY <1>0, <1>14, RecordEffect, UpdateEffect, StepNames DEF Answered
  <2>2. /\ Onward({"authority", "finish"}) /\ Asking
        /\ evidence'.calendar = evidence.calendar /\ evidence'.lease \in {evidence.lease, job.lease}
    BY <1>0, <1>14, RecordEffect, UpdateEffect DEF Onward
  <2>3. meddling = 0 => LeaseStands(job.lease, leases, clock)
    BY <2>1 DEF StandsInv, Deploys, AtStep
  <2> QED
    BY <1>1, <2>1, <2>2, <2>3 DEF Asking, Onward, Deploys, AtStep
<1>15. CASE FinishPhase
  <2>1. meddling = 0 => LeaseStands(job.lease, leases, clock)
    BY <1>0, <1>15, FinishEffect DEF StandsInv, Deploys, AtStep, Answered
  <2> QED
    BY <1>0, <1>1, <1>3, <1>15, <2>1, FinishEffect, StepNames DEF Asking, Onward
<1>16. CASE Accept
  BY <1>a, <1>16, AcceptEffect
     DEF StandsInv, Deploys, AtStep, Asking, SameEvidence, SameRecords
<1>17. CASE InvokeTeardown
  BY <1>17, InvokeTeardownEffect DEF StandsInv
<1>18. CASE Teardown
  BY <1>0, <1>a, <1>18, TeardownEffect DEF StandsInv, ChainInv
<1>19. CASE Dies
  BY <1>a, <1>b, <1>19, DiesEffect DEF StandsInv, Asking, SameEvidence, SameRecords
<1>20. CASE OthersChangeEvents \/ OthersChangeLeases
  <2>1. meddling' # 0
    BY <1>0, <1>20, OthersEventsEffect, OthersLeasesEffect
  <2> QED
    BY <2>1 DEF StandsInv
<1>21. CASE Tick \/ UNCHANGED vars
  <2>1. /\ UNCHANGED <<job, accepted, meddling, events, leases>> /\ SameEvidence
    BY <1>21, TickEffect, StillEffect DEF Asking
  <2> QED
    BY <1>0, <2>1, EventStandsOn, LeaseStandsOn DEF StandsInv, SameEvidence, SameRecords
<1> QED
  BY <1>4, <1>5, <1>6, <1>7, <1>8, <1>9, <1>10, <1>11, <1>12, <1>13, <1>14, <1>15, <1>16, <1>17,
     <1>18, <1>19, <1>20, <1>21 DEF Next, Deploy

(* ------------------------- the bounds of an instance ---------------------- *)
LEMMA Distributes ==
    ASSUME NEW m \in Nat, NEW g \in Nat
    PROVE  (m + 1) * g \in Nat /\ (m + 2) * g = (m + 1) * g + g /\ g <= (m + 1) * g
  BY SMT

LEMMA LeaseTopGrows ==
    ASSUME meddling \in Nat, meddling' \in {meddling, meddling + 1}
    PROVE  /\ LeaseTop \in Nat /\ LeaseTop' \in Nat /\ LeaseTop <= LeaseTop'
           /\ MaxTime + LeaseDuration + Grain <= LeaseTop
           /\ meddling' = meddling + 1 => LeaseTop' = LeaseTop + Grain
<1> USE ReservationAssumption
<1> DEFINE room == (meddling + 1) * Grain
<1>1. room \in Nat /\ Grain <= room /\ (meddling + 2) * Grain = room + Grain
  BY Distributes
<1>2. LeaseTop = MaxTime + LeaseDuration + room
  BY DEF LeaseTop
<1>3. LeaseTop' = MaxTime + LeaseDuration + (meddling' + 1) * Grain
  BY DEF LeaseTop
<1>4. CASE meddling' = meddling
  <2>1. LeaseTop' = MaxTime + LeaseDuration + room
    BY <1>3, <1>4
  <2> HIDE DEF room
  <2> QED
    BY <1>1, <1>2, <1>4, <2>1
<1>5. CASE meddling' = meddling + 1
  <2>1. meddling' + 1 = meddling + 2
    BY <1>5
  <2>2. LeaseTop' = MaxTime + LeaseDuration + (room + Grain)
    BY <1>1, <1>3, <2>1
  <2> HIDE DEF room
  <2> QED
    BY <1>1, <1>2, <1>5, <2>2
<1> QED
  BY <1>4, <1>5

LEMMA CalendarBoundKept ==
    ASSUME NEW c \in CalendarRecord, NEW m \in Nat, NEW n \in Nat, m <= n, CalendarBounded(c, m)
    PROVE  CalendarBounded(c, n)
  BY DEF CalendarBounded, CalendarRecord

LEMMA LeaseBoundKept ==
    ASSUME NEW l \in LeaseRecord, NEW m \in Nat, NEW n \in Nat, m <= n,
           NEW s \in Nat, NEW t \in Nat, s <= t, LeaseBounded(l, m, s)
    PROVE  LeaseBounded(l, n, t)
  BY DEF LeaseBounded, LeaseRecord

LEMMA BlankBounded ==
    ASSUME NEW m \in Nat, NEW t \in Nat
    PROVE  CalendarBounded(NoCalendar, m) /\ LeaseBounded(NoLease, m, t)
<1>1. EventTop \in Nat
  BY ReservationAssumption DEF EventTop
<1> QED
  BY <1>1, Blank DEF CalendarBounded, LeaseBounded

\* What is recorded comes from what was recorded, or is within the bounds anew.
LEMMA BoundKept ==
    ASSUME Typed, Typed', BoundInv,
           clock <= clock', clock' <= MaxTime,
           meddling' \in {meddling, meddling + 1}, meddling' <= MaxMeddling,
           lastId <= lastId', lastId' + Asks' <= 2 * run' + meddling',
           managed' <= lastId', job'.now <= clock',
           job'.tries <= PrefixAfterCreate + PrefixExisting,
           \A e \in events' : e \in events \/ (e.start <= clock' /\ e.end <= EventTop),
           \A l \in leases' : l \in leases \/ (l.from <= LeaseTop' /\ l.until <= LeaseTop'),
           \/ job'.calendar \in {job.calendar, evidence.calendar, NoCalendar}
           \/ CalendarBounded(job'.calendar, lastId'),
           job'.lease \in {job.lease, NoLease} \/ LeaseBounded(job'.lease, lastId', LeaseTop'),
           evidence'.calendar \in {evidence.calendar, job.calendar, NoCalendar},
           evidence'.lease \in {evidence.lease, job.lease, NoLease},
           evidence'.r2lab \in {evidence.r2lab, job.lease, NoLease}
    PROVE  BoundInv'
<1>1. /\ clock \in Nat /\ clock' \in Nat /\ lastId \in Nat /\ lastId' \in Nat
      /\ job.calendar \in CalendarRecord /\ evidence.calendar \in CalendarRecord
      /\ job.lease \in LeaseRecord /\ evidence.lease \in LeaseRecord
      /\ evidence.r2lab \in LeaseRecord
      /\ MaxMeddling \in Nat
  BY ReservationAssumption DEF Typed, JobRecord, EvidenceRecord
<1>2. meddling \in Nat /\ meddling' \in 0..MaxMeddling
  BY <1>1 DEF BoundInv
<1>3. LeaseTop \in Nat /\ LeaseTop' \in Nat /\ LeaseTop <= LeaseTop'
  BY <1>2, LeaseTopGrows
<1>4. /\ CalendarBounded(job'.calendar, lastId') /\ CalendarBounded(evidence'.calendar, lastId')
  <2>1. /\ CalendarBounded(job.calendar, lastId') /\ CalendarBounded(evidence.calendar, lastId')
        /\ CalendarBounded(NoCalendar, lastId')
    BY <1>1, CalendarBoundKept, BlankBounded DEF BoundInv
  <2> QED
    BY <2>1
<1>5. /\ LeaseBounded(job'.lease, lastId', LeaseTop')
      /\ LeaseBounded(evidence'.lease, lastId', LeaseTop')
      /\ LeaseBounded(evidence'.r2lab, lastId', LeaseTop')
  <2>1. \A l \in {job.lease, evidence.lease, evidence.r2lab, NoLease} :
            LeaseBounded(l, lastId', LeaseTop')
    <3>1. \A l \in {job.lease, evidence.lease, evidence.r2lab} : LeaseBounded(l, lastId, LeaseTop)
      BY DEF BoundInv
    <3> QED
      BY <1>1, <1>3, <3>1, LeaseBoundKept, BlankBounded
  <2> QED
    BY <2>1
<1>6. \A e \in events' : e.start <= clock' /\ e.end <= EventTop
  BY <1>1 DEF BoundInv, Typed
<1>7. \A l \in leases' : l.from <= LeaseTop' /\ l.until <= LeaseTop'
  <2>1. \A l \in leases : l.from \in Nat /\ l.until \in Nat
    BY LeaseTyped
  <2> HIDE DEF LeaseTop
  <2> QED
    BY <1>3, <2>1 DEF BoundInv
<1> QED
  BY <1>2, <1>4, <1>5, <1>6, <1>7 DEF BoundInv

LEMMA SumGrows ==
    ASSUME NEW i \in Nat, NEW m \in 0..2, NEW n \in 0..2, m <= n
    PROVE  \A j : j = i => i <= j /\ j + m <= i + n
  OBVIOUS

LEMMA BoundStep ==
    ReservationInv /\ ChainInv /\ CoverInv /\ BoundInv /\ [Next]_vars => BoundInv'
<1> SUFFICES ASSUME ReservationInv, ChainInv, CoverInv, BoundInv, [Next]_vars PROVE BoundInv'
  OBVIOUS
<1>0. /\ Typed /\ Typed' /\ clock <= clock' /\ clock \in Nat /\ clock' \in Nat
      /\ lastId \in Nat /\ managed \in Nat /\ run \in Nat
      /\ job.now \in Nat /\ job.tries \in Nat
      /\ job.calendar \in CalendarRecord /\ job.lease \in LeaseRecord
  BY ClockGrows, TypedStep, ReservationAssumption DEF ReservationInv, Typed, JobRecord
<1>a. /\ MaxTime \in Nat /\ Duration \in Nat /\ LeaseDuration \in Nat /\ Grain \in Nat
      /\ PrefixAfterCreate \in Nat /\ PrefixExisting \in Nat /\ MaxMeddling \in Nat
      /\ EventTop \in Nat /\ EventTop = MaxTime + Duration
      /\ 1 <= Duration /\ 1 <= Grain
  BY ReservationAssumption DEF EventTop
<1>b. /\ meddling \in Nat /\ meddling <= MaxMeddling /\ clock <= MaxTime
      /\ lastId + Asks <= 2 * run + meddling /\ Asks \in 0..2 /\ managed <= lastId
      /\ job.now <= clock /\ job.tries <= PrefixAfterCreate + PrefixExisting
  BY <1>a DEF BoundInv, Asks
<1>c. /\ LeaseTop \in Nat /\ MaxTime + LeaseDuration + Grain <= LeaseTop
      /\ meddling' \in {meddling, meddling + 1} => LeaseTop' \in Nat /\ LeaseTop <= LeaseTop'
      /\ meddling' = meddling + 1 => LeaseTop' = LeaseTop + Grain
      /\ meddling' = meddling => LeaseTop' = LeaseTop
  <2>1. LeaseTop \in Nat /\ MaxTime + LeaseDuration + Grain <= LeaseTop
    <3>1. (meddling + 1) * Grain \in Nat /\ Grain <= (meddling + 1) * Grain
      BY <1>a, <1>b, Distributes
    <3> QED
      BY <1>a, <3>1 DEF LeaseTop
  <2>2. meddling' = meddling => LeaseTop' = LeaseTop
    BY DEF LeaseTop
  <2> QED
    BY <1>b, <2>1, <2>2, LeaseTopGrows
<1> HIDE DEF LeaseTop
<1>d. /\ Idle.kind = "none" /\ Idle.now = 0 /\ Idle.tries = 0
      /\ Idle.calendar = NoCalendar /\ Idle.lease = NoLease
  BY Blank
<1>e. job'.kind # "deploy" => Asks' = 0
  BY DEF Asks
\* A step of the deployment: the events and leases it makes, and the records.
<1>1. ASSUME NEW p, Deploys(p), lastId <= lastId', lastId' + Asks' <= lastId + Asks,
             managed' \in {managed, job.calendar.id},
             job' = Idle
             \/ (/\ job'.now \in {job.now, clock}
                 /\ job'.tries \in Nat
                 /\ job'.tries <= PrefixAfterCreate + PrefixExisting
                 /\ \/ job'.calendar \in {job.calendar, evidence.calendar, NoCalendar}
                    \/ CalendarBounded(job'.calendar, lastId')
                 /\ job'.lease \in {job.lease, NoLease}
                    \/ LeaseBounded(job'.lease, lastId', LeaseTop')),
             \A e \in events' : e \in events \/ (e.start <= clock /\ e.end <= EventTop),
             \A l \in leases' : l \in leases \/ (l.from <= LeaseTop /\ l.until <= LeaseTop),
             evidence'.calendar \in {evidence.calendar, job.calendar, NoCalendar},
             evidence'.lease \in {evidence.lease, job.lease, NoLease},
             evidence'.r2lab \in {evidence.r2lab, job.lease, NoLease}
      PROVE  BoundInv'
  <2>1. clock' = clock /\ meddling' = meddling /\ run' = run
    BY <1>1 DEF Deploys
  <2>2. job.calendar.id <= lastId /\ job.calendar.id \in Nat
    BY <1>0 DEF BoundInv, CalendarBounded, CalendarRecord
  <2>3. lastId' \in Nat /\ managed' <= lastId'
    BY <1>0, <1>1, <1>b, <2>2 DEF Typed
  <2>4. Asks' \in Nat /\ lastId' + Asks' <= 2 * run' + meddling'
    <3>1. Asks' \in Nat
      BY DEF Asks
    <3> QED
      BY <1>0, <1>1, <1>b, <2>1, <2>3, <3>1
  <2>5. /\ job'.now <= clock' /\ job'.tries <= PrefixAfterCreate + PrefixExisting
        /\ \/ job'.calendar \in {job.calendar, evidence.calendar, NoCalendar}
           \/ CalendarBounded(job'.calendar, lastId')
        /\ job'.lease \in {job.lease, NoLease} \/ LeaseBounded(job'.lease, lastId', LeaseTop')
    BY <1>0, <1>1, <1>a, <1>b, <1>d, <2>1
  <2> QED
    BY <1>0, <1>1, <1>b, <1>c, <2>1, <2>3, <2>4, <2>5, BoundKept
<1>2. CASE Invoke
  <2>1. Asks' = 2 /\ Asks = 0
    BY <1>2, <1>d, InvokeEffect DEF Asks
  <2> QED
    BY <1>0, <1>2, <1>a, <1>b, <2>1, InvokeEffect, BoundKept DEF Asking
<1>f. Asking => events' = events /\ leases' = leases /\ lastId' = lastId
  BY DEF Asking
<1>g. ASSUME Asking, Asks' <= Asks
      PROVE  lastId <= lastId' /\ lastId' + Asks' <= lastId + Asks
  <2>1. Asks' \in 0..2 /\ Asks \in 0..2
    BY DEF Asks
  <2>2. lastId' = lastId
    BY <1>g DEF Asking
  <2> QED
    BY <1>0, <1>g, <2>1, <2>2, SumGrows, Zenon
<1>3. CASE ProviderContext \/ Prefix
  <2>1. PICK p : Deploys(p) /\ p = job.pc /\ p \in {"provider", "prefix"}
    BY <1>0, <1>3, ContextEffect
  <2>2. Asks' <= Asks
    BY <1>0, <1>3, <1>d, <2>1, ContextEffect DEF Asks, Deploys, AtStep
  <2> QED
    BY <1>0, <1>1, <1>3, <1>a, <1>b, <1>f, <1>g, <2>1, <2>2, ContextEffect DEF Deciding, SameRecords
<1>4. CASE CaptureNow
  <2>1. Asks' <= Asks
    BY <1>0, <1>4, CaptureEffect DEF Asks, Deploys, AtStep
  <2>2. CalendarBounded(job'.calendar, lastId)
    BY <1>0, <1>4, CaptureEffect DEF BoundInv, CalendarBounded
  <2> QED
    BY <1>0, <1>1, <1>4, <1>b, <1>f, <1>g, <2>1, <2>2, CaptureEffect
       DEF Deciding, SameEvidence, SameRecords
<1>5. ASSUME NEW p, Deploys(p), p \in {"list", "prove"}, Asking, Deciding, SameRecords,
             NEW e, NEW status, Acquires(e, status)
      PROVE  BoundInv'
  <2>1. e.id \in Nat /\ e.end \in Nat /\ e.id <= lastId /\ e.end <= EventTop
    BY <1>0, <1>5 DEF Typed, Acquires, BoundInv
  <2>2. CalendarBounded(job'.calendar, lastId')
    BY <1>0, <1>5, <1>a, <1>b, <1>f, <1>g, <2>1 DEF Acquires, CalendarBounded
  <2>3. Asks' <= Asks
    BY <1>5 DEF Asks, Deploys, AtStep, Acquires
  <2> QED
    BY <1>0, <1>1, <1>5, <1>b, <1>f, <1>g, <2>2, <2>3 DEF Acquires, JobKeeps, Deciding, SameRecords
<1>6. CASE ListCalendar
  <2>1. ASSUME job' = Idle \/ Onward({"create"}) PROVE BoundInv'
    <3>1. Asks' <= Asks
      BY <1>0, <1>6, <1>d, <2>1, ListEffect DEF Asks, Deploys, AtStep, Onward
    <3> QED
      BY <1>0, <1>1, <1>6, <1>b, <1>f, <1>g, <2>1, <3>1, ListEffect
         DEF Onward, JobKeeps, Deciding, SameRecords
  <2> QED
    BY <1>0, <1>5, <1>6, <2>1, ListEffect
<1>7. CASE CreateEvent
  <2>1. lastId <= lastId' /\ lastId' + Asks' <= lastId + Asks
    BY <1>0, <1>7, <1>d, CreateEffect DEF Asks, Deploys, AtStep
  <2>2. \A e \in events' : e \in events \/ (e.start <= clock /\ e.end <= EventTop)
    BY <1>0, <1>7, <1>a, <1>b, CreateEffect
  <2>3. CASE job' = Idle
    BY <1>0, <1>1, <1>7, <2>1, <2>2, <2>3, CreateEffect DEF Deciding, SameRecords
  <2>4. CASE job' # Idle
    <3>1. CalendarBounded(job'.calendar, lastId')
      BY <1>0, <1>7, <2>4, CreateEffect DEF CalendarBounded, BoundInv
    <3> QED
      BY <1>0, <1>1, <1>7, <1>b, <2>1, <2>2, <2>4, <3>1, CreateEffect
         DEF Deciding, SameRecords, JobKeeps
  <2> QED
    BY <2>3, <2>4
<1>8. CASE ProveEvent
  <2>1. ASSUME job' = Idle PROVE BoundInv'
    <3>1. Asks' <= Asks
      BY <1>b, <1>d, <1>e, <2>1
    <3> QED
      BY <1>0, <1>1, <1>8, <1>f, <1>g, <2>1, <3>1, ProveEffect DEF Deciding, SameRecords
  <2> QED
    BY <1>0, <1>5, <1>8, <2>1, ProveEffect
<1>9. CASE SaveState
  <2>1. Asks' <= Asks
    BY <1>0, <1>9, SaveEffect DEF Asks, Deploys, AtStep, Onward
  <2> QED
    BY <1>0, <1>1, <1>9, <1>b, <1>f, <1>g, <2>1, SaveEffect
       DEF Onward, JobKeeps, SameEvidence, SameRecords
<1>10. CASE WriteCalendar
  <2>1. Asks' <= Asks
    BY <1>0, <1>10, WriteEffect DEF Asks, Deploys, AtStep, Onward
  <2> QED
    BY <1>0, <1>1, <1>10, <1>b, <1>f, <1>g, <2>1, WriteEffect DEF Onward, JobKeeps, Deciding
<1>11. CASE PrepareHosts
  <2>1. Asks' <= Asks
    BY <1>0, <1>11, <1>b, <1>d, <1>e, PrepareEffect DEF Asks, Deploys, AtStep, Onward
  <2> QED
    BY <1>0, <1>1, <1>11, <1>b, <1>f, <1>g, <2>1, PrepareEffect
       DEF Onward, JobKeeps, Deciding, SameRecords
<1>h. LeaseBounded(job.lease, lastId, LeaseTop)
  BY DEF BoundInv
<1>12. CASE Window
  <2>1. Asks' <= Asks
    BY <1>0, <1>12, <1>b, <1>d, <1>e, WindowEffect DEF Asks, Deploys, AtStep
  <2>2. CASE job' = Idle
    BY <1>0, <1>1, <1>12, <1>f, <1>g, <2>1, <2>2, WindowEffect DEF Deciding
  <2>3. CASE job' # Idle
    <3>1. /\ WindowStart \in Nat /\ WindowEnd \in Nat
          /\ WindowStart <= clock /\ WindowEnd <= clock + LeaseDuration
      BY <1>0, <1>12, <2>3, WindowEffect, WindowTyped, WindowBounds
    <3>2. WindowStart <= LeaseTop /\ WindowEnd <= LeaseTop
      BY <1>0, <1>a, <1>b, <1>c, <3>1
    <3>3. LeaseBounded(job'.lease, lastId', LeaseTop')
      BY <1>0, <1>12, <1>c, <1>f, <1>h, <2>3, <3>2, WindowEffect
         DEF LeaseBounded, SameAnswer, Deploys
    <3> QED
      BY <1>0, <1>1, <1>12, <1>b, <1>f, <1>g, <2>1, <2>3, <3>3, WindowEffect
         DEF Deciding, JobKeeps
  <2> QED
    BY <2>2, <2>3
<1>i. Refuses => LeaseBounded(job'.lease, lastId, LeaseTop)
  BY <1>h DEF Refuses, Demands, SameDemand, SameAnswer, LeaseBounded
<1>j. ASSUME NEW l \in leases, NEW status, Grants(l, status)
      PROVE  LeaseBounded(job'.lease, lastId, LeaseTop)
  <2>1. l.id <= lastId /\ l.from <= LeaseTop /\ l.until <= LeaseTop
    BY <1>0 DEF Typed, BoundInv
  <2> QED
    BY <1>h, <1>j, <2>1 DEF Grants, Demands, SameDemand, LeaseBounded
<1>13. CASE QueryLeases
  <2>1. Asks' <= Asks
    BY <1>0, <1>13, QueryEffect DEF Asks, Deploys, AtStep, Refuses, Grants, Demands, Onward
  <2>2. LeaseBounded(job'.lease, lastId, LeaseTop)
    <3>1. CASE Demands("extend") /\ job'.lease.from = job.lease.from
               /\ job'.lease.until = job.lease.until /\ job'.lease.id \in {l.id : l \in leases}
      <4>1. job'.lease.id <= lastId
        BY <1>0, <3>1 DEF Typed
      <4> QED
        BY <1>h, <3>1, <4>1 DEF Demands, SameDemand, LeaseBounded
    <3> QED
      BY <1>0, <1>13, <1>h, <1>i, <1>j, <3>1, QueryEffect DEF Onward
  <2>3. job'.calendar = job.calendar /\ JobKeeps
    BY <1>0, <1>13, QueryEffect DEF Refuses, Grants, Demands, Onward
  <2> QED
    BY <1>0, <1>1, <1>13, <1>b, <1>c, <1>f, <1>g, <2>1, <2>2, <2>3, QueryEffect
       DEF Deciding, JobKeeps, SameEvidence, SameRecords, Deploys
<1>k. Refuses \/ (Demands("verify") /\ SameAnswer) =>
          /\ LeaseBounded(job'.lease, lastId, LeaseTop)
          /\ job'.calendar = job.calendar /\ JobKeeps
  BY <1>h DEF Refuses, Demands, SameDemand, SameAnswer, LeaseBounded
<1>14. CASE ExtendLease
  <2>1. Asks' <= Asks
    BY <1>0, <1>14, ExtendEffect DEF Asks, Deploys, AtStep, Refuses, Demands
  <2>2. \A l \in leases' : l \in leases \/ (l.from <= LeaseTop /\ l.until <= LeaseTop)
    <3>1. ASSUME NEW p \in leases,
                 leases' = (leases \ {p}) \cup {[p EXCEPT !.until = job.lease.end]}
          PROVE  \A l \in leases' : l \in leases \/ (l.from <= LeaseTop /\ l.until <= LeaseTop)
      <4> DEFINE new == [p EXCEPT !.until = job.lease.end]
      <4>a. leases' = (leases \ {p}) \cup {new}
        BY <3>1
      <4>1. new.from = p.from /\ new.until = job.lease.end
        BY <1>0 DEF Typed
      <4>2. new.from <= LeaseTop /\ new.until <= LeaseTop
        BY <1>h, <4>1 DEF BoundInv, LeaseBounded
      <4> HIDE DEF new
      <4> QED
        BY <4>a, <4>2
    <3> QED
      BY <1>0, <1>14, <3>1, ExtendEffect
  <2>3. lastId' = lastId /\ LeaseTop' = LeaseTop
    BY <1>0, <1>14, <1>c, ExtendEffect DEF Deploys
  <2>4. lastId <= lastId' /\ lastId' + Asks' <= lastId + Asks
    <3>1. Asks' \in 0..2
      BY DEF Asks
    <3> QED
      BY <1>0, <1>b, <2>1, <2>3, <3>1, SumGrows, Zenon
  <2> QED
    BY <1>0, <1>1, <1>14, <1>b, <1>k, <2>2, <2>3, <2>4, ExtendEffect
       DEF Deciding, JobKeeps, SameEvidence, SameRecords
<1>15. CASE BookLease
  <2>1. lastId <= lastId' /\ lastId' + Asks' <= lastId + Asks
    BY <1>0, <1>15, BookEffect DEF Asks, Deploys, AtStep, Refuses, Demands
  <2>2. \A l \in leases' : l \in leases \/ (l.from <= LeaseTop /\ l.until <= LeaseTop)
    BY <1>0, <1>15, <1>h, BookEffect DEF LeaseBounded
  <2>3. LeaseBounded(job'.lease, lastId', LeaseTop')
    <3>1. LeaseBounded(job'.lease, lastId, LeaseTop) /\ job'.lease \in LeaseRecord
      BY <1>0, <1>15, <1>k, BookEffect DEF Typed, JobRecord
    <3>2. lastId' \in Nat /\ LeaseTop' = LeaseTop
      BY <1>0, <1>15, <1>c, BookEffect DEF Typed, Deploys
    <3> QED
      BY <1>0, <1>c, <2>1, <3>1, <3>2, LeaseBoundKept
  <2> QED
    BY <1>0, <1>1, <1>15, <1>b, <1>k, <2>1, <2>2, <2>3, BookEffect
       DEF Deciding, JobKeeps, SameEvidence, SameRecords
<1>16. CASE VerifyLease
  <2>1. Asks' <= Asks
    BY <1>0, <1>16, VerifyEffect DEF Asks, Deploys, AtStep, Refuses, Grants, Demands
  <2>2. LeaseBounded(job'.lease, lastId, LeaseTop) /\ job'.calendar = job.calendar /\ JobKeeps
    BY <1>0, <1>16, <1>i, <1>j, VerifyEffect DEF Refuses, Grants, Demands
  <2> QED
    BY <1>0, <1>1, <1>16, <1>b, <1>c, <1>f, <1>g, <2>1, <2>2, VerifyEffect
       DEF Deciding, JobKeeps, SameEvidence, SameRecords, Deploys
<1>17. CASE RecordLease
  <2>1. Asks' <= Asks
    BY <1>0, <1>17, RecordEffect DEF Asks, Deploys, AtStep, Onward
  <2> QED
    BY <1>0, <1>1, <1>17, <1>b, <1>f, <1>g, <2>1, RecordEffect DEF Onward, JobKeeps, Deciding
<1>18. CASE UpdateAuthority
  <2>1. Asks' <= Asks
    BY <1>0, <1>18, UpdateEffect DEF Asks, Deploys, AtStep, Onward
  <2> QED
    BY <1>0, <1>1, <1>18, <1>b, <1>f, <1>g, <2>1, UpdateEffect DEF Onward, JobKeeps, Deciding
<1>19. CASE FinishPhase
  <2>1. Asks' <= Asks
    BY <1>0, <1>19, <1>b, <1>d, <1>e, FinishEffect DEF Asks, Deploys, AtStep, Onward
  <2> QED
    BY <1>0, <1>1, <1>19, <1>b, <1>f, <1>g, <2>1, FinishEffect DEF Onward, JobKeeps, Deciding
<1>20. CASE Accept
  <2>1. Asks' <= Asks
    BY <1>20, <1>b, <1>d, <1>e, AcceptEffect
  <2> QED
    BY <1>0, <1>1, <1>20, <1>b, <1>f, <1>g, <2>1, AcceptEffect DEF SameEvidence, SameRecords
\* The steps of a teardown, which makes nothing, and of the others.
<1>21. CASE InvokeTeardown
  <2>1. Asks' = 0
    BY <1>21, <1>e, InvokeTeardownEffect
  <2> QED
    BY <1>0, <1>21, <1>a, <1>b, <1>f, <2>1, InvokeTeardownEffect, BoundKept
       DEF SameEvidence, SameRecords
<1>22. CASE Teardown
  <2>1. Asks' = 0
    BY <1>0, <1>22, <1>d, <1>e, TeardownEffect
  <2>2. \A l \in leases' : l \in leases \/ (l.from <= LeaseTop' /\ l.until <= LeaseTop')
    <3>1. LeaseTop' = LeaseTop
      BY <1>0, <1>22, <1>c, TeardownEffect
    <3>2. ASSUME NEW p \in leases, leases' \subseteq leases \cup {[p EXCEPT !.until = clock]}
          PROVE  \A l \in leases' : l \in leases \/ (l.from <= LeaseTop /\ l.until <= LeaseTop)
      <4> DEFINE new == [p EXCEPT !.until = clock]
      <4>a. leases' \subseteq leases \cup {new}
        BY <3>2
      <4>1. new.from = p.from /\ new.until = clock
        BY <1>0 DEF Typed
      <4>2. new.from <= LeaseTop /\ new.until <= LeaseTop
        BY <1>0, <1>a, <1>b, <1>c, <4>1 DEF BoundInv
      <4> HIDE DEF new
      <4> QED
        BY <4>a, <4>2
    <3> QED
      BY <1>0, <1>22, <3>1, <3>2, TeardownEffect
  <2>3. managed' <= lastId'
    BY <1>0, <1>22, <1>b, TeardownEffect
  <2>4. /\ job'.now <= clock' /\ job'.tries <= PrefixAfterCreate + PrefixExisting
        /\ job'.calendar \in {job.calendar, evidence.calendar, NoCalendar}
        /\ job'.lease \in {job.lease, NoLease}
    BY <1>0, <1>22, <1>a, <1>b, <1>d, TeardownEffect DEF JobKeeps
  <2> QED
    BY <1>0, <1>22, <1>b, <2>1, <2>2, <2>3, <2>4, TeardownEffect, BoundKept
       DEF SameEvidence, SameRecords
<1>23. CASE Dies
  <2>1. Asks' = 0
    BY <1>23, <1>d, <1>e, DiesEffect
  <2> QED
    BY <1>0, <1>23, <1>a, <1>b, <1>d, <1>f, <2>1, DiesEffect, BoundKept
       DEF SameEvidence, SameRecords
<1>l. UNCHANGED job => Asks' = Asks
  BY DEF Asks
<1>24. CASE Tick \/ UNCHANGED vars
  BY <1>0, <1>24, <1>a, <1>b, <1>f, <1>l, TickEffect, StillEffect, BoundKept
     DEF SameEvidence, SameRecords
<1>25. CASE OthersChangeEvents
  <2>1. \A e \in events' : e \in events \/ (e.start <= clock' /\ e.end <= EventTop)
    BY <1>0, <1>25, <1>a, <1>b, OthersEventsEffect
  <2>2. lastId <= lastId' /\ lastId' + Asks' <= 2 * run' + meddling' /\ managed' <= lastId'
    BY <1>0, <1>25, <1>b, <1>l, OthersEventsEffect
  <2> QED
    BY <1>0, <1>25, <1>a, <1>b, <2>1, <2>2, OthersEventsEffect, BoundKept
       DEF SameEvidence, SameRecords
<1>26. CASE OthersChangeLeases
  <2>1. LeaseTop' = LeaseTop + Grain
    BY <1>26, <1>c, OthersLeasesEffect
  <2>2. \A l \in leases' : l \in leases \/ (l.from <= LeaseTop' /\ l.until <= LeaseTop')
    <3>1. ASSUME NEW p \in leases,
                 leases' \subseteq leases \cup {[p EXCEPT !.until = p.until + Grain]}
          PROVE  \A l \in leases' : l \in leases \/ (l.from <= LeaseTop' /\ l.until <= LeaseTop')
      <4> DEFINE new == [p EXCEPT !.until = p.until + Grain]
      <4>a. leases' \subseteq leases \cup {new}
        BY <3>1
      <4>1. new.from = p.from /\ new.until = p.until + Grain /\ p.from \in Nat /\ p.until \in Nat
        BY <1>0 DEF Typed
      <4>2. p.from <= LeaseTop /\ p.until <= LeaseTop
        BY DEF BoundInv
      <4>3. new.from <= LeaseTop' /\ new.until <= LeaseTop'
        BY <1>a, <1>c, <2>1, <4>1, <4>2
      <4> HIDE DEF new
      <4> QED
        BY <4>a, <4>3
    <3>2. ASSUME NEW start \in {WindowStart, WindowStart + Grain},
                 NEW end \in {start + Grain, start + LeaseDuration}
          PROVE  start <= LeaseTop' /\ end <= LeaseTop'
      <4>1. WindowStart \in Nat /\ WindowStart <= clock
        BY <1>0, WindowTyped
      <4>2. start \in Nat /\ start <= MaxTime + Grain
        BY <1>0, <1>a, <1>b, <4>1
      <4>3. end \in Nat /\ end <= MaxTime + Grain + LeaseDuration + Grain
        BY <1>a, <4>2
      <4> QED
        BY <1>a, <1>c, <2>1, <4>2, <4>3
    <3> QED
      BY <1>26, <3>1, <3>2, OthersLeasesEffect
  <2>3. lastId <= lastId' /\ lastId' + Asks' <= 2 * run' + meddling' /\ managed' <= lastId'
    BY <1>0, <1>26, <1>b, <1>l, OthersLeasesEffect
  <2> QED
    BY <1>0, <1>26, <1>a, <1>b, <2>2, <2>3, OthersLeasesEffect, BoundKept
       DEF SameEvidence, SameRecords
<1> QED
  BY <1>2, <1>3, <1>4, <1>6, <1>7, <1>8, <1>9, <1>10, <1>11, <1>12, <1>13, <1>14, <1>15, <1>16,
     <1>17, <1>18, <1>19, <1>20, <1>21, <1>22, <1>23, <1>24, <1>25, <1>26 DEF Next, Deploy

(* ------------------------- the block of a campaign ------------------------ *)
\* A set of numbers has a smallest one; a bounded one has a largest.
LEMMA NatMin ==
    ASSUME NEW T, T \subseteq Nat, T # {}
    PROVE  \E x \in T : \A y \in T : x <= y
<1> DEFINE R == {ss \in Nat \X Nat : ss[1] < ss[2]}
<1>1. IsWellFoundedOn(R, Nat)
  BY NatLessThanWellFounded DEF OpToRel
<1>2. \E x \in T : \A y \in T : ~(<<y, x>> \in R)
  <2> HIDE DEF R
  <2> QED
    BY <1>1, WFMin
<1>3. \A x, y \in Nat : ~(<<y, x>> \in R) => x <= y
  BY DEF R
<1> HIDE DEF R
<1> QED
  BY <1>2, <1>3

LEMMA NatMax ==
    ASSUME NEW T, T \subseteq Nat, T # {}, NEW B \in Nat, \A t \in T : t <= B
    PROVE  \E x \in T : \A y \in T : y <= x
<1> DEFINE D == {B - t : t \in T}
<1>1. D \subseteq Nat /\ D # {}
  <2>1. \A t \in T : B - t \in Nat
    OBVIOUS
  <2>2. PICK t \in T : TRUE
    OBVIOUS
  <2>3. B - t \in D
    OBVIOUS
  <2> QED
    BY <2>1, <2>3
<1>2. PICK d \in D : \A y \in D : d <= y
  <2> HIDE DEF D
  <2> QED
    BY <1>1, NatMin
<1>3. PICK x \in T : d = B - x
  BY <1>2
<1>4. \A y \in T : B - y \in D
  OBVIOUS
<1>5. ASSUME NEW y \in T PROVE y <= x
  <2>1. B - x <= B - y
    BY <1>2, <1>3, <1>4
  <2>2. x \in Nat /\ y \in Nat
    OBVIOUS
  <2> QED
    BY <2>1, <2>2
<1> QED
  BY <1>5

\* What others tell of the reservation is within the time covered.
LEMMA Known ==
    ASSUME Typed, BoundInv
    PROVE  /\ Unknown \in Nat /\ EventTop < Unknown /\ LeaseTop < Unknown
           /\ EventTop \in Nat /\ LeaseTop \in Nat
<1> USE ReservationAssumption
<1>1. meddling \in Nat /\ meddling <= MaxMeddling /\ MaxMeddling \in Nat
  BY DEF BoundInv
<1>2. /\ (meddling + 1) * Grain \in Nat /\ (MaxMeddling + 1) * Grain \in Nat
      /\ (meddling + 1) * Grain <= (MaxMeddling + 1) * Grain
  <2>1. \A m, k, g \in Nat : (m + 1) * g \in Nat /\ (m + k + 1) * g = (m + 1) * g + k * g
                             /\ k * g \in Nat
    BY SMT
  <2>2. PICK k \in Nat : MaxMeddling = meddling + k
    <3>1. MaxMeddling - meddling \in Nat /\ MaxMeddling = meddling + (MaxMeddling - meddling)
      BY <1>1
    <3> QED
      BY <3>1
  <2>3. /\ (meddling + 1) * Grain \in Nat /\ k * Grain \in Nat
        /\ (meddling + k + 1) * Grain = (meddling + 1) * Grain + k * Grain
    BY <1>1, <2>1
  <2>4. (MaxMeddling + 1) * Grain = (meddling + 1) * Grain + k * Grain
    BY <2>2, <2>3
  <2> QED
    BY <2>3, <2>4
<1> QED
  BY <1>2 DEF Unknown, EventTop, LeaseTop

LEMMA BlocksHeld ==
    ASSUME Typed, EvidenceInv
    PROVE  BlocksAreHeld
<1> SUFFICES ASSUME accepted = "accepted", meddling = 0,
                    NEW pos \in {SavedPosCoverage, FreshPosCoverage} \ {Unknown},
                    NEW length \in 1..Duration, BlockFits(CoverageEnd(pos), length)
             PROVE  /\ \E e \in events : e.start <= clock /\ clock + length <= e.end
                    /\ evidence.lease.status \in {"booked", "reused", "extended"} =>
                        \E l \in leases :
                            l.ours /\ l.from <= clock /\ clock + length <= l.until
  BY DEF BlocksAreHeld
<1>1. /\ Unknown \in Nat /\ EventTop < Unknown /\ LeaseTop < Unknown
      /\ EventTop \in Nat /\ LeaseTop \in Nat
  BY Known DEF EvidenceInv
<1>2. /\ clock \in Nat /\ length \in Nat /\ 1 <= length
      /\ evidence.lease.until \in Nat /\ evidence.lease.until <= LeaseTop
      /\ evidence.calendar.end \in Nat /\ evidence.calendar.end <= EventTop
  BY ReservationAssumption DEF Typed, EvidenceRecord, LeaseRecord, CalendarRecord,
     EvidenceInv, BoundInv, LeaseBounded, CalendarBounded
<1>3. PICK e \in events : e.start <= clock /\ e.end = pos
  <2>1. CASE pos = SavedPosCoverage
    BY <2>1 DEF SavedPosCoverage, EvidenceInv, StandsInv, EventStands, EventHeld
  <2>2. CASE pos = FreshPosCoverage
    <3> DEFINE covering == {q.end : q \in {q \in events : q.start <= clock /\ clock < q.end}}
    <3>1. covering # {} /\ pos = CHOOSE t \in covering : \A u \in covering : u <= t
      BY <2>2 DEF FreshPosCoverage
    <3>2. covering \subseteq Nat /\ \A t \in covering : t <= EventTop
      BY DEF Typed, EvidenceInv, BoundInv
    <3>3. \E t \in covering : \A u \in covering : u <= t
      <4> HIDE DEF covering
      <4> QED
        BY <1>1, <3>1, <3>2, NatMax
    <3>4. pos \in covering
      <4> HIDE DEF covering
      <4> QED
        BY <3>1, <3>3
    <3> QED
      BY <3>4
  <2> QED
    BY <2>1, <2>2
<1>4. pos \in Nat /\ pos <= EventTop
  BY <1>3 DEF Typed, EvidenceInv, BoundInv
<1> DEFINE end == CoverageEnd(pos)
<1>5. R2LabCoverage \in Nat
  BY <1>1, <1>2 DEF R2LabCoverage
<1>6. end \in Nat /\ end <= pos /\ end <= R2LabCoverage
  BY <1>4, <1>5 DEF CoverageEnd, Earlier
<1>7. clock + length <= end
  <2>1. end # Unknown
    BY <1>1, <1>4, <1>6
  <2>2. Remaining(end) >= length
    BY <2>1 DEF BlockFits
  <2> QED
    BY <1>2, <1>6, <2>2 DEF Remaining
<1> HIDE DEF end
<1>8. e.start <= clock /\ clock + length <= e.end
  BY <1>2, <1>3, <1>4, <1>6, <1>7
<1>9. ASSUME evidence.lease.status \in {"booked", "reused", "extended"}
      PROVE  \E l \in leases : l.ours /\ l.from <= clock /\ clock + length <= l.until
  <2>1. R2LabCoverage = evidence.lease.until
    BY <1>9 DEF R2LabCoverage
  <2>2. PICK l \in leases : l.ours /\ l.until = evidence.lease.until /\ l.from <= clock
    BY <1>9 DEF EvidenceInv, StandsInv, LeaseStands, LeaseHeld
  <2> QED
    BY <1>2, <1>5, <1>6, <1>7, <2>1, <2>2
<1> QED
  BY <1>8, <1>9

(* ----------------------------- bounded types ------------------------------ *)
LEMMA StateInBounds ==
    ASSUME Typed, EvidenceInv
    PROVE  TypeOK
<1>1. /\ Unknown \in Nat /\ EventTop < Unknown /\ LeaseTop < Unknown
      /\ EventTop \in Nat /\ LeaseTop \in Nat
  BY Known DEF EvidenceInv
<1>2. Times = 0..Unknown - 1
  <2>1. \A n \in Nat : n + 1 - 1 = n
    OBVIOUS
  <2>2. (MaxMeddling + 1) * Grain \in Nat
    BY ReservationAssumption, Distributes
  <2> QED
    BY <2>1, <2>2, ReservationAssumption DEF Times, Unknown
<1>3. \A t \in Nat : t <= EventTop \/ t <= LeaseTop => t \in Times
  BY <1>1, <1>2
<1>4. /\ lastId \in Nat /\ run \in 0..NumRuns /\ NumRuns \in Nat /\ MaxMeddling \in Nat
      /\ meddling \in 0..MaxMeddling /\ clock \in 0..MaxTime /\ MaxTime \in Nat
      /\ Asks \in 0..2 /\ lastId + Asks <= 2 * run + meddling
  BY ReservationAssumption DEF Typed, EvidenceInv, BoundInv, Asks
<1>5. \A i \in Nat : i <= lastId => i \in Ids
  BY <1>4 DEF Ids
<1>6. ASSUME NEW c \in CalendarRecord, CalendarBounded(c, lastId) PROVE c \in CalendarRecords
  BY <1>3, <1>5, <1>6 DEF CalendarRecord, CalendarBounded, CalendarRecords
<1>7. ASSUME NEW l \in LeaseRecord, LeaseBounded(l, lastId, LeaseTop) PROVE l \in LeaseRecords
  BY <1>3, <1>5, <1>7 DEF LeaseRecord, LeaseBounded, LeaseRecords
<1>8. events \subseteq EventSet
  <2> SUFFICES ASSUME NEW e \in events PROVE e \in EventSet
    OBVIOUS
  <2>1. e \in [id : 1..lastId, start : Nat, end : Nat] /\ e.start <= clock /\ e.end <= EventTop
    BY DEF Typed, EvidenceInv, BoundInv
  <2>2. clock <= EventTop
    BY <1>4, ReservationAssumption DEF EventTop
  <2>3. e.id \in Ids /\ e.start \in Times /\ e.end \in Times
    BY <1>1, <1>3, <1>4, <1>5, <2>1, <2>2
  <2> QED
    BY <2>1, <2>3 DEF EventSet
<1>9. leases \subseteq LeaseSet
  <2> SUFFICES ASSUME NEW l \in leases PROVE l \in LeaseSet
    OBVIOUS
  <2>1. /\ l \in [id : 1..lastId, ours : BOOLEAN, from : Nat, until : Nat]
        /\ l.from <= LeaseTop /\ l.until <= LeaseTop
    BY DEF Typed, EvidenceInv, BoundInv
  <2>2. l.id \in Ids /\ l.from \in Times /\ l.until \in Times
    BY <1>1, <1>3, <1>4, <1>5, <2>1
  <2> QED
    BY <2>1, <2>2 DEF LeaseSet
<1>10. evidence \in [status : {"none", "preparing", "ready", "failed"},
                     failure : {"none", "short", "other"},
                     calendar : CalendarRecords, lease : LeaseRecords, r2lab : LeaseRecords,
                     timing : {"none", "running", "failed", "success"}, seen : SUBSET Ids]
  <2>1. evidence \in EvidenceRecord /\ evidence.seen \subseteq 1..lastId
    BY DEF Typed
  <2>2. /\ evidence.calendar \in CalendarRecords
        /\ evidence.lease \in LeaseRecords /\ evidence.r2lab \in LeaseRecords
    BY <1>6, <1>7, <2>1 DEF EvidenceRecord, EvidenceInv, BoundInv
  <2>3. evidence.seen \subseteq Ids
    BY <1>4, <1>5, <2>1
  <2> QED
    BY <2>1, <2>2, <2>3 DEF EvidenceRecord
<1>11. job \in [kind : {"none", "deploy", "teardown"}, pc : JobSteps, policy : PolicySet,
                keep : BOOLEAN, now : Times, tries : 0..PrefixAfterCreate + PrefixExisting,
                calendar : CalendarRecords, lease : LeaseRecords]
  <2>1. job \in JobRecord
    BY DEF Typed
  <2>2. job.calendar \in CalendarRecords /\ job.lease \in LeaseRecords
    BY <1>6, <1>7, <2>1 DEF JobRecord, EvidenceInv, BoundInv
  <2>3. job.tries \in 0..PrefixAfterCreate + PrefixExisting
    BY <2>1, ReservationAssumption DEF JobRecord, EvidenceInv, BoundInv
  <2>4. job.now \in Times
    <3>1. job.now \in Nat /\ job.now <= clock
      BY <2>1 DEF JobRecord, EvidenceInv, BoundInv
    <3>2. clock <= EventTop
      BY <1>4, ReservationAssumption DEF EventTop
    <3> QED
      BY <1>1, <1>3, <1>4, <3>1, <3>2
  <2>5. job.pc \in JobSteps
    BY <2>1 DEF JobRecord, JobSteps, Steps, Unleased, Unmade, Unlisted, Leasing
  <2> QED
    BY <2>1, <2>2, <2>3, <2>4, <2>5 DEF JobRecord
<1>12. managed \in Ids /\ lastId \in Ids
  BY <1>4, <1>5 DEF Typed, EvidenceInv, BoundInv
<1>13. experiment \in BOOLEAN /\ outcome \in Outcomes /\ accepted \in {"none", "accepted", "stopping"}
  BY DEF Typed, EvidenceInv, ChainInv
<1> QED
  BY <1>4, <1>8, <1>9, <1>10, <1>11, <1>12, <1>13 DEF TypeOK, Outcomes

(* -------------------------------- theorem -------------------------------- *)
LEMMA EvidenceStart == Init => EvidenceInv
<1> SUFFICES ASSUME Init PROVE EvidenceInv
  OBVIOUS
<1>1. /\ job = Idle /\ accepted = "none" /\ clock = 0 /\ meddling = 0 /\ lastId = 0
      /\ run = 0 /\ managed = 0 /\ events = {} /\ leases = {}
      /\ evidence.calendar = NoCalendar /\ evidence.lease = NoLease /\ evidence.r2lab = NoLease
  BY DEF Init, NoEvidence
<1>2. job.kind = "none" /\ job.now = 0 /\ job.tries = 0 /\ Asks = 0
      /\ job.calendar = NoCalendar /\ job.lease = NoLease
  BY <1>1, Blank DEF Asks
<1>3. ChainInv
  BY <1>1, <1>2 DEF ChainInv
<1>4. CoverInv
  BY <1>1, <1>2, Blank DEF CoverInv, CalendarCovers, LeaseCovers, EventHeld, LeaseHeld
<1>5. StandsInv
  BY <1>1, <1>2 DEF StandsInv
<1>6. BoundInv
  <2>1. /\ MaxTime \in Nat /\ MaxMeddling \in Nat
        /\ PrefixAfterCreate \in Nat /\ PrefixExisting \in Nat
    BY ReservationAssumption
  <2>2. LeaseTop \in Nat
    <3>1. meddling \in Nat /\ Grain \in Nat
      BY <1>1, ReservationAssumption
    <3>2. (meddling + 1) * Grain \in Nat
      BY <3>1, Distributes
    <3> QED
      BY <3>2, ReservationAssumption DEF LeaseTop
  <2> HIDE DEF LeaseTop
  <2>3. CalendarBounded(NoCalendar, 0) /\ LeaseBounded(NoLease, 0, LeaseTop)
    BY <2>2, BlankBounded
  <2> QED
    BY <1>1, <1>2, <2>1, <2>3 DEF BoundInv
<1> QED
  BY <1>3, <1>4, <1>5, <1>6 DEF EvidenceInv

\* What the evidence of a run says it holds is enough: the event lasts as long
\* as was asked for and the lease covers the window of the deployment
\* (CoverInv); an accepted testbed has left nothing half written (ChainInv); and
\* a block that is begun because it fits is held to its end, if nobody else
\* changes calendar and leases (StandsInv).
THEOREM EvidenceIsEnough == Spec => []EvidenceCovers
<1>1. Init => EvidenceInv
  BY EvidenceStart
<1>2. ReservationInv /\ EvidenceInv /\ [Next]_vars => EvidenceInv'
  BY ChainStep, CoverStep, StandsStep, BoundStep DEF EvidenceInv
<1>3. ReservationInv /\ EvidenceInv => EvidenceCovers
  <2> SUFFICES ASSUME ReservationInv, EvidenceInv PROVE EvidenceCovers
    OBVIOUS
  <2>1. TypeOK /\ BlocksAreHeld
    BY BlocksHeld, StateInBounds DEF ReservationInv
  <2>2. ChainInv /\ CoverInv
    BY DEF EvidenceInv
  <2> QED
    BY <2>1, <2>2
       DEF EvidenceCovers, ChainInv, Whole, CoverInv, CalendarCovers, LeaseCovers, EventHeld, LeaseHeld
<1> QED
  BY <1>1, <1>2, <1>3, ReservationInvariant, PTL DEF Spec
=============================================================================
