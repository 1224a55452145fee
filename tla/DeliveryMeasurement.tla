------------------------- MODULE DeliveryMeasurement -------------------------
(***************************************************************************)
(* From a prepared timing arm to the measured delivery of Experiment 2.    *)
(* The bundle in a run's directory is replayed by the gateways, each by    *)
(* its own clock, the collector logs what reaches the application, and     *)
(* results/reconcile.py with results/metrics.py says from the logs what    *)
(* was delivered, how late, and how old the application's knowledge was.   *)
(* ArmToSummary says which bundles there are.  MqttDelivery has the replay *)
(* in detail; here is its timing.                                          *)
(*                                                                         *)
(* Time is the collector's, in ticks since the agreed start of the replay. *)
(***************************************************************************)
EXTENDS TimingArms

CONSTANTS
    Mappings,       \* which gateway carries which sensor, in the scenarios tried
    Offsets,        \* [gateway -> its clock minus the collector's], those tried
    Deadline, AgeLimit, Drain,      \* the contract, with Warmup and Duration
    Uncertainty,    \* the bound on the offsets that the contract states
    MaxDelay,       \* how long a message may be on its way
    MaxMishaps      \* bound on what goes wrong

ASSUME MeasurementAssumption ==
    /\ {Deadline, AgeLimit, Drain, Uncertainty, MaxDelay} \subseteq Nat
    /\ Drain >= Deadline
    /\ \A m \in Mappings : DOMAIN m = Sensors
    /\ \A o \in Offsets, m \in Mappings :
        Range(m) \subseteq DOMAIN o /\ Range(o) \subseteq -Uncertainty..Uncertainty

VARIABLES
    progress,   \* how far the replay is
    bundle,     \* the bundle in the run's directory, or None before
    mapping,    \* the gateway of each sensor, in its manifest and scenario
    offset,     \* each gateway's clock minus the collector's
    clock,
    sent,       \* publish records: [id, stamp, accepted], in the gateway's time
    flying,     \* ids the broker has and may still deliver
    arrivals,   \* when ids reached the application's host, heard or not
    receipts,   \* receipt records of the collector: [id, kind, at, copy]
    collector,  \* "listening", "ended" or "killed"
    lastRecord, \* time of its collector_end, or None
    mishaps

study  == <<bundle, mapping>>
logs   == <<sent, flying, arrivals, receipts, collector, lastRecord>>
measurementVars == <<progress, study, offset, clock, logs, mishaps>>

Gateways == Range(mapping)

Proceeds(from, to) == progress = from /\ progress' = to

Mishap == mishaps < MaxMishaps /\ mishaps' = mishaps + 1

\* Files of the run's bundle are edited.  The publishers have the trace alone
\* and notice nothing; what an edited trace is is left open.
ChangeReplayed ==
    /\ progress \in {"running", "ended"} /\ Mishap
    /\ bundle' = [bundle EXCEPT !.sealed = FALSE]
    /\ UNCHANGED <<progress, mapping, offset, clock, logs>>

----------------------------------------------------------------------------
(* The replay, by each gateway's clock, and the collector.                  *)

Events     == {bundle.events[i] : i \in DOMAIN bundle.events}
Event(id)  == CHOOSE e \in Events : e.id = id
Clock(g)   == clock + offset[g]
Offset(e)  == offset[mapping[e.sensor]]
SentIds    == {s.id : s \in sent}
Sent(id)   == CHOOSE s \in sent : s.id = id

\* What a gateway has still to release, in order.
Pending(g) ==
    LET done == SentIds
    IN  SelectSeq(bundle.events, LAMBDA e : mapping[e.sensor] = g /\ e.id \notin done)

\* A publisher has no manifest beside its trace: replay() validates nothing.
\* An edit that was made before is one of the mishaps.
StartReplay(b, m) ==
    /\ Proceeds("none", "running")
    /\ bundle' = b /\ mapping' = m /\ offset' \in Offsets
    /\ mishaps' = IF b.sealed THEN 0 ELSE 1
    /\ UNCHANGED <<clock, logs>>

Release(e, accepted) ==
    sent' = sent \cup {[id |-> e.id, accepted |-> accepted,
                        stamp |-> Clock(mapping[e.sensor])]}

Publish ==
    /\ progress = "running"
    /\ \E g \in Gateways : LET todo == Pending(g) IN
        /\ todo # <<>> /\ Head(todo).at <= Clock(g)
        /\ \/ /\ Release(Head(todo), TRUE) /\ flying' = flying \cup {Head(todo).id}
              /\ UNCHANGED mishaps
           \/ /\ Release(Head(todo), FALSE) /\ Mishap /\ UNCHANGED flying
    /\ UNCHANGED <<progress, study, offset, clock, arrivals, receipts, collector, lastRecord>>

Hear(r) == receipts' = IF collector = "listening" THEN receipts \cup {r} ELSE receipts

Receipt(id, kind, copy) == [id |-> id, kind |-> kind, at |-> clock, copy |-> copy]

\* A message reaches the application's host.
Deliver ==
    /\ progress = "running"
    /\ \E id \in flying :
        /\ flying' = flying \ {id}
        /\ arrivals' = arrivals \cup {[id |-> id, at |-> clock]}
        /\ Hear(Receipt(id, "own", 1))
    /\ UNCHANGED <<progress, study, offset, clock, sent, collector, lastRecord, mishaps>>

\* It is delivered again, as QoS 1 allows.
Redeliver ==
    /\ progress = "running" /\ Mishap
    /\ \E a \in arrivals : Hear(Receipt(a.id, "own", 2))
    /\ UNCHANGED <<progress, study, offset, clock, sent, flying, arrivals, collector, lastRecord>>

Lose ==
    /\ progress = "running" /\ Mishap
    /\ \E id \in flying : flying' = flying \ {id}
    /\ UNCHANGED <<progress, study, offset, clock, sent, arrivals, receipts, collector, lastRecord>>

\* What somebody else published under the topics of the run: a retained
\* message, one with an event's name and another payload, an unknown event.
Stray ==
    /\ progress = "running" /\ collector = "listening" /\ Mishap
    /\ \/ \E id \in Ids, kind \in {"retained", "other"} : Hear(Receipt(id, kind, 1))
       \/ Hear(Receipt(None, "other", 1))
    /\ UNCHANGED <<progress, study, offset, clock, sent, flying, arrivals, collector, lastRecord>>

\* The collector is stopped too early, or killed without its last record.
CollectorStops ==
    /\ progress = "running" /\ collector = "listening" /\ Mishap
    /\ \/ collector' = "ended" /\ lastRecord' = clock
       \/ collector' = "killed" /\ UNCHANGED lastRecord
    /\ UNCHANGED <<progress, study, offset, clock, sent, flying, arrivals, receipts>>

Drained == \A g \in Gateways : Clock(g) >= Duration + Drain /\ Pending(g) = <<>>

\* Every gateway has drained; the collector is stopped.
EndReplay ==
    /\ Proceeds("running", "ended") /\ Drained
    /\ IF collector = "listening" THEN collector' = "ended" /\ lastRecord' = clock
       ELSE UNCHANGED <<collector, lastRecord>>
    /\ UNCHANGED <<study, offset, clock, sent, flying, arrivals, receipts, mishaps>>

ReleasedAt(id) == Sent(id).stamp - Offset(Event(id))

TimePasses ==
    /\ progress = "running" /\ ~Drained
    /\ \A id \in flying : clock < ReleasedAt(id) + MaxDelay
    /\ clock' = clock + 1
    /\ UNCHANGED <<progress, study, offset, logs>>

Overdue ==
    /\ progress = "running"
    /\ \E g \in Gateways : Pending(g) # <<>> /\ Head(Pending(g)).at <= Clock(g)

Tick == ~Overdue /\ TimePasses /\ UNCHANGED mishaps

\* A gateway releases what is due later than planned.
Stall == Overdue /\ TimePasses /\ Mishap

----------------------------------------------------------------------------
(* What is made of the logs: reconcile() and measurements().                *)

\* A receipt of one of the run's events counts if it is that event's message
\* and was not retained; one of an unknown event is kept as unexpected.
Mismatches    == {r \in receipts : r.id # None /\ r.kind # "own"}
ValidReceipts == receipts \ Mismatches

Attempted == SentIds
Published == {s.id : s \in {q \in sent : q.accepted}}
Received  == {r.id : r \in ValidReceipts}

FirstReceipt(id) == Min({r.at : r \in {q \in ValidReceipts : q.id = id}})

Cohort == {e \in Events : Warmup <= e.at /\ e.at < Duration}

\* Receipt minus publication, by two clocks.
Delayed  == {e \in Cohort : e.id \in SentIds \cap Received}
Delay(e) == FirstReceipt(e.id) - Sent(e.id).stamp

ClocksValid == \A e \in Delayed : Delay(e) >= 0

\* quantile(), times den.
Quantile(values, num, den) ==
    LET position == (Len(values) - 1) * num
        lower    == position \div den + 1
        upper    == Min({lower + 1, Len(values)})
    IN  values[lower] * den + (position % den) * (values[upper] - values[lower])

SortedValues(f, over) ==
    LET order == SetToSortSeq(over, LAMBDA a, b : f[a] < f[b] \/ (f[a] = f[b] /\ a.id < b.id))
    IN  [i \in DOMAIN order |-> f[order[i]]]

\* Half the sum of the two middle delays, doubled.
MedianDelay(delay) == Quantile(SortedValues(delay, DOMAIN delay), 1, 2)

ReportedDelays == [e \in {q \in Delayed : Delay(q) >= 0} |-> Delay(e)]

\* The collector listened until the deadline of the last event.
Observed == lastRecord # None /\ lastRecord >= Duration + Deadline

Late(e) == e.id \notin Received \/ FirstReceipt(e.id) > e.at + Deadline

\* Only then, and only for clocks that may be right, the fraction is reported.
FractionReported == Cohort # {} /\ Observed /\ ClocksValid

Later(latest, generated) ==
    IF latest = None THEN generated ELSE Max({latest, generated})

\* interval(): the age from the cursor to "to", its area doubled.
Until(s, to, limit) ==
    LET length == to - s.cursor
    IN  IF length <= 0 THEN s
        ELSE IF s.latest = None
        THEN [s EXCEPT !.unknown = @ + length, !.violation = @ + length]
        ELSE [s EXCEPT !.area = @ + (s.cursor + to - 2 * s.latest) * length,
                       !.violation = @ + Max({0, to - Max({s.cursor, s.latest + limit})})]

Earlier(u, v) ==
    u.received < v.received \/ (u.received = v.received /\ u.generated < v.generated)

\* Mutant of Learn: the last update counts, whatever its generation.
LearnLast(s, u, limit) ==
    IF u.received < Warmup THEN [s EXCEPT !.latest = u.generated]
    ELSE IF u.received >= Duration THEN s
    ELSE [Until(s, u.received, limit) EXCEPT !.latest = u.generated, !.cursor = u.received]

\* One update: it may complete the initial history, or end an interval.
Learn(s, u, limit) ==
    IF u.received < Warmup THEN [s EXCEPT !.latest = Later(@, u.generated)]
    ELSE IF u.received >= Duration THEN s
    ELSE [Until(s, u.received, limit) EXCEPT
             !.latest = Later(@, u.generated), !.cursor = u.received]

\* age_process() over the window of the measurement.
AgeProcess(updates, limit) ==
    LET ordered == SetToSortSeq(updates, Earlier)
        age[i \in 0..Len(ordered)] ==
            IF i = 0 THEN [latest |-> None, cursor |-> Warmup, area |-> 0, unknown |-> 0, violation |-> 0]
            ELSE Learn(age[i - 1], ordered[i], limit)
        end == Until(age[Len(ordered)], Duration, limit)
    IN  [area |-> end.area, unknown |-> end.unknown, violation |-> end.violation]

\* Generation after reception: age_process() raises, and so does reconcile().
Impossible(updates) == \E u \in updates : u.generated > u.received

Update(received, generated) == [received |-> received, generated |-> generated]

OfSensor(s) == {e \in Events : e.sensor = s}

ReaderUpdates(s)      == {Update(e.at, e.born) : e \in OfSensor(s)}
ApplicationUpdates(s) ==
    {Update(FirstReceipt(e.id), e.born) : e \in {q \in OfSensor(s) : q.id \in Received}}

ApplicationAged == bundle.aged /\ ClocksValid

\* The counts of the summary, in all and for each device of the scenario.
FiveG == [failed     |-> (Ids \cap Attempted) \ Published,
          lost       |-> (Ids \cap Published) \ Received,
          unexpected |-> Received \ Ids,
          duplicates |-> Cardinality(ValidReceipts) - Cardinality(Received)]

PerDevice(s) ==
    LET model == {e.id : e \in OfSensor(s)}
    IN  [decoded |-> model, published |-> model \cap Published, received |-> model \cap Received,
         lost |-> (model \cap Published) \ Received]

LossObserved == (Ids \cap Published) \ Received # {}

\* The bundle is validated again; the summary is written, or nothing is.
Reconcile ==
    /\ progress = "ended"
    /\ progress' = IF /\ Valid(bundle)
                   /\ ApplicationAged => \A s \in Sensors : ~Impossible(ApplicationUpdates(s))
                THEN "reported" ELSE "refused"
    /\ UNCHANGED <<study, offset, clock, logs, mishaps>>

----------------------------------------------------------------------------

MeasurementInit ==
    /\ progress = "none" /\ bundle = None /\ mapping = None /\ offset = None
    /\ clock = -Uncertainty
    /\ sent = {} /\ flying = {} /\ arrivals = {} /\ receipts = {}
    /\ collector = "listening" /\ lastRecord = None /\ mishaps = 0

Replay  == Publish \/ Deliver \/ EndReplay \/ Reconcile \/ Tick
Mishaps == ChangeReplayed \/ Stall \/ Redeliver \/ Lose \/ Stray \/ CollectorStops

MeasurementNext == Replay \/ Mishaps

----------------------------------------------------------------------------
(* Properties.                                                              *)

TypeOK ==
    /\ progress \in {"none", "running", "ended", "reported", "refused"}
    /\ offset \in Offsets /\ clock \in Int
    /\ flying \cup SentIds \subseteq Ids /\ {a.id : a \in arrivals} \subseteq SentIds
    /\ collector \in {"listening", "ended", "killed"}

\* The true delay of an event: of its arrivals since it was due, and since it
\* was released, by one clock.
Arrivals(e) == {a.at : a \in {q \in arrivals : q.id = e.id}}
DueDelays(e) == {t - (e.at - Offset(e)) : t \in Arrivals(e)}
TrueDelays   == [e \in Delayed |-> Min(Arrivals(e)) - (Sent(e.id).stamp - Offset(e))]

DeadlinesAreJudged ==
    FractionReported => \A e \in Cohort :
        Late(e) <=> \A d \in DueDelays(e) : d > Deadline + Offset(e)

DelaysAreMeasured ==
    ClocksValid /\ Delayed # {} =>
        MedianDelay(ReportedDelays) - MedianDelay(TrueDelays) \in -2 * Uncertainty..2 * Uncertainty

\* Age by its definition: at every tick, time since the newest generation that
\* has been received.
Window == Warmup..Duration - 1
KnownAt(updates, t) == {u.generated : u \in {q \in updates : q.received <= t}}
KnownTicks(updates) == {t \in Window : KnownAt(updates, t) # {}}
AgeAt(updates, t) == t - Max(KnownAt(updates, t))

TrueArea(updates)    == MapThenSumSet(LAMBDA t : 2 * AgeAt(updates, t) + 1, KnownTicks(updates))
TrueUnknown(updates) == Cardinality(Window) - Cardinality(KnownTicks(updates))
TrueViolation(updates, limit) ==
    TrueUnknown(updates) + Cardinality({t \in KnownTicks(updates) : AgeAt(updates, t) >= limit})

TrueUpdates(s) ==
    {Update(Min(Arrivals(e)), e.born - Offset(e)) : e \in {q \in OfSensor(s) : Arrivals(q) # {}}}

\* The reader's age is exact; the application's is right but for the offset of
\* the gateway's clock, if the collector listened until the end of the window.
AgesAreMeasured ==
    \A s \in Sensors :
        LET reader == AgeProcess(ReaderUpdates(s), AgeLimit)
            told   == AgeProcess(ApplicationUpdates(s), AgeLimit)
            true   == TrueUpdates(s)
            known  == Cardinality(KnownTicks(true))
        IN  /\ bundle.aged =>
                /\ reader.area = TrueArea(ReaderUpdates(s))
                /\ reader.unknown = TrueUnknown(ReaderUpdates(s))
                /\ reader.violation = TrueViolation(ReaderUpdates(s), AgeLimit)
            /\ ApplicationAged /\ lastRecord # None /\ lastRecord >= Duration =>
                /\ told.unknown = TrueUnknown(true)
                /\ told.area = TrueArea(true) - 2 * known * offset[mapping[s]]
                /\ told.violation = TrueViolation(true, AgeLimit + offset[mapping[s]])

\* What is counted as received is the run's own and was published; what is
\* counted as lost never arrived, if the collector listened to the end, and is
\* the loss of one device; a message that came twice is a duplicate.
CountsAreTrue ==
    /\ FiveG.failed = {q.id : q \in {r \in sent : ~r.accepted}}
    /\ FiveG.unexpected \subseteq {None}
    /\ FiveG.unexpected = {} =>
        FiveG.duplicates = Cardinality({r \in receipts : r.kind = "own" /\ r.copy = 2})
    /\ lastRecord = clock => FiveG.lost = Published \ {a.id : a \in arrivals}
    /\ LossObserved <=> \E s \in Sensors : PerDevice(s).lost # {}
    /\ \A s \in Sensors :
        /\ PerDevice(s).received \subseteq PerDevice(s).published
        /\ PerDevice(s).decoded = {Native[i].id : i \in {j \in DOMAIN Native : Native[j].sensor = s}}
    /\ Received \ {None} = {r.id : r \in {q \in receipts : q.kind = "own"}}
    /\ Received \ {None} \subseteq {a.id : a \in arrivals} \cap Published
    /\ Attempted = Ids

\* A summary says what happened, but for the offsets of the clocks, whose bound
\* it states: which events missed their deadline (withheld unless the
\* collector listened long enough), how long they took and how old the
\* application's knowledge was, from duplicates, strays and events out of order.
SummaryIsTrue ==
    progress = "reported" =>
        /\ TypeOK /\ CountsAreTrue
        /\ DeadlinesAreJudged /\ DelaysAreMeasured /\ AgesAreMeasured
=============================================================================
