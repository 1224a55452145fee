---------------------------- MODULE CompetingLoad ----------------------------
(***************************************************************************)
(* The competing load of Experiment 2: one replay of the confirmation,     *)
(* over all its attempts, and the probes of calibration and sentinel       *)
(* (traffic.py, udp_receiver.py, udp_sender.py; campaign.py and runtime.py *)
(* of the experiment).  The controller runs a receiver on the broker and a *)
(* sender at the competing UE through two ssh clients, and the victim in   *)
(* between.  Stopping a client does not stop what it started: a remote     *)
(* process goes on until it ends by itself, and a receiver that is still   *)
(* bound to the port refuses the next one.                                 *)
(*                                                                         *)
(* Time is in ticks; a sender that sends does so once per tick, and what   *)
(* is due happens at its tick.  Clocks are offsets that stay as they are:  *)
(* the evidence records this as its assumption.                            *)
(***************************************************************************)
EXTENDS Integers, FiniteSets

CONSTANTS
    Duration,     \* seconds a sender is asked to send
    Observed,     \* the publisher's horizon with its drain
    StartDelay,   \* bound: how late the publisher starts, and the replay returns
    Startup,      \* what both the controller and a receiver wait for a start
    Quiet,        \* idle timeout of a receiver
    Tail,         \* what is waited for a process beyond its time
    Slow,         \* bound: how late a remote process may start
    Offsets,      \* competitor's clock minus publisher's
    Precision,    \* bound: width of a clock bracket on either side
    MaxAttempts, MaxFaults   \* bounds

ASSUME TimingAssumption ==
    /\ {Duration, Observed, Startup, Quiet, Tail} \subseteq Nat \ {0}
    /\ {StartDelay, Slow, Precision, MaxAttempts, MaxFaults} \subseteq Nat
    /\ Offsets \subseteq Int

VARIABLES
    now,
    offset,       \* competitor's clock minus publisher's
    pc,           \* the controller
    attempt,      \* number of the attempt it is at
    kind,         \* what each attempt is: a replay or a probe
    deadline,     \* of the wait it is in
    clock,        \* the measured interval of the offset, empty if not measured
    session,      \* start of the publisher, empty until it starts
    client,       \* the ssh clients of the attempt
    receiver,     \* the remote processes, by attempt
    sender,
    path,         \* whether what the competing UE sends gets through
    dir,          \* the run directory of the replay
    retained,     \* failed-attempts/
    record,       \* run-record.json
    over,         \* a probe has failed: the campaign goes on no more
    faults

timing   == <<now, offset, deadline, path>>
files    == <<dir, retained, record, over>>
loadVars == <<timing, pc, attempt, kind, clock, session, client, receiver, sender,
              files, faults>>

Attempts == 1 .. MaxAttempts
NoProcess == [state |-> "none", from |-> 0, upto |-> 0, count |-> {},
              until |-> 0, fit |-> TRUE]

LoadInit ==
    /\ now = 0 /\ offset \in Offsets /\ deadline = 0
    /\ pc = "idle" /\ attempt = 0 /\ kind = [a \in Attempts |-> "none"]
    /\ clock = {} /\ session = {}
    /\ client = [receiver |-> "none", sender |-> "none"]
    /\ receiver = [a \in Attempts |-> NoProcess]
    /\ sender = [a \in Attempts |-> NoProcess]
    /\ path = TRUE
    /\ dir = {} /\ retained = {} /\ record = {} /\ over = FALSE
    /\ faults = 0

Rx == receiver[attempt]
Tx == sender[attempt]

Fault == faults < MaxFaults /\ faults' = faults + 1

AtStep(s) == pc = s
GoesTo(s) == pc' = s

Waits(s, ticks) == GoesTo(s) /\ deadline' = now + ticks

Alive(process) == process.state \in {"starting", "active"}
SomeRemote == \E a \in Attempts : Alive(receiver[a]) \/ Alive(sender[a])

(* ------------------------- beginning an attempt ------------------------ *)
\* Mutant of ArchiveAttempt: the directory of the failed attempt is used again.
ReuseAttempt ==
    /\ dir' = IF dir = {} THEN {[attempt |-> attempt', summary |-> 0]} ELSE dir
    /\ UNCHANGED retained

\* _archive_incomplete_attempt, then a new directory.
ArchiveAttempt ==
    /\ retained' = retained \cup dir
    /\ dir' = {[attempt |-> attempt', summary |-> 0]}

Remaining(process) == IF Alive(process) THEN process ELSE NoProcess

\* A replay that has its record is not run again; a probe of the calibration or
\* a sentinel that has not passed ends the campaign.
BeginAttempt(what) ==
    /\ AtStep("idle") /\ attempt < MaxAttempts /\ ~over
    /\ what = "replay" => record = {}
    /\ attempt' = attempt + 1
    /\ kind' = [kind EXCEPT ![attempt'] = what]
    /\ IF what = "replay" THEN ArchiveAttempt /\ GoesTo("clock")
                          ELSE GoesTo("start") /\ UNCHANGED <<dir, retained>>
    /\ client' = [receiver |-> "none", sender |-> "none"]
    /\ now' = IF SomeRemote THEN now ELSE 0
    /\ receiver' = [a \in Attempts |-> Remaining(receiver[a])]
    /\ sender' = [a \in Attempts |-> Remaining(sender[a])]
    /\ UNCHANGED <<offset, deadline, path, clock, session, record, over, faults>>

\* _clock_interval for each host: the remote reading lies within the probe.
Brackets ==
    {i \in (offset - Precision .. offset) \X (offset .. offset + Precision) :
        i[2] - i[1] <= Precision}

MeasureClocks ==
    /\ AtStep("clock")
    /\ \E i \in Brackets : clock' = {i}
    /\ GoesTo("start")
    /\ UNCHANGED <<timing, attempt, kind, session, client, receiver, sender, files, faults>>

(* ---------------------------- how it fails ----------------------------- *)
\* A process whose client is stopped while it is still being started may start.
Abandoned(process) ==
    {process} \cup IF process.state = "starting" THEN {NoProcess} ELSE {}

StopBackground ==
    /\ client' = [receiver |-> "closed", sender |-> "closed"]
    /\ \E r \in Abandoned(Rx) : receiver' = [receiver EXCEPT ![attempt] = r]
    /\ \E s \in Abandoned(Tx) : sender' = [sender EXCEPT ![attempt] = s]

Forget == deadline' = 0 /\ clock' = {} /\ session' = {}

Fail ==
    /\ StopBackground
    /\ GoesTo("idle") /\ Forget
    /\ over' = (kind[attempt] = "probe")
    /\ UNCHANGED <<now, offset, path, attempt, kind, dir, retained, record>>

\* Clocks that are not synchronised, a preparation, a replay or a finalisation
\* that fails, a controller that is killed: all leave the remote processes.
Interrupt == pc # "idle" /\ Fail /\ Fault

(* ------------------------- _start_background --------------------------- *)
Starting == [NoProcess EXCEPT !.state = "starting", !.until = now + Slow]

SpawnReceiver ==
    /\ AtStep("start")
    /\ client' = [client EXCEPT !.receiver = "open"]
    /\ receiver' = [receiver EXCEPT ![attempt] = Starting]
    /\ Waits("await-receiver", Startup)
    /\ UNCHANGED <<now, offset, path, attempt, kind, clock, session, sender, files, faults>>

ReceiverReady ==
    AtStep("await-receiver") /\ client.receiver = "open" /\ Rx.state \in {"active", "done"}

SpawnSender ==
    /\ ReceiverReady
    /\ client' = [client EXCEPT !.sender = "open"]
    /\ sender' = [sender EXCEPT ![attempt] = Starting]
    /\ Waits("await-sender", Startup)
    /\ UNCHANGED <<now, offset, path, attempt, kind, clock, session, receiver, files, faults>>

SenderReady ==
    AtStep("await-sender") /\ client.sender = "open" /\ Tx.state \in {"active", "done"}

SenderStarted ==
    /\ SenderReady
    /\ IF kind[attempt] = "replay" THEN Waits("victim", StartDelay)
                                   ELSE Waits("finish-sender", Duration + Tail)
    /\ UNCHANGED <<now, offset, path, attempt, kind, clock, session, client, receiver,
                   sender, files, faults>>

\* _await_ready: the process is gone, or the time is over.
ProcessGone ==
    \/ AtStep("await-receiver") /\ (client.receiver = "closed" \/ Rx.state = "refused")
    \/ AtStep("await-sender") /\ client.sender = "closed"

AwaitFails ==
    /\ \/ ProcessGone
       \/ pc \in {"await-receiver", "await-sender"} /\ now >= deadline
    /\ Fail /\ UNCHANGED faults

(* ------------------------------ the victim ----------------------------- *)
Summarised == {d.summary : d \in dir} # {0}

PublisherStarts ==
    /\ AtStep("victim") /\ session = {} /\ ~Summarised
    /\ session' = {now}
    /\ deadline' = now + Observed + StartDelay
    /\ UNCHANGED <<now, offset, path, pc, attempt, kind, clock, client, receiver, sender,
                   files, faults>>

\* _victim_run returns at once if it finds a summary.
Concluded == Summarised \/ \E start \in session : now >= start + Observed

VictimEnds ==
    /\ AtStep("victim") /\ Concluded
    /\ dir' = {[d EXCEPT !.summary = IF Summarised THEN @ ELSE attempt] : d \in dir}
    /\ Waits("finish-sender", Duration + Tail)
    /\ UNCHANGED <<now, offset, path, attempt, kind, clock, session, client, receiver,
                   sender, retained, record, over, faults>>

(* ------------------------ _finish_background --------------------------- *)
SenderOver   == AtStep("finish-sender") /\ (client.sender = "closed" \/ Tx.state = "done")
ReceiverOver == AtStep("finish-receiver") /\ (client.receiver = "closed" \/ Rx.state = "done")

SenderReturned ==
    /\ SenderOver
    /\ Waits("finish-receiver", Tail)
    /\ UNCHANGED <<now, offset, path, attempt, kind, clock, session, client, receiver,
                   sender, files, faults>>

ReceiverReturned ==
    /\ ReceiverOver
    /\ GoesTo("verify")
    /\ UNCHANGED <<timing, attempt, kind, clock, session, client, receiver, sender,
                   files, faults>>

FinishFails ==
    /\ pc \in {"finish-sender", "finish-receiver"} /\ now >= deadline
    /\ Fail /\ UNCHANGED faults

Returned == client.sender = "open" /\ client.receiver = "open"

\* _probe_quality: rate and accounting.
Received == Cardinality(Rx.count)
Sent     == Cardinality(Tx.count)
Quality  == Tx.fit /\ Sent > 0 /\ Received <= Sent

\* Mutant of Coverage: the bounds of the offset are taken the other way round.
CoverageSwapped ==
    \A i \in clock, start \in session :
        /\ Tx.from + offset - i[2] <= start
        /\ Tx.upto + offset - i[1] >= start + Observed

\* _background_coverage, on the publisher's clock.
Coverage ==
    \A i \in clock, start \in session :
        /\ Tx.from + offset - i[1] <= start
        /\ Tx.upto + offset - i[2] >= start + Observed

Valid ==
    /\ Returned /\ Quality
    /\ kind[attempt] = "replay" => session # {} /\ Coverage

Refuse == AtStep("verify") /\ ~Valid /\ Fail /\ UNCHANGED faults

Summaries == {d.summary : d \in dir}

Accept ==
    /\ AtStep("verify") /\ Valid
    /\ GoesTo("idle") /\ Forget
    /\ record' = IF kind[attempt] = "replay"
                 THEN {[attempt |-> attempt, summary |-> s, received |-> Received, sent |-> Sent,
                        from |-> Tx.from, upto |-> Tx.upto, start |-> t,
                        fit |-> Tx.fit, covered |-> Coverage] :
                          s \in Summaries, t \in session}
                 ELSE record
    /\ UNCHANGED <<now, offset, path, attempt, kind, client, receiver, sender,
                   dir, retained, over, faults>>

(* ------------------------ the remote processes ------------------------- *)
Bound(a) ==
    \E b \in Attempts \ {a} : receiver[b].state = "active" /\ kind[b] = kind[a]

\* The port is free, or bind() raises.
ReceiverStarts(a) ==
    /\ receiver[a].state = "starting"
    /\ receiver' = [receiver EXCEPT ![a] =
           IF Bound(a) THEN [NoProcess EXCEPT !.state = "refused"]
                       ELSE [@ EXCEPT !.state = "active", !.until = now + Startup]]
    /\ UNCHANGED <<timing, pc, attempt, kind, clock, session, client, sender, files, faults>>

\* What arrives at the port is counted by its sequence number only.
Counting(r, seqs, time) ==
    IF seqs = {} \/ r.state # "active" THEN r
    ELSE [r EXCEPT !.count = @ \cup seqs, !.until = time + Quiet]

SenderStarts(a) ==
    /\ sender[a].state = "starting"
    /\ sender' = [sender EXCEPT ![a] = [state |-> "active", from |-> now, upto |-> now,
                                        count |-> {0}, until |-> 0, fit |-> TRUE]]
    /\ receiver' = [b \in Attempts |->
           Counting(receiver[b], IF path /\ kind[b] = kind[a] THEN {0} ELSE {}, now)]
    /\ UNCHANGED <<timing, pc, attempt, kind, clock, session, client, files, faults>>

\* Nothing that is due is passed over by the time.
SomethingDue ==
    \/ pc \notin {"idle", "await-receiver", "await-sender", "victim", "finish-sender",
                  "finish-receiver"}
    \/ ReceiverReady \/ SenderReady \/ ProcessGone \/ SenderOver \/ ReceiverOver
    \/ pc # "idle" /\ now >= deadline
    \/ pc = "idle" /\ ~SomeRemote
    \/ \E a \in Attempts : \E process \in {receiver[a], sender[a]} :
           process.state = "starting" /\ now >= process.until

Sending == {a \in Attempts : sender[a].state = "active" /\ now + 1 < sender[a].from + Duration}

SendersAt ==
    [a \in Attempts |->
        IF a \in Sending
        THEN [sender[a] EXCEPT !.upto = now + 1, !.count = @ \cup {now + 1 - sender[a].from}]
        ELSE IF sender[a].state = "active" THEN [sender[a] EXCEPT !.state = "done"]
        ELSE sender[a]]

Arriving(b) ==
    {now + 1 - sender[a].from : a \in {x \in Sending : path /\ kind[x] = kind[b]}}

\* One tick: each sender sends, what is not lost arrives, the silent give up.
Tick ==
    /\ ~SomethingDue
    /\ now' = now + 1
    /\ sender' = SendersAt
    /\ receiver' = [b \in Attempts |->
           IF receiver[b].state = "active" /\ now + 1 >= receiver[b].until
           THEN [receiver[b] EXCEPT !.state = "done", !.until = 0]
           ELSE Counting(receiver[b], Arriving(b), now + 1)]
    /\ UNCHANGED <<offset, deadline, path, pc, attempt, kind, clock, session, client, files, faults>>

(* ------------------- what nobody can rule out --------------------------- *)
LoseClient(which) ==
    /\ pc # "idle" /\ client[which] = "open" /\ Fault
    /\ client' = [client EXCEPT ![which] = "closed"]
    /\ UNCHANGED <<timing, pc, attempt, kind, clock, session, receiver, sender, files>>

\* The host is busy or a send raises: the achieved rate is out of bounds.
FallBehind(a) ==
    /\ sender[a].state = "active" /\ sender[a].fit /\ Fault
    /\ sender' = [sender EXCEPT ![a].fit = FALSE]
    /\ UNCHANGED <<timing, pc, attempt, kind, clock, session, client, receiver, files>>

Outage ==
    /\ path /\ Sending # {} /\ Fault
    /\ path' = FALSE
    /\ UNCHANGED <<now, offset, deadline, pc, attempt, kind, clock, session, client,
                   receiver, sender, files>>

OutageEnds ==
    /\ ~path
    /\ path' = TRUE
    /\ UNCHANGED <<now, offset, deadline, pc, attempt, kind, clock, session, client,
                   receiver, sender, files, faults>>

Controller ==
    \/ MeasureClocks \/ SpawnReceiver \/ SpawnSender \/ SenderStarted \/ AwaitFails
    \/ PublisherStarts \/ VictimEnds
    \/ SenderReturned \/ ReceiverReturned \/ FinishFails \/ Refuse \/ Accept

Remote == \E a \in Attempts : ReceiverStarts(a) \/ SenderStarts(a)

Rest == AtStep("idle") /\ ~SomeRemote /\ path /\ UNCHANGED loadVars

LoadNext ==
    \/ \E what \in {"replay", "probe"} : BeginAttempt(what)
    \/ Controller \/ Remote \/ Tick
    \/ \E which \in {"receiver", "sender"} : LoseClient(which)
    \/ \E a \in Attempts : FallBehind(a)
    \/ Outage \/ OutageEnds \/ Interrupt \/ Rest

LoadSpec == LoadInit /\ [][LoadNext]_loadVars

\* _background_treatment_validity: what the analysis asks of a record, again.
TreatmentValid(r) == r.covered /\ r.fit

(* ------------------------------ properties ----------------------------- *)
(* A replay that is recorded was loaded by the sender of its own attempt,    *)
(* in true time and not only on two clocks, from before its publisher        *)
(* started until after its drain, however the clocks are apart and wherever  *)
(* in their brackets they were read (campaign.py, _background_coverage).     *)
AcceptedIsCovered ==
    \A r \in record : r.from <= r.start /\ r.start + Observed <= r.upto

Replays(upto) == {a \in 1 .. upto : kind[a] = "replay"}

(* The summary, the load and the clocks of a record are of one attempt, the  *)
(* last one, and the analysis will not exclude for its load what the         *)
(* confirmation has accepted; what every other attempt left is retained,     *)
(* once and apart (campaign.py, _archive_incomplete_attempt and              *)
(* _confirmation_replay; analysis.py).                                       *)
AcceptedIsWhole ==
    /\ \A r \in record : TreatmentValid(r)
    /\ \A r \in record : r.summary = r.attempt /\ dir = {[attempt |-> r.attempt,
                                                           summary |-> r.attempt]}
    /\ {d.attempt : d \in dir \cup retained} = Replays(attempt)
    /\ Cardinality(dir) + Cardinality(retained) = Cardinality(Replays(attempt))
    /\ \A d \in dir \cup retained : d.summary \in {0, d.attempt}

(* ------------------------ the inductive invariant ---------------------- *)
Steps == {"idle", "clock", "start", "await-receiver", "await-sender", "victim",
          "finish-sender", "finish-receiver", "verify"}
Processes == [state : {"none", "starting", "active", "done", "refused"}, from : Nat, upto : Nat,
              count : SUBSET Int, until : Nat, fit : BOOLEAN]
Directories == [attempt : Attempts, summary : Nat]

LoadTypeOK ==
    /\ now \in Nat /\ offset \in Int /\ deadline \in Nat /\ path \in BOOLEAN
    /\ pc \in Steps /\ attempt \in 0 .. MaxAttempts
    /\ kind \in [Attempts -> {"none", "replay", "probe"}]
    /\ clock \subseteq Int \X Int /\ session \subseteq Nat
    /\ sender \in [Attempts -> Processes]
    /\ dir \subseteq Directories /\ retained \subseteq Directories

\* A bracket holds the offset, and a replay that is past its clocks has one.
ClockInv == \A i \in clock : i[1] <= offset /\ offset <= i[2]

Dir(a, s) == [attempt |-> a, summary |-> s]

\* A controller at work is in the directory that its attempt has made, and has
\* a summary of this attempt when it comes to wait for the sender.
WorkInv == pc # "idle" =>
    /\ attempt \in Attempts /\ kind[attempt] \in {"replay", "probe"}
    /\ pc \in {"clock", "victim"} => kind[attempt] = "replay"
    /\ kind[attempt] = "replay" =>
        /\ record = {}
        /\ pc # "clock" => clock # {}
        /\ dir \in {{Dir(attempt, 0)}, {Dir(attempt, attempt)}}
        /\ pc \in {"finish-sender", "finish-receiver", "verify"} => dir = {Dir(attempt, attempt)}

\* There is one directory at most, and none is retained under its attempt.
DirInv ==
    /\ IsFiniteSet(retained)
    /\ \A d, e \in dir : d = e
    /\ \A d \in dir, e \in retained : d.attempt # e.attempt

LoadInv == LoadTypeOK /\ ClockInv /\ WorkInv /\ DirInv /\ AcceptedIsCovered /\ AcceptedIsWhole
=============================================================================
