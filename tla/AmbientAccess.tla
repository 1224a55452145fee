----------------------------- MODULE AmbientAccess -----------------------------
(***************************************************************************)
(* The native Ambient-IoT simulation: energy-harvesting nodes (controller.py *)
(* and backscatter.py in synthran/model) that sense, and send what they      *)
(* sensed in the RX slots that base stations (bsengine.py) advertise with    *)
(* their commands, under the schedules of ambient_iot/protocols.py; what     *)
(* ambient_iot/bridge.py and evidence.py make of it.                         *)
(*                                                                         *)
(* The simulation is a discrete-event one: simpy runs one process at a time, *)
(* the one whose wake-up is first in the agenda; wake-ups of one instant run *)
(* in the order in which they were entered.  An action is one such step of a *)
(* process, up to its next yield.  Time is counted in units of which every   *)
(* duration is a multiple.  The voltage of a capacitor is abstracted to what *)
(* the controller asks of it when it wakes: whether it has reached the high  *)
(* threshold, or fallen to the low one.                                      *)
(***************************************************************************)
EXTENDS Receiver

CONSTANTS
    NumNodes, NumStations,
    Gain,            \* station -> node -> received power; 0 where not visible
    Sensitivity,     \* sensitivity_dbm of the sectors
    Shift,           \* node -> subcarrier_shift
    Hearing,         \* nodes whose sensitivity the downlink reaches
    AlwaysPowered,   \* nodes whose energy mode is always_powered
    Protocols,       \* the protocols of the instance
    PreRegistration, \* the values of pre_registered
    Slots, RegistrationSlots, MinSlots, MaxSlots,   \* protocol configuration
    TxMs, RxMs,      \* duration of a command and of an RX slot
    SensingMs, ProcessingMs, TransmittingMs,        \* DurationsMs
    Dt,              \* the capacitor's timestep
    Interval,        \* sensing_interval_ms
    SensingPhases,   \* values of sensing_phase_ms
    Startups,        \* values drawn for startup_ms
    Horizon,         \* duration_ms of the model
    MaxBrownouts     \* bound: how often a node loses power

Nodes    == 1..NumNodes
Stations == 1..NumStations
Never    == Horizon + 1

\* The checks of Controller, of the protocol configuration and of the runner.
ASSUME AmbientAssumption ==
    /\ NumNodes \in Nat \ {0} /\ NumStations \in Nat \ {0}
    /\ Gain \in [Stations -> [Nodes -> Nat]] /\ Shift \in [Nodes -> Nat]
    /\ Hearing \subseteq Nodes /\ AlwaysPowered \subseteq Nodes
    /\ Protocols \subseteq {"broadcast", "unicast", "adaptive_aloha"}
    /\ PreRegistration \subseteq BOOLEAN
    /\ {Slots, RegistrationSlots, MinSlots, MaxSlots, TxMs, RxMs, SensingMs,
        ProcessingMs, TransmittingMs, Dt, Interval, Horizon} \subseteq Nat \ {0}
    /\ MinSlots <= MaxSlots
    /\ TransmittingMs <= RxMs
    /\ SensingPhases \subseteq 0..Interval - 1
    /\ Startups \subseteq Nat /\ Sensitivity \in Nat

VARIABLES
    protocol,   \* the protocol, and whether nodes are registered from the start
    agenda,     \* wake-ups, in the order in which they will run
    node,       \* controller and backscatter module of each node
    station,    \* BSBehavior of each base station
    sent,       \* every transmission; buffers refer to it by position
    heard,      \* rx_packets of all stations
    ending      \* how the simulation ended

ambientVars == <<protocol, agenda, node, station, sent, heard, ending>>

----------------------------------------------------------------------------
(* The agenda.                                                              *)

Wakes(n) == [kind |-> "node", id |-> n, tx |-> 0]
Turns(b) == [kind |-> "station", id |-> b, tx |-> 0]
Late(b, tx) == [kind |-> "packet", id |-> b, tx |-> tx]

\* env.timeout: behind every wake-up of the same instant.
Enter(ag, at, who) ==
    InsertAt(ag, Cardinality({i \in DOMAIN ag : ag[i].at <= at}) + 1, [at |-> at, who |-> who])

now == IF agenda = <<>> THEN Horizon ELSE Head(agenda).at

\* The process whose turn it is.  env.run(until) stops ahead of the wake-ups
\* of the horizon.
TurnOf(who) ==
    /\ ending = "none" /\ agenda # <<>>
    /\ Head(agenda).who = who /\ now < Horizon

----------------------------------------------------------------------------
(* Schedules.                                                               *)

Everyone == 0

Command(cmd, target) == [mode |-> "tx", ms |-> TxMs, cmd |-> cmd, target |-> target]
Listen(expect) == [mode |-> "rx", ms |-> RxMs, cmd |-> "none", target |-> expect]
ListenAny(slots) == [i \in 1..slots |-> Listen(Everyone)]

Broadcast == <<Command("send_data", Everyone)>> \o ListenAny(Slots)

\* A command to each node in turn, and a slot for its answer.
Unicast == [i \in 1..2 * NumNodes |->
                IF i % 2 = 1 THEN Command("send_data", (i + 1) \div 2) ELSE Listen(i \div 2)]

WithRegistration(schedule) ==
    IF protocol.preRegistered THEN schedule
    ELSE <<Command("send_id", Everyone)>> \o ListenAny(RegistrationSlots)
           \o <<Command("ack", Everyone)>> \o schedule

AdaptiveFrame(size) == <<Command("aloha_frame", Everyone)>> \o ListenAny(size)

FirstSize == Max({MinSlots, Min({MaxSlots, Slots})})

\* The size of the frame after one with the given slot outcomes.
NextSize(size, outcomes) ==
    LET heardSlots == Cardinality({i \in DOMAIN outcomes : outcomes[i] = "success"})
        collided   == Cardinality({i \in DOMAIN outcomes : outcomes[i] = "occupied_undecoded"})
    IN  IF collided > heardSlots THEN Min({MaxSlots, 2 * size})
        ELSE IF heardSlots < Max({1, size \div 4}) THEN Max({MinSlots, size \div 2})
        ELSE size

\* resolve: the frame of a station whose adaptive size is size.
FrameOf(size) ==
    CASE protocol.name = "broadcast" -> WithRegistration(Broadcast)
      [] protocol.name = "unicast" -> WithRegistration(Unicast)
      [] protocol.name = "adaptive_aloha" -> AdaptiveFrame(size)

\* The duration of the first k entries of a frame.
Span(frame, k) ==
    LET listens == Cardinality({i \in 1..k : frame[i].mode = "rx"})
    IN  listens * RxMs + (k - listens) * TxMs

\* What is in S of a sequence, in order.
Only(s, S) ==
    LET only[i \in 0..Len(s)] ==
            IF i = 0 THEN <<>>
            ELSE IF s[i] \in S THEN Append(only[i - 1], s[i]) ELSE only[i - 1]
    IN  only[Len(s)]

\* _get_next_rx_slots: the RX entries of the coming two frames' length, as if
\* the present frame were repeated.
NextRxSlots(st, after) ==
    LET size == Len(st.frame)
        Place(k) == (st.idx - 1 + k) % size
        Start(k) == st.frameStart + ((st.idx - 1 + k) \div size) * Span(st.frame, size)
                      + Span(st.frame, Place(k))
        offered == Only([k \in 1..2 * size |-> k],
                     {k \in 1..2 * size : st.frame[Place(k) + 1].mode = "rx" /\ Start(k) >= after})
    IN  [i \in DOMAIN offered |->
            [start |-> Start(offered[i]), end |-> Start(offered[i]) + RxMs]]

----------------------------------------------------------------------------
(* Initial states.                                                          *)

NewNode(startup, phase) ==
    [active |-> FALSE, startup |-> startup, state |-> "listening", deadline |-> Never,
     sample |-> 0, born |-> 0, count |-> 0, airing |-> 0,
     opportunities |-> <<>>, current |-> 0, nextOpp |-> phase, brownouts |-> 0,
     proto |-> IF protocol.preRegistered THEN "registered" ELSE "idle",
     slots |-> <<>>, chosen |-> 0, cmdTime |-> -1]

NewStation ==
    [mode |-> "idle", settling |-> FALSE, frame |-> <<>>, size |-> 0, idx |-> 0,
     frameStart |-> 0, rxStart |-> 0, rxEnd |-> 0, expect |-> Everyone,
     buffer |-> <<>>, pendingAck |-> {}, outcomes |-> <<>>]

\* AmbientIoTRunner.run up to env.run: the controllers enter the agenda
\* before the base stations.
AmbientInit ==
    /\ protocol \in [name : Protocols, preRegistered : PreRegistration]
    /\ \E startup \in [Nodes -> Startups], phase \in [Nodes -> SensingPhases] :
         node = [n \in Nodes |-> NewNode(startup[n], phase[n])]
    /\ station = [b \in Stations |-> NewStation]
    /\ agenda = [i \in 1..NumNodes + NumStations |->
                   [at |-> 0, who |-> IF i <= NumNodes THEN Wakes(i) ELSE Turns(i - NumNodes)]]
    /\ sent = <<>> /\ heard = {}
    /\ ending = "none"

----------------------------------------------------------------------------
(* The controller of a node, method by method, on its record nd at time t.  *)

Powered(nd, n, t, power) ==
    ~nd.active /\ t >= nd.startup /\ (n \in AlwaysPowered \/ power = "high")

BrownsOut(nd, n, power) ==
    nd.active /\ n \notin AlwaysPowered /\ power = "low"

\* backscatter.clear_slot
ClearSlot(nd) == [nd EXCEPT !.slots = <<>>, !.chosen = 0, !.cmdTime = -1]

\* Mutant of PowerState: an opportunity whose sensing was cut short stays open.
PowerStateOpen(nd, n, t, power) ==
    IF Powered(nd, n, t, power) THEN [nd EXCEPT !.active = TRUE]
    ELSE IF ~BrownsOut(nd, n, power) THEN nd
    ELSE ClearSlot([nd EXCEPT
           !.active = FALSE, !.brownouts = @ + 1, !.sample = 0, !.airing = 0,
           !.state = "listening", !.deadline = Never])

\* _power_state; what is on the air is failed by AfterPower.
PowerState(nd, n, t, power) ==
    IF Powered(nd, n, t, power) THEN [nd EXCEPT !.active = TRUE]
    ELSE IF ~BrownsOut(nd, n, power) THEN nd
    ELSE ClearSlot([nd EXCEPT
           !.active = FALSE, !.brownouts = @ + 1, !.sample = 0, !.airing = 0,
           !.state = "listening", !.deadline = Never,
           !.opportunities = IF nd.current # 0 /\ nd.opportunities[nd.current] = "sensing_started"
                             THEN [@ EXCEPT ![nd.current] = "sensing_energy_failure"] ELSE @])

StateIsOver(nd, t) == t >= nd.deadline /\ nd.active

\* Mutant of CompleteState: the sample stays pending after it was sent.
CompleteStateKeeping(nd, t) ==
    IF ~StateIsOver(nd, t) THEN nd
    ELSE CASE nd.state = "sensing" ->
                [nd EXCEPT !.sample = nd.count + 1, !.born = t, !.count = @ + 1,
                           !.opportunities[nd.current] = "generated",
                           !.state = "processing", !.deadline = t + ProcessingMs]
           [] nd.state = "processing" -> [nd EXCEPT !.state = "wait_slot", !.deadline = Never]
           [] nd.state = "transmitting" ->
                [nd EXCEPT !.airing = 0, !.state = "listening", !.deadline = Never]
           [] OTHER -> nd

\* _complete_state; what was on the air is completed by AfterState.
CompleteState(nd, t) ==
    IF ~StateIsOver(nd, t) THEN nd
    ELSE CASE nd.state = "sensing" ->
                [nd EXCEPT !.sample = nd.count + 1, !.born = t, !.count = @ + 1,
                           !.opportunities[nd.current] = "generated",
                           !.state = "processing", !.deadline = t + ProcessingMs]
           [] nd.state = "processing" -> [nd EXCEPT !.state = "wait_slot", !.deadline = Never]
           [] nd.state = "transmitting" ->
                [nd EXCEPT !.airing = 0, !.sample = 0, !.state = "listening", !.deadline = Never]
           [] OTHER -> nd

OpportunityOutcome(nd, t) ==
    IF t < nd.startup THEN "startup_not_ready"
    ELSE IF ~nd.active THEN "energy_unavailable"
    ELSE IF nd.proto # "registered" THEN "unregistered"
    ELSE IF nd.state # "listening" \/ nd.sample # 0 THEN "busy"
    ELSE "sensing_started"

\* _sense_opportunity
SenseOpportunity(nd, t) ==
    IF t < nd.nextOpp THEN nd
    ELSE LET outcome == OpportunityOutcome(nd, t)
             noted == [nd EXCEPT !.opportunities = Append(@, outcome), !.nextOpp = @ + Interval]
         IN  IF outcome # "sensing_started" THEN noted
             ELSE [noted EXCEPT !.state = "sensing", !.deadline = t + SensingMs,
                                !.current = Len(noted.opportunities)]

\* controller_tx_ready: inside a slot that was drawn at the last command.
InChosenSlot(nd, t) ==
    /\ nd.cmdTime >= 0 /\ nd.chosen \in DOMAIN nd.slots
    /\ LET slot == nd.slots[nd.chosen]
       IN  /\ slot.start <= t /\ t + TransmittingMs <= slot.end
           /\ slot.start >= nd.cmdTime

\* _start_transmission, as far as the node decides it.
Transmits(nd, t) ==
    /\ nd.active /\ nd.state \in {"listening", "wait_slot"}
    /\ \/ nd.proto = "wait_ack"
       \/ nd.proto = "registered" /\ nd.sample # 0
    /\ InChosenSlot(nd, t)

\* build_tx_payload and _start_transmission: what goes on the air.
Airtime(nd, n, t) ==
    [node |-> n, type |-> IF nd.proto = "registered" THEN "data" ELSE "id",
     sample |-> nd.sample, born |-> nd.born, start |-> t, end |-> t + TransmittingMs,
     state |-> "flying"]

StartTransmission(nd, t, tx) ==
    ClearSlot([nd EXCEPT !.state = "transmitting", !.deadline = t + TransmittingMs,
                         !.airing = tx])

\* _step_duration indexes rx_slots with a slot that is not in it.
SlotIsGone(nd) == nd.chosen > Len(nd.slots)

\* Mutant of NextWake: an instant that has come counts as one to wait for.
NextWakeStuck(nd, t) ==
    LET slot == IF nd.chosen = 0 THEN {} ELSE {nd.slots[nd.chosen].start}
        targets == {t + Dt, nd.nextOpp, nd.deadline, nd.startup} \cup slot
    IN  Min({at \in targets : at >= t})

\* _step_duration
NextWake(nd, t) ==
    LET slot == IF nd.chosen = 0 THEN {} ELSE {nd.slots[nd.chosen].start}
        targets == {t + Dt, nd.nextOpp, nd.deadline, nd.startup} \cup slot
    IN  Min({at \in targets : at > t})

----------------------------------------------------------------------------
(* A packet reaches a station, and a command reaches a node.                *)

\* Mutant of Defers: nothing waits for the next window.
DefersNever(st, packet, t) == FALSE

\* receive_packet: a packet that begins as the window closes waits for the
\* next one; one that lies in the window is buffered; another is lost.
Defers(st, packet, t) ==
    st.mode = "rx" /\ t >= st.rxEnd /\ packet.start >= st.rxEnd
Buffers(st, packet, t) ==
    /\ st.mode = "rx" /\ ~Defers(st, packet, t)
    /\ packet.start >= st.rxStart /\ packet.end <= st.rxEnd

\* do_transmit: every station that sees the node receives the packet.
Seen(n) == {b \in Stations : Gain[b][n] > 0}
Broadcasts(packet, tx, t) ==
    [b \in Stations |->
        IF b \in Seen(packet.node) /\ Buffers(station[b], packet, t)
        THEN [station[b] EXCEPT !.buffer = Append(@, tx)] ELSE station[b]]
Deferred(packet, tx, t, ag) ==
    LET behind[b \in 0..NumStations] ==
            IF b = 0 THEN ag
            ELSE IF b \in Seen(packet.node) /\ Defers(station[b], packet, t)
            THEN Enter(behind[b - 1], t, Late(b, tx)) ELSE behind[b - 1]
    IN  behind[NumStations]

\* receive_enabled, and the sensitivity gate of receive_command.
Hears(nd, n) == nd.active /\ nd.state \in {"listening", "wait_slot"} /\ n \in Hearing

\* handle_command of BackscatterModule and of AdaptiveAlohaNode.  There is
\* always a slot to draw: every frame has an RX entry.
HandleCommand(nd, n, e, draw, t) ==
    CASE e.cmd = "send_id" /\ nd.proto = "registered" ->
            [nd EXCEPT !.chosen = 0, !.slots = <<>>]
      [] e.cmd = "send_id" /\ nd.proto # "registered" ->
            [nd EXCEPT !.chosen = draw, !.proto = "wait_ack", !.cmdTime = t]
      [] e.cmd = "ack" ->
            [nd EXCEPT !.proto = IF @ = "wait_ack" THEN "registered" ELSE @]
      [] e.cmd = "send_data" /\ nd.proto = "registered" ->
            [nd EXCEPT !.chosen = IF e.target = n THEN 1 ELSE draw, !.cmdTime = t]
      [] e.cmd = "send_data" /\ nd.proto # "registered" -> nd
      [] e.cmd = "aloha_frame" ->
            [nd EXCEPT !.proto = "registered", !.chosen = draw, !.cmdTime = t]

\* receive_command: the slots of the command replace the ones the node has.
ReceiveCommand(nd, n, e, slots, draw, t) ==
    IF Hears(nd, n) THEN HandleCommand([nd EXCEPT !.slots = slots], n, e, draw, t) ELSE nd

\* Whom _deliver_command and _send_pending_acks address, and with what slots.
Addressed(st, e) ==
    IF e.cmd = "ack" THEN st.pendingAck
    ELSE IF e.target = Everyone THEN Nodes ELSE {e.target}
Advertised(st, e, t) ==
    IF e.cmd = "ack" THEN <<>>
    ELSE LET slots == NextRxSlots(st, t + e.ms)
         IN  IF e.target = Everyone THEN slots ELSE SubSeq(slots, 1, Min({1, Len(slots)}))

----------------------------------------------------------------------------
(* The steps of a node.                                                     *)

PowerLevels(n) ==
    IF n \in AlwaysPowered THEN {"between"}
    ELSE IF ~node[n].active THEN {"between", "high"}
    ELSE IF node[n].brownouts < MaxBrownouts THEN {"between", "low"} ELSE {"between"}

\* complete_transmission
Completed(log, tx, t, how) == [log EXCEPT ![tx].end = t, ![tx].state = how]

\* One round of Controller.run: power, the state that is over, the
\* opportunity that is due, the transmission that may start, and the next
\* wake-up, which raises when the drawn slot is gone.
NodeWakes(n) ==
    /\ TurnOf(Wakes(n))
    /\ \E power \in PowerLevels(n) :
         LET t       == now
             before  == node[n]
             powered == PowerState(before, n, t, power)
             over    == CompleteState(powered, t)
             sensed  == SenseOpportunity(over, t)
             tx      == Len(sent) + 1
             starts  == Transmits(sensed, t)
             packet  == Airtime(sensed, n, t)
             after   == IF starts THEN StartTransmission(sensed, t, tx) ELSE sensed
             log     == CASE before.airing # 0 /\ powered.airing = 0 ->
                                Completed(sent, before.airing, t, "interrupted")
                          [] powered.airing # 0 /\ over.airing = 0 ->
                                Completed(sent, before.airing, t, "complete")
                          [] OTHER -> sent
             rest    == IF starts THEN Deferred(packet, tx, t, Tail(agenda)) ELSE Tail(agenda)
         IN  /\ node' = [node EXCEPT ![n] = after]
             /\ sent' = IF starts THEN Append(log, packet) ELSE log
             /\ station' = IF starts THEN Broadcasts(packet, tx, t) ELSE station
             /\ IF SlotIsGone(after)
                THEN agenda' = rest /\ ending' = "crashed"
                ELSE agenda' = Enter(rest, NextWake(after, t), Wakes(n)) /\ ending' = ending
    /\ UNCHANGED <<protocol, heard>>

----------------------------------------------------------------------------
(* The steps of a base station.                                             *)

\* The next entry of the schedule, of the next frame after the last one.
Advance(st, t) ==
    IF st.idx < Len(st.frame) THEN [st EXCEPT !.idx = @ + 1]
    ELSE LET size == IF st.frame = <<>> THEN FirstSize
                     ELSE IF protocol.name = "adaptive_aloha" THEN NextSize(st.size, st.outcomes)
                     ELSE st.size
         IN  [st EXCEPT !.frame = FrameOf(size), !.size = size, !.idx = 1,
                        !.frameStart = t, !.outcomes = <<>>]

\* _do_rx up to its first yield, and _do_tx.
BeginEntry(b, from) ==
    LET t  == now
        st == Advance(from, t)
        e  == st.frame[st.idx]
    IN  /\ agenda' = Enter(Tail(agenda), t + e.ms, Turns(b))
        /\ \/ /\ e.mode = "rx"
              /\ station' = [station EXCEPT ![b] =
                    [st EXCEPT !.mode = "rx", !.settling = FALSE, !.rxStart = t,
                               !.rxEnd = t + e.ms, !.expect = e.target, !.buffer = <<>>]]
              /\ node' = node
           \/ /\ e.mode = "tx"
              /\ station' = [station EXCEPT ![b] =
                    [st EXCEPT !.mode = "tx", !.settling = FALSE,
                               !.pendingAck = IF e.cmd = "ack" THEN {} ELSE @]]
              /\ LET slots == Advertised(st, e, t)
                 IN  \E draw \in [Nodes -> 1..Max({1, Len(slots)})] :
                        node' = [n \in Nodes |->
                            IF n \in Addressed(st, e)
                            THEN ReceiveCommand(node[n], n, e, slots, draw[n], t)
                            ELSE node[n]]

\* The first entry; or the end of a command.
CommandEnds(b) ==
    /\ TurnOf(Turns(b)) /\ station[b].mode # "rx"
    /\ BeginEntry(b, station[b])
    /\ UNCHANGED <<protocol, sent, heard, ending>>

\* The window of an RX slot closes; what ends at that instant may settle.
SlotCloses(b) ==
    /\ TurnOf(Turns(b)) /\ station[b].mode = "rx" /\ ~station[b].settling
    /\ station' = [station EXCEPT ![b].settling = TRUE]
    /\ agenda' = Enter(Tail(agenda), now, Turns(b))
    /\ UNCHANGED <<protocol, node, sent, heard, ending>>

\* What the station makes of the packets of one subcarrier in its buffer.
Receptions(b, shift) ==
    Only(station[b].buffer, {tx \in DOMAIN sent : Shift[sent[tx].node] = shift})
Packets(b, txs) ==
    [i \in DOMAIN txs |->
        [power |-> Gain[b][sent[txs[i]].node], sensitivity |-> Sensitivity,
         start |-> sent[txs[i]].start, end |-> sent[txs[i]].end,
         complete |-> sent[txs[i]].state = "complete"]]
Decisions(b) ==
    UNION {LET txs  == Receptions(b, shift)
               work == DecodeReceptions(Packets(b, txs))
           IN  {[station |-> b, tx |-> txs[i], outcome |-> work.outcome[i], at |-> now,
                 matched |-> station[b].expect \in {Everyone, sent[txs[i]].node}]
                : i \in DOMAIN txs} : shift \in {Shift[n] : n \in Nodes}}

ToAcknowledge(decisions) ==
    {sent[r.tx].node : r \in {d \in decisions : Decodes(d.outcome) /\ sent[d.tx].type = "id"}}

\* _process_rx_buffer, and on to the next entry.
SlotSettles(b) ==
    /\ TurnOf(Turns(b)) /\ station[b].mode = "rx" /\ station[b].settling
    /\ LET decisions == Decisions(b)
           outcome == IF \E d \in decisions : Decodes(d.outcome) THEN "success"
                      ELSE IF station[b].buffer # <<>> THEN "occupied_undecoded" ELSE "idle"
       IN  /\ heard' = heard \cup decisions
           /\ BeginEntry(b, [station[b] EXCEPT
                 !.pendingAck = @ \cup ToAcknowledge(decisions),
                 !.outcomes = Append(@, outcome)])
    /\ UNCHANGED <<protocol, sent, ending>>

\* _receive_after_boundary
LatePacket(b, tx) ==
    /\ TurnOf(Late(b, tx))
    /\ station' = [station EXCEPT ![b].buffer =
                     IF Buffers(station[b], sent[tx], now) THEN Append(@, tx) ELSE @]
    /\ agenda' = IF Defers(station[b], sent[tx], now)
                 THEN Enter(Tail(agenda), now, Late(b, tx)) ELSE Tail(agenda)
    /\ UNCHANGED <<protocol, node, sent, heard, ending>>

\* env.run returns at the horizon.
ReachHorizon ==
    /\ ending = "none" /\ now >= Horizon
    /\ ending' = "finished"
    /\ UNCHANGED <<protocol, agenda, node, station, sent, heard>>

AmbientNext ==
    \/ \E n \in Nodes : NodeWakes(n)
    \/ \E b \in Stations : CommandEnds(b) \/ SlotCloses(b) \/ SlotSettles(b)
    \/ \E b \in Stations, tx \in DOMAIN sent : LatePacket(b, tx)
    \/ ReachHorizon

AmbientSpec == AmbientInit /\ [][AmbientNext]_ambientVars

\* env.run goes on for as long as there is something to run.  Until the
\* simulation has ended some step always is, so that this is weak fairness of
\* AmbientNext, said without ENABLED.
AmbientFairSpec == AmbientSpec /\ ([]<>(ending # "none") \/ []<><<AmbientNext>>_ambientVars)

----------------------------------------------------------------------------
(* What bridge.py and evidence.py make of it.                               *)

Static == protocol.name # "adaptive_aloha"

SensingOutcomes == {"startup_not_ready", "energy_unavailable", "unregistered", "busy",
                    "sensing_started", "sensing_energy_failure", "generated"}

\* Attempts are told apart by node and start.
Key(i) == <<sent[i].node, sent[i].start>>
Attempts == {Key(i) : i \in DOMAIN sent}
ReceivedAttempts == {Key(r.tx) : r \in heard}
Unresolved == Attempts \ ReceivedAttempts
StillBuffered == {Key(tx) : tx \in UNION {ToSet(station[b].buffer) : b \in Stations}}
Unfinished == {Key(i) : i \in {j \in DOMAIN sent : sent[j].end >= Horizon}}
Censored == Unresolved \cap (StillBuffered \cup Unfinished)
Unheard == Unresolved \ Censored

\* decoded_events: of the decodes of a sample the earliest, of those of one
\* instant the strongest, of those the one of the first station.
Candidates ==
    {r \in heard : Decodes(r.outcome) /\ r.matched /\ sent[r.tx].type = "data"}
OfOneSample(r, q) ==
    sent[r.tx].node = sent[q.tx].node /\ sent[r.tx].sample = sent[q.tx].sample
Strength(r) == Gain[r.station][sent[r.tx].node]
Preferred(r, q) ==
    \/ r.at < q.at
    \/ r.at = q.at /\ Strength(r) > Strength(q)
    \/ r.at = q.at /\ Strength(r) = Strength(q) /\ r.station <= q.station
Forwarded == {r \in Candidates : \A q \in Candidates : OfOneSample(r, q) => Preferred(r, q)}

\* Attempts begun in the given instants that every station that received them
\* judged in one way.
LostTo(outcome, window) ==
    {k \in ReceivedAttempts : k[2] \in window /\
        \A r \in heard : Key(r.tx) = k => r.outcome = outcome}

\* Where evidence.write puts the attempts of a run that came to nothing.
LossClasses == <<LostTo("collision", Nat), LostTo("below_sensitivity", Nat), Unheard, Censored>>

\* The times at which the controllers recorded opportunities of an outcome in
\* the given set: they are one interval apart.
Opportunities(outcomes, window) ==
    {o \in Nodes \X (1..Horizon) :
        /\ o[2] \in DOMAIN node[o[1]].opportunities
        /\ node[o[1]].opportunities[o[2]] \in outcomes
        /\ node[o[1]].nextOpp - Interval * (Len(node[o[1]].opportunities) - o[2] + 1) \in window}

\* The counts of campaign.py over a measurement window.
MeasurementCounts(window) ==
    [opportunities |-> Cardinality(Opportunities(SensingOutcomes, window)),
     generated |-> Cardinality(Opportunities({"generated"}, window)),
     transmitted |-> Cardinality({i \in DOMAIN sent : sent[i].start \in window}),
     decoded |-> Cardinality({r \in Forwarded : r.at \in window}),
     collisionLosses |-> Cardinality(LostTo("collision", window))]

----------------------------------------------------------------------------
(* Properties.                                                              *)

ReceptionOutcomes == {"decoded", "capture", "sic_recovered", "collision", "below_sinr",
                      "below_sensitivity", "energy_interrupted"}

\* The state is well typed, and while the simulation runs the agenda is in
\* order and holds exactly one wake-up of every process.
AmbientTypeOK ==
    /\ \A n \in Nodes :
        /\ node[n].state \in {"listening", "sensing", "processing", "wait_slot", "transmitting"}
        /\ node[n].proto \in {"idle", "wait_ack", "registered"}
        /\ ToSet(node[n].opportunities) \subseteq SensingOutcomes
        /\ node[n].airing \in 0..Len(sent) /\ node[n].sample \in 0..node[n].count
    /\ \A b \in Stations :
        /\ station[b].mode \in {"idle", "rx", "tx"}
        /\ ToSet(station[b].buffer) \subseteq DOMAIN sent
    /\ {r.outcome : r \in heard} \subseteq ReceptionOutcomes
    /\ ending \in {"none", "finished", "crashed"}
    /\ \A i, j \in DOMAIN agenda : i < j => agenda[i].at <= agenda[j].at
    /\ ending # "crashed" =>
        \A who \in {Wakes(n) : n \in Nodes} \cup {Turns(b) : b \in Stations} :
            Cardinality({i \in DOMAIN agenda : agenda[i].who = who}) = 1

\* Under a static schedule the slots that a command advertises are slots in
\* which the stations listen: a node whose transmission a station sees is
\* never reported as unheard, even when it drew a slot of the next
\* frame or starts at the instant at which a slot closes and another opens.
NobodyIsUnheard ==
    ending = "finished" /\ Static =>
        \A i \in DOMAIN sent : Seen(sent[i].node) # {} => Key(i) \notin Unheard

\* A node that had to register is registered only after a station decoded its
\* identifier, although the acknowledgement goes to whoever is listening, and
\* power failures and slots of other frames lie in between.
RegistrationIsEarned ==
    Static /\ ~protocol.preRegistered => \A n \in Nodes : node[n].proto = "registered" =>
        \E r \in heard : sent[r.tx].node = n /\ sent[r.tx].type = "id" /\ Decodes(r.outcome)

\* A node is registered only once a station knows it.  Of what it then senses
\* a sample goes on the air at most once, when it was sensed and processed,
\* and becomes at most one event of the 5G replay, however many stations
\* decode it.
SampleIsSentOnce ==
    /\ RegistrationIsEarned
    /\ \A i \in DOMAIN sent : sent[i].type = "data" =>
        /\ sent[i].sample > 0 /\ sent[i].born + ProcessingMs <= sent[i].start
        /\ \A j \in DOMAIN sent :
            sent[j].node = sent[i].node /\ sent[j].sample = sent[i].sample => j = i
    /\ \A r, q \in Forwarded : OfOneSample(r, q) => r = q

\* The summary counts no attempt twice, calls none lost whose sample became an
\* event; and a measurement that starts on an opportunity and the part of the
\* run before it add up to the run.
SummaryBalances ==
    /\ Cardinality(Attempts) = Len(sent)
    /\ \A c \in DOMAIN LossClasses :
        /\ \A d \in DOMAIN LossClasses : c # d => LossClasses[c] \cap LossClasses[d] = {}
        /\ \A r \in Forwarded : Key(r.tx) \notin LossClasses[c]
    /\ \A warmup \in {at \in 0..Horizon : at % Interval = 0} :
        LET before == MeasurementCounts(0..warmup - 1)
            after  == MeasurementCounts(warmup..Horizon - 1)
            whole  == MeasurementCounts(0..Horizon - 1)
        IN  /\ \A field \in DOMAIN whole : before[field] + after[field] = whole[field]
            /\ whole.transmitted = Len(sent) /\ whole.decoded = Cardinality(Forwarded)
            /\ whole.generated = FoldLeft(LAMBDA sum, n : sum + node[n].count, 0,
                                          [n \in 1..NumNodes |-> n])

\* The record of sensing opportunities accounts for every one of them: none
\* that is due is missing, as many are "generated" as there are samples, and
\* one is left as started (reported as incomplete at the horizon) only while
\* its sensing goes on; the agenda keeps every process of the simulation; and
\* at the end the summary and the counts of any measurement window balance.
OpportunitiesAccounted ==
    AmbientTypeOK /\ (ending = "finished" => SummaryBalances) /\ (ending # "crashed" => \A n \in Nodes :
        LET nd == node[n]
            due == {at \in 0..Horizon : at < now /\ at % Interval = nd.nextOpp % Interval}
        IN  /\ Len(nd.opportunities) >= Cardinality(due)
            /\ Cardinality({i \in DOMAIN nd.opportunities : nd.opportunities[i] = "generated"}) = nd.count
            /\ \A i \in DOMAIN nd.opportunities :
                nd.opportunities[i] = "sensing_started" =>
                    i = nd.current /\ nd.state = "sensing" /\ nd.active)

\* Whatever meets in a station's buffer is decoded soundly (a packet is
\* decoded if and only if it has the threshold at every instant of its
\* airtime, given what is cancelled before it) and regardless of the order
\* in which equally placed nodes came to send.
ReceptionIsSound ==
    \A b \in Stations, shift \in {Shift[n] : n \in Nodes} :
        LET ps == Packets(b, Receptions(b, shift))
        IN  DecisionIsSound(ps) /\ DecisionIsOrderFree(ps)

\* The simulation comes to an end: no two processes keep waking each other
\* at one instant.
SimulationEnds == <>(ending # "none")

\* backscatter.py says of "ack": "Node transitions to registered state and
\* can now send data".  It can not if the simulation dies of the command.
AckedNodesGoOn == ending # "crashed"
==============================================================================
