----------------------------- MODULE MqttReplay -----------------------------
(***************************************************************************)
(* One publisher of an experiment: synthran/workload/replay.py, replay().  *)
(* The main thread releases each event at its planned time and keeps the   *)
(* log; paho's network thread sends what the client holds and reports every *)
(* acknowledgement through the on_publish callback into a queue that only  *)
(* the main thread reads.  What paho and the broker do is external; QoS 1. *)
(*                                                                         *)
(* An event is its rank in the trace.  A message identifier (mid) is drawn *)
(* from a cycle (1..65535 in MQTT), so that it names one publication only  *)
(* as long as few enough are pending.                                      *)
(***************************************************************************)
EXTENDS Integers, Sequences, FiniteSets

CONSTANTS
    NumEvents,    \* the events of this publisher in the trace
    MidLimit,     \* the largest message identifier
    MaxQueued,    \* max_queued, of replay and of the paho client
    None          \* no message identifier, no event

ASSUME ReplayAssumption ==
    /\ NumEvents \in Nat \ {0}
    /\ MidLimit \in Nat \ {0}
    /\ MaxQueued \in 1..MidLimit
    /\ None \notin Nat

Events == 1..NumEvents
Mids   == 1..MidLimit

VARIABLES
    pc,           \* where the main thread is
    next,         \* the event to be released
    held,         \* what client.publish answered, until it is recorded
    pending,      \* mid -> event published and not yet acknowledged
    early,        \* early_acks: mids acknowledged and not pending
    acks,         \* acknowledgements: mids the callback queued
    nextMid,      \* paho: the next message identifier
    out,          \* paho: _out_messages, in order of publication
    link,         \* whether a connection to the broker is up
    delivered,    \* how many of out the broker got on this connection
    received,     \* events the broker got
    status,       \* log: publish records
    acked,        \* log: ack records of each event
    outstanding,  \* log: outstanding_event_ids of session_end
    ended         \* log: the record that ends the session

client  == <<nextMid, out>>
network == <<link, delivered, received>>
ledger  == <<pending, early, acked>>
log     == <<status, outstanding, ended>>
vars == <<pc, next, held, acks, client, network, ledger, log>>

InPending == {m \in Mids : pending[m] # None}
Outgoing  == {out[i].mid : i \in 1..Len(out)}

\* The main thread is inside the try block, the connection made.
Replaying == {"waiting", "publishing", "recording", "flushing", "draining"}
\* paho's network thread runs.
Looping == Replaying \cup {"leaving"}
\* The main thread reads the queue of acknowledgements.
Reading == {"waiting", "flushing", "draining", "closing"}
Over == {"exited", "killed"}

TypeOK ==
    /\ pc \in Looping \cup Over \cup {"idle", "connecting", "closing"}
    /\ next \in 1..NumEvents + 1
    /\ held \in [mid : Mids \cup {None}, accepted : BOOLEAN]
    /\ pending \in [Mids -> Events \cup {None}]
    /\ early \subseteq Mids
    /\ acks \in Seq(Mids)
    /\ nextMid \in Mids
    /\ out \in Seq([mid : Mids, event : Events])
    /\ link \in BOOLEAN
    /\ delivered \in 0..Len(out)
    /\ received \subseteq Events
    /\ status \in [Events -> {"unsent", "accepted", "refused"}]
    /\ acked \in [Events -> Nat]
    /\ outstanding \subseteq Events
    /\ ended \in {"none", "session_end", "session_failure"}

NotSent == [mid |-> None, accepted |-> FALSE]

Init ==
    /\ pc = "idle" /\ next = 1 /\ held = NotSent
    /\ pending = [m \in Mids |-> None] /\ early = {} /\ acks = <<>>
    /\ nextMid = 1 /\ out = <<>>
    /\ link = FALSE /\ delivered = 0 /\ received = {}
    /\ status = [e \in Events |-> "unsent"]
    /\ acked = [e \in Events |-> 0]
    /\ outstanding = {} /\ ended = "none"

----------------------------------------------------------------------------
(* The main thread.                                                         *)

\* The trace is read, the client built, the log opened.
Launch ==
    /\ pc = "idle" /\ pc' = "connecting"
    /\ UNCHANGED <<next, held, acks, client, network, ledger, log>>

\* CONNACK arrives in time, and so does the start of the replay.
Connect ==
    /\ pc = "connecting" /\ pc' = "waiting"
    /\ link' = TRUE
    /\ UNCHANGED <<next, held, acks, client, delivered, received, ledger, log>>

\* connect() raises, before the network thread is started; or CONNACK is
\* late or refuses, or the start has passed.
ConnectFails ==
    /\ pc = "connecting" /\ pc' \in {"exited", "leaving"}
    /\ ended' = "session_failure"
    /\ UNCHANGED <<next, held, acks, client, network, ledger, status, outstanding>>

\* process_ack, on the head of the queue.
ProcessAck ==
    /\ pc \in Reading /\ acks # <<>>
    /\ acks' = Tail(acks)
    /\ LET m == Head(acks)
       IN  IF m \in InPending
           THEN /\ pending' = [pending EXCEPT ![m] = None]
                /\ acked' = [acked EXCEPT ![pending[m]] = @ + 1]
                /\ early' = early
           ELSE /\ early' = early \cup {m}
                /\ UNCHANGED <<pending, acked>>
    /\ UNCHANGED <<pc, next, held, client, network, log>>

\* wait_until(planned) returns: the deadline has passed, the queue is empty.
WaitEnds ==
    /\ pc = "waiting" /\ acks = <<>>
    /\ pc' = "publishing"
    /\ UNCHANGED <<next, held, acks, client, network, ledger, log>>

\* Mutant of QueueFull: one more may be pending.
QueueOverfull == Cardinality(InPending) > MaxQueued

QueueFull == Cardinality(InPending) >= MaxQueued

\* paho's publish() takes the message: its own queue has room, and no
\* outgoing message has the identifier.
PahoTakes == Len(out) < MaxQueued /\ nextMid \notin Outgoing

\* Mutant of SuccMid: stuck at the last identifier.
SuccMidStuck(m) == IF m = MidLimit THEN m ELSE m + 1

SuccMid(m) == IF m = MidLimit THEN 1 ELSE m + 1

\* The event is refused without asking the client.
Refuse ==
    /\ pc = "publishing" /\ QueueFull
    /\ pc' = "recording"
    /\ held' = NotSent
    /\ UNCHANGED <<next, acks, client, network, ledger, log>>

\* client.publish: a message taken while there is no connection
\* (MQTT_ERR_NO_CONN) counts as accepted.
Publish ==
    /\ pc = "publishing" /\ ~QueueFull
    /\ pc' = "recording"
    /\ held' = [mid |-> nextMid, accepted |-> PahoTakes]
    /\ nextMid' = SuccMid(nextMid)
    /\ out' = IF PahoTakes THEN Append(out, [mid |-> nextMid, event |-> next]) ELSE out
    /\ UNCHANGED <<next, acks, network, ledger, log>>

\* The publish record is logged and the publication becomes pending, or is
\* acknowledged at once if its acknowledgement was read already.
Record ==
    /\ pc = "recording" /\ pc' = "flushing"
    /\ next' = next + 1 /\ held' = NotSent
    /\ status' = [status EXCEPT ![next] = IF held.accepted THEN "accepted" ELSE "refused"]
    /\ early' = early \ {held.mid}
    /\ LET ackedEarly == held.accepted /\ held.mid \in early
       IN  /\ pending' = IF held.accepted
                         THEN [pending EXCEPT ![held.mid] = IF ackedEarly THEN None ELSE next]
                         ELSE pending
           /\ acked' = IF ackedEarly THEN [acked EXCEPT ![next] = @ + 1] ELSE acked
    /\ UNCHANGED <<acks, client, network, outstanding, ended>>

\* flush_acks finds the queue empty.
FlushEnds ==
    /\ pc = "flushing" /\ acks = <<>>
    /\ pc' = IF next > NumEvents THEN "draining" ELSE "waiting"
    /\ UNCHANGED <<next, held, acks, client, network, ledger, log>>

\* wait_until(end_ns) returns; what is still pending is logged.
DrainEnds ==
    /\ pc = "draining" /\ acks = <<>>
    /\ pc' = "leaving" /\ ended' = "session_end"
    /\ outstanding' = {pending[m] : m \in InPending}
    /\ UNCHANGED <<next, held, acks, client, network, ledger, status>>

\* Anything raised in the try block: a write to the log, an interrupt, a
\* payload paho rejects.  The record of the failure may fail to be written too.
Interrupted ==
    /\ pc \in Replaying /\ pc' = "leaving"
    /\ held' = NotSent
    /\ ended' \in {"session_failure", "none"}
    /\ UNCHANGED <<next, acks, client, network, ledger, status, outstanding>>

\* finally: disconnect and loop_stop, then the last flush, then the end.
LoopStop ==
    /\ pc = "leaving" /\ pc' = "closing"
    /\ UNCHANGED <<next, held, acks, client, network, ledger, log>>

Exit ==
    /\ pc = "closing" /\ acks = <<>>
    /\ pc' = "exited"
    /\ UNCHANGED <<next, held, acks, client, network, ledger, log>>

\* SIGTERM from synthran/workload/cleanup.py: there is no handler.
Kill ==
    /\ pc \in Looping \cup {"connecting", "closing"} /\ pc' = "killed"
    /\ held' = NotSent
    /\ UNCHANGED <<next, acks, client, network, ledger, log>>

----------------------------------------------------------------------------
(* paho's network thread, the connection and the broker.                    *)

Drop ==
    /\ link /\ link' = FALSE
    /\ delivered' = 0
    /\ UNCHANGED <<pc, next, held, acks, client, received, ledger, log>>

\* The client reconnects and sends again what is still outgoing.
Reconnect ==
    /\ pc \in Replaying /\ ~link
    /\ link' = TRUE
    /\ UNCHANGED <<pc, next, held, acks, client, delivered, received, ledger, log>>

\* The broker gets the next message; what was sent reaches it also after
\* the publisher has left.
BrokerGets(e) ==
    /\ link /\ delivered < Len(out)
    /\ out[delivered + 1].event = e
    /\ delivered' = delivered + 1
    /\ received' = received \cup {e}
    /\ UNCHANGED <<pc, next, held, acks, client, link, ledger, log>>

\* PUBACK of the oldest message, in order: on_publish queues its mid, and
\* the client forgets the message.
PubAck ==
    /\ pc \in Looping /\ link /\ delivered > 0
    /\ acks' = Append(acks, Head(out).mid)
    /\ out' = Tail(out)
    /\ delivered' = delivered - 1
    /\ UNCHANGED <<pc, next, held, nextMid, link, received, ledger, log>>

----------------------------------------------------------------------------
Main ==
    \/ Connect \/ ConnectFails
    \/ ProcessAck \/ WaitEnds \/ Refuse \/ Publish \/ Record \/ FlushEnds
    \/ DrainEnds \/ LoopStop \/ Exit

Network == Drop \/ Reconnect \/ PubAck \/ (\E e \in Events : BrokerGets(e))

Next == Launch \/ Main \/ Interrupted \/ Kill \/ Network

Spec == Init /\ [][Next]_vars

\* The main thread is scheduled; a wait of its own ends at its deadline.
FairSpec == Spec /\ WF_vars(Main)

----------------------------------------------------------------------------
\* An ack record is the one acknowledgement of an event the broker got:
\* replay.py identifies the publication by the mid alone, and mids repeat.
AckIsTrue == \A e \in Events : acked[e] <= IF e \in received THEN 1 ELSE 0

\* No acknowledgement is read before its publication is recorded, although
\* the network thread may queue it that early (replay.py, early_acks): only
\* after an exception in between is one left without its publication.
NothingIsEarly == pc \in Replaying \/ ended = "session_end" => early = {}

\* A publication logged as refused never reaches the broker, then or later.
RefusedIsNotSent == \A e \in Events : status[e] = "refused" => e \notin received

\* What is logged of an event agrees with what the broker got of it.
LogIsTrue == AckIsTrue /\ RefusedIsNotSent

\* A log closed by session_end accounts for every event: refused, or
\* acknowledged, or listed as outstanding.
Accounted ==
    ended = "session_end" =>
        \A e \in Events :
            \/ status[e] = "refused" /\ acked[e] = 0 /\ e \notin outstanding
            \/ status[e] = "accepted" /\ (acked[e] > 0 \/ e \in outstanding)

\* The log of a publisher tells of every event, and tells the truth of it,
\* although identifiers repeat and its writer may die at any line.
LogHolds == LogIsTrue /\ Accounted

\* A publication is refused only when max_queued are pending: the client's
\* own limit and its identifiers in use never refuse one that replay lets by.
RefusedOnlyWhenFull ==
    [][\A e \in Events :
          status[e] = "unsent" /\ status'[e] = "refused" => QueueFull]_vars
=============================================================================
