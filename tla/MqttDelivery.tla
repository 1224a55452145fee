---------------------------- MODULE MqttDelivery ----------------------------
(***************************************************************************)
(* The traffic phase of an experiment, synthran/experiment_runtime/ansible/*)
(* playbooks/mqtt.yml: the receipt collector is started and must have its  *)
(* subscription before the publisher of MqttReplay starts; afterwards the  *)
(* collector is stopped, its receipts are fetched, and results/reconcile.py*)
(* compares the trace, the publisher's log and the receipts.  A phase that *)
(* fails is followed by playbooks/cleanup.yml.                             *)
(***************************************************************************)
EXTENDS MqttReplay

CONSTANT SubscriberQueue    \* how much mosquitto holds for a subscriber

ASSUME DeliveryAssumption == SubscriberQueue \in Nat \ {0}

VARIABLES
    phase,      \* where the playbooks are
    collector,  \* state of the collector service and of its subscription
    marker,     \* the --ready-file of this run exists
    inbox,      \* events the broker forwarded, not yet handed to the callback
    receipts,   \* events in this run's receipt artifact
    gap         \* something was dropped on the way to the collector: it lost
                \* its connection, died, or was too slow for the broker

delivery == <<phase, collector, marker, inbox, receipts, gap>>
allVars  == <<vars, delivery>>

\* The collector process runs; the broker forwards to it.
Running    == {"connecting", "subscribing", "subscribed", "ready"}
Subscribed == {"subscribed", "ready"}
Phases     == {"preparing", "barrier", "replaying", "collecting",
               "cleaning", "killing", "final", "failed"}

DeliveryTypeOK ==
    /\ phase \in Phases
    /\ collector \in Running \cup {"stopped", "dead"}
    /\ marker \in BOOLEAN
    /\ inbox \in Seq(Events) /\ Len(inbox) <= SubscriberQueue
    /\ receipts \subseteq Events
    /\ gap \in BOOLEAN

\* An earlier attempt under the same run directory may have left its
\* collector, its marker and its receipts.
DeliveryInit ==
    /\ Init
    /\ phase = "preparing"
    /\ collector \in {"stopped", "ready"}
    /\ marker \in BOOLEAN /\ receipts \in SUBSET Events
    /\ inbox = <<>> /\ gap = FALSE

----------------------------------------------------------------------------
(* The playbooks.                                                           *)

\* Mutant of PrepareBroker: the receipt artifact is appended to.
PrepareBrokerAppends ==
    /\ phase = "preparing" /\ phase' = "barrier"
    /\ collector' = "connecting" /\ marker' = FALSE
    /\ inbox' = <<>> /\ gap' = FALSE
    /\ UNCHANGED <<vars, receipts>>

\* The previous collector is stopped, the marker removed, the receipt
\* artifact emptied, the collector started.
PrepareBroker ==
    /\ phase = "preparing" /\ phase' = "barrier"
    /\ collector' = "connecting" /\ marker' = FALSE
    /\ inbox' = <<>> /\ receipts' = {} /\ gap' = FALSE
    /\ UNCHANGED vars

\* Mutant of PassBarrier: the collector service is active, that is all.
PassBarrierActive ==
    /\ phase = "barrier" /\ collector \in Running
    /\ phase' = "replaying"
    /\ UNCHANGED <<vars, collector, marker, inbox, receipts, gap>>

\* wait_for finds the marker of the subscription.
PassBarrier ==
    /\ phase = "barrier" /\ marker
    /\ phase' = "replaying"
    /\ UNCHANGED <<vars, collector, marker, inbox, receipts, gap>>

\* The publisher is started; the wait for it ends with its success.
StartReplay ==
    /\ phase = "replaying" /\ Launch
    /\ UNCHANGED delivery

ReplayDone ==
    /\ phase = "replaying" /\ pc = "exited" /\ ended = "session_end"
    /\ phase' = "collecting"
    /\ UNCHANGED <<vars, collector, marker, inbox, receipts, gap>>

\* The collector is stopped, what it has not read is lost; its receipts are
\* fetched and the run is reconciled.
StopCollector ==
    /\ collector' = "stopped" /\ marker' = FALSE /\ inbox' = <<>>
    /\ UNCHANGED <<vars, receipts, gap>>

Collect ==
    /\ phase = "collecting" /\ phase' = "final"
    /\ StopCollector

\* Mutant of PhaseFails: the wait for the subscription has no timeout.
PhaseFailsLater ==
    /\ phase \in {"preparing", "replaying", "collecting"}
    /\ phase' = "cleaning"
    /\ UNCHANGED <<vars, collector, marker, inbox, receipts, gap>>

\* A task fails or runs out of time; the publisher may still be running.
PhaseFails ==
    /\ phase \in {"preparing", "barrier", "replaying", "collecting"}
    /\ phase' = "cleaning"
    /\ UNCHANGED <<vars, collector, marker, inbox, receipts, gap>>

CleanCollector ==
    /\ phase = "cleaning" /\ phase' = "killing"
    /\ StopCollector

\* The publishers of the run are sent SIGTERM, if their host is reached.
KillPublisher ==
    /\ phase = "killing" /\ phase' = "failed"
    /\ Kill \/ UNCHANGED vars
    /\ UNCHANGED <<collector, marker, inbox, receipts, gap>>

----------------------------------------------------------------------------
(* The collector: collect().                                                *)

\* on_connect subscribes; the broker takes the subscription.
Subscribe ==
    /\ \/ collector = "connecting" /\ collector' = "subscribing"
       \/ collector = "subscribing" /\ collector' = "subscribed"
    /\ UNCHANGED <<vars, phase, marker, inbox, receipts, gap>>

\* on_subscribe writes the marker.
Suback ==
    /\ collector = "subscribed" /\ collector' = "ready"
    /\ marker' = TRUE
    /\ UNCHANGED <<vars, phase, inbox, receipts, gap>>

\* on_message logs the receipt.
Receive ==
    /\ collector \in Subscribed /\ inbox # <<>>
    /\ receipts' = receipts \cup {Head(inbox)}
    /\ inbox' = Tail(inbox)
    /\ UNCHANGED <<vars, phase, collector, marker, gap>>

\* on_disconnect removes the marker; paho connects again, but the session was
\* clean and the subscription is gone with it.
Disconnected ==
    /\ collector \in Running \ {"connecting"} /\ collector' = "connecting"
    /\ marker' = FALSE /\ inbox' = <<>> /\ gap' = TRUE
    /\ UNCHANGED <<vars, phase, receipts>>

\* Killed, the collector leaves its marker; systemd starts it again.
CollectorDies ==
    /\ collector \in Running /\ collector' = "dead"
    /\ inbox' = <<>> /\ gap' = TRUE
    /\ UNCHANGED <<vars, phase, marker, receipts>>

CollectorRestarts ==
    /\ collector = "dead" /\ collector' = "connecting"
    /\ marker' = FALSE
    /\ UNCHANGED <<vars, phase, inbox, receipts, gap>>

----------------------------------------------------------------------------
\* The broker forwards what it gets to whoever is subscribed, as long as its
\* queue for the subscriber has room.
BrokerForwards ==
    /\ \E e \in Events :
          /\ BrokerGets(e)
          /\ inbox' = IF collector \in Subscribed /\ Len(inbox) < SubscriberQueue
                      THEN Append(inbox, e) ELSE inbox
    /\ gap' = (gap \/ Len(inbox) = SubscriberQueue)
    /\ UNCHANGED <<phase, collector, marker, receipts>>

\* The steps of the publisher that concern nobody else.
Publisher ==
    /\ Main \/ Interrupted \/ Drop \/ Reconnect \/ PubAck
    /\ UNCHANGED delivery

Playbooks ==
    \/ PrepareBroker \/ PassBarrier \/ StartReplay \/ ReplayDone \/ Collect
    \/ PhaseFails \/ CleanCollector \/ KillPublisher

Collector ==
    Subscribe \/ Suback \/ Receive \/ Disconnected \/ CollectorDies \/ CollectorRestarts

DeliveryNext == Playbooks \/ Collector \/ BrokerForwards \/ Publisher

DeliverySpec == DeliveryInit /\ [][DeliveryNext]_allVars

\* The playbooks go on, each wait of theirs has a timeout, and the
\* publisher's main thread is scheduled.
DeliveryFairSpec ==
    /\ DeliverySpec
    /\ WF_allVars(Playbooks)
    /\ WF_allVars(Main /\ UNCHANGED delivery)

----------------------------------------------------------------------------
(* reconcile(): what the summary says of the run.                           *)

Published        == {e \in Events : status[e] = "accepted"}
SubmissionFailed == {e \in Events : status[e] = "refused"}
Acknowledged     == {e \in Events : acked[e] > 0}

\* While the publisher runs, and unless its stream has a gap, everything the
\* broker got has reached the collector or is on its way: the replay starts
\* only after the subscription (mqtt.yml, "Require a successful receiving
\* subscription before replay").
EverythingIsHeard ==
    phase \in {"replaying", "collecting"} /\ ~gap =>
        received \subseteq receipts \cup {inbox[i] : i \in 1..Len(inbox)}

\* The receipts of the run are of this run's publications, whatever an
\* earlier attempt under its directory left behind.
ReceiptsAreOfThisRun ==
    phase \in {"barrier", "replaying", "collecting", "final"} => receipts \subseteq received

\* A summary is consistent, although its three sources are written by three
\* processes: every event of the trace is published or its submission failed,
\* nothing is acknowledged that the broker has not, nothing is received that
\* was not published, and what is not acknowledged is listed as outstanding.
SummaryIsConsistent ==
    phase = "final" =>
        /\ Published \cup SubmissionFailed = Events
        /\ Acknowledged \subseteq received \cap Published
        /\ receipts \subseteq Published
        /\ Published \ Acknowledged \subseteq outstanding

\* The summary is about this run, and consistent.
SummaryHolds == ReceiptsAreOfThisRun /\ SummaryIsConsistent

\* The phase ends, with a summary or with the run cleaned up, and no publisher
\* that was launched outlives it for ever, even if the broker never answers.
PhaseConcludes ==
    phase = "barrier" ~> phase \in {"final", "failed"} /\ pc \in Over \cup {"idle"}
=============================================================================
