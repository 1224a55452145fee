------------------------- MODULE MqttDeliveryProofs -------------------------
(***************************************************************************)
(* What a publisher logs is true, for every trace, every queue limit and   *)
(* every number of message identifiers not below it; the traffic phase     *)
(* that runs it hears what is published and summarises it truly.           *)
(*                                                                         *)
(* The argument: what is acknowledged but not read (acks) and what is      *)
(* outgoing (out) is one window over the last identifiers drawn, at most   *)
(* max_queued of them, so that no identifier occurs in it twice; pending   *)
(* holds just the window, but for the publication that is being recorded.  *)
(* The phase runs that publisher, so that all this holds in it; added are  *)
(* what the barrier guarantees as long as the collector's stream has no    *)
(* gap, and that the receipts are of what this run's publisher sent.       *)
(***************************************************************************)
EXTENDS MqttDelivery, FiniteSetTheorems, TLAPS

(* ----------------------------- the publisher ---------------------------- *)

\* The identifier drawn k publications ago.
Back(m, k) == IF m > k THEN m - k ELSE m + MidLimit - k

Window == Len(acks) + Len(out)

WindowInv ==
    /\ Window <= MaxQueued
    /\ \A i \in 1..Len(acks) : acks[i] = Back(nextMid, Window - i + 1)
    /\ \A i \in 1..Len(out) : out[i].mid = Back(nextMid, Len(out) - i + 1)

\* pending is within the window, and tells the event of what is in it.
PendingInv ==
    /\ \A m \in InPending : m # held.mid /\ \E k \in 1..Window : m = Back(nextMid, k)
    /\ \A i \in 1..Len(out) :
          pending[out[i].mid] # None => pending[out[i].mid] = out[i].event
    /\ \A i \in 1..Len(acks) :
          pending[acks[i]] # None => pending[acks[i]] \in received
    /\ \A m \in InPending : acked[pending[m]] = 0 /\ pending[m] < next
                            /\ status[pending[m]] = "accepted"
    /\ \A m1, m2 \in InPending : pending[m1] = pending[m2] => m1 = m2

\* Until something fails, it is the whole window.
Sound == pc \in Replaying \/ ended = "session_end"

WholeInv ==
    Sound => /\ early = {}
             /\ \A k \in 1..Window : \/ Back(nextMid, k) = held.mid
                                     \/ pending[Back(nextMid, k)] # None

\* The publication being recorded is the last of the window.
HeldInv ==
    /\ pc # "recording" => held = NotSent
    /\ ~held.accepted => held = NotSent
    /\ held.accepted =>
          /\ held.mid = Back(nextMid, 1) /\ Window > 0
          /\ Len(out) > 0 => out[Len(out)].event = next
          /\ Len(out) = 0 => next \in received

DeliveredInv == \A i \in 1..delivered : out[i].event \in received

\* Of an event the broker has or may get, the publication was accepted, or
\* has not been recorded.
SentInv ==
    \A e \in Events :
        e \in received \/ (\E i \in 1..Len(out) : out[i].event = e) =>
            \/ status[e] = "accepted"
            \/ e = next /\ (held.accepted \/ pc \notin Replaying)

Starting == {"idle", "connecting"}

LogInv ==
    /\ pc \in Starting => out = <<>> /\ acks = <<>> /\ received = {} /\ next = 1 /\ early = {}
    /\ pc \in Starting \cup Replaying => ended = "none"
    /\ pc \in {"publishing", "recording", "waiting"} => next <= NumEvents
    /\ pc = "draining" => next > NumEvents
    /\ \A e \in Events : e >= next <=> status[e] = "unsent"
    /\ \A e \in Events :
          status[e] = "accepted" => acked[e] > 0 \/ \E m \in InPending : pending[m] = e
    /\ \A e \in Events : acked[e] > 0 => acked[e] = 1 /\ e \in received /\ status[e] = "accepted"

ReplayInv ==
    /\ TypeOK /\ WindowInv /\ PendingInv /\ WholeInv /\ HeldInv
    /\ DeliveredInv /\ SentInv /\ LogInv /\ Accounted

----------------------------------------------------------------------------
(* The cycle of identifiers.                                                *)

\* Back counts distinct identifiers, as long as it counts no more than there are.
LEMMA BackFacts ==
    ASSUME NEW m \in Mids, NEW j \in 1..MidLimit, NEW k \in 1..MidLimit
    PROVE  /\ Back(m, j) \in Mids
           /\ Back(m, j) = Back(m, k) => j = k
           /\ j < MidLimit => Back(m, j) # m
           /\ Back(SuccMid(m), 1) = m
           /\ j < MidLimit => Back(SuccMid(m), j + 1) = Back(m, j)
           /\ SuccMid(m) \in Mids
  BY ReplayAssumption DEF Back, Mids, SuccMid

LEMMA BackDistinct ==
    ASSUME NEW m \in Mids, NEW j \in 1..MidLimit, NEW k \in 1..MidLimit, j # k
    PROVE  Back(m, j) # Back(m, k)
  BY BackFacts

LEMMA BackFresh ==
    ASSUME NEW m \in Mids, NEW j \in 1..MidLimit, j < MidLimit
    PROVE  Back(m, j) # m
  BY BackFacts

\* No identifier is None.
LEMMA NoneIsNoMid ==
    None \notin Mids /\ None \notin Events
  BY ReplayAssumption DEF Mids, Events

\* What an outgoing message holds.
LEMMA OutIsTyped ==
    ASSUME TypeOK, NEW i \in 1..Len(out)
    PROVE  out[i].mid \in Mids /\ out[i].event \in Events
<1> DEFINE Message == [mid : Mids, event : Events]
<1>1. out \in Seq(Message)
  BY DEF TypeOK
<1>2. out[i] \in Message
  <2> HIDE DEF Message
  <2> QED
    BY <1>1
<1> QED
  BY <1>2

\* As many identifiers are pending as the window is long, while nothing is
\* being recorded: len(pending) counts the window.
LEMMA PendingCountsWindow ==
    ASSUME TypeOK, WindowInv, PendingInv, WholeInv, Sound, held = NotSent
    PROVE  IsFiniteSet(InPending) /\ Cardinality(InPending) = Window
<1> DEFINE f == [k \in 1..Window |-> Back(nextMid, k)]
<1>1. Window \in Nat /\ Window <= MidLimit /\ nextMid \in Mids
  <2>1. Len(acks) \in Nat /\ Len(out) \in Nat /\ nextMid \in Mids
    BY DEF TypeOK
  <2>2. Window <= MaxQueued
    BY DEF WindowInv
  <2> QED
    BY <2>1, <2>2, ReplayAssumption DEF Window
<1>2. \A k \in 1..Window : k \in 1..MidLimit
  BY <1>1, ReplayAssumption
<1>3. \A k \in 1..Window : f[k] \in InPending
  <2> SUFFICES ASSUME NEW k \in 1..Window PROVE Back(nextMid, k) \in InPending
    OBVIOUS
  <2>1. Back(nextMid, k) \in Mids
    BY <1>1, <1>2, BackFacts
  <2>2. held.mid = None
    BY DEF NotSent
  <2> QED
    BY <2>1, <2>2, NoneIsNoMid DEF WholeInv, InPending
<1>4. \A j, k \in 1..Window : f[j] = f[k] => j = k
  BY <1>1, <1>2, BackFacts
<1>5. \A m \in InPending : \E k \in 1..Window : f[k] = m
  BY DEF PendingInv
<1>6. f \in Bijection(1..Window, InPending)
  BY <1>3, <1>4, <1>5 DEF Bijection, Injection, Surjection, IsInjective
<1>7. ExistsBijection(1..Window, InPending)
  BY <1>6 DEF ExistsBijection
<1>8. IsFiniteSet(InPending)
  BY <1>1, <1>7, FS_NatBijection
<1> QED
  BY <1>1, <1>7, <1>8, FS_CountingElements

----------------------------------------------------------------------------
(* The steps that leave the window and the ledger alone.                    *)

\* A step of the main thread that moves on, with nothing to be recorded.
LEMMA ControlFrame ==
    ASSUME ReplayInv, held' = NotSent,
           UNCHANGED <<next, acks, client, delivered, received, ledger, status>>,
           Sound' => held = NotSent /\ (Sound \/ pc \in Starting),
           pc' \in Replaying => held = NotSent /\ pc \in Starting \cup Replaying,
           pc' \in Looping \cup Over \cup {"idle", "connecting", "closing"},
           link' \in BOOLEAN, outstanding' \subseteq Events,
           ended' \in {"none", "session_end", "session_failure"},
           pc' \in Starting => pc \in Starting,
           pc' \in Starting \cup Replaying => ended' = "none",
           pc' \in {"publishing", "recording", "waiting"} => next <= NumEvents,
           pc' = "draining" => next > NumEvents,
           Accounted'
    PROVE  ReplayInv'
<1>0. /\ TypeOK /\ WindowInv /\ PendingInv /\ WholeInv /\ HeldInv /\ DeliveredInv
      /\ SentInv /\ LogInv
  BY DEF ReplayInv
<1>1. UNCHANGED <<next, acks, nextMid, out, delivered, received, pending, early, acked, status>>
  BY DEF client, ledger
<1>2. Window' = Window /\ InPending' = InPending
  BY <1>1 DEF Window, InPending
<1>3. WindowInv'
  BY <1>0, <1>1, <1>2 DEF WindowInv
<1>4. PendingInv'
  <2>1. \A m \in InPending : m # None
    BY NoneIsNoMid DEF InPending
  <2> QED
    BY <1>0, <1>1, <1>2, <2>1 DEF PendingInv, NotSent
<1>5. WholeInv'
  <2>1. CASE ~Sound'
    BY <2>1 DEF WholeInv
  <2>2. CASE Sound' /\ Sound
    BY <2>2, <1>0, <1>1, <1>2 DEF WholeInv
  <2>3. CASE Sound' /\ pc \in Starting
    <3>1. acks = <<>> /\ out = <<>> /\ early = {}
      BY <2>3, <1>0 DEF LogInv
    <3>2. Window = 0
      BY <3>1 DEF Window
    <3> QED
      BY <3>1, <3>2, <1>1, <1>2 DEF WholeInv
  <2> QED
    BY <2>1, <2>2, <2>3
<1>6. HeldInv'
  BY DEF HeldInv, NotSent
<1>7. SentInv'
  <2>1. CASE pc' \notin Replaying
    BY <2>1, <1>0, <1>1 DEF SentInv
  <2>2. CASE pc' \in Replaying /\ pc \in Replaying
    BY <2>2, <1>0, <1>1 DEF SentInv
  <2>3. CASE pc' \in Replaying /\ pc \in Starting
    <3>1. out = <<>> /\ received = {}
      BY <2>3, <1>0 DEF LogInv
    <3> QED
      BY <3>1, <1>1 DEF SentInv
  <2> QED
    BY <2>1, <2>2, <2>3
<1>8. DeliveredInv'
  BY <1>0, <1>1 DEF DeliveredInv
<1>9. LogInv'
  BY <1>0, <1>1, <1>2 DEF LogInv
<1>10. TypeOK'
  BY <1>0, <1>1 DEF TypeOK, NotSent
<1> QED
  BY <1>3, <1>4, <1>5, <1>6, <1>7, <1>8, <1>9, <1>10 DEF ReplayInv

\* A step of the network that leaves what it has of this publisher as it is.
LEMMA LinkFrame ==
    ASSUME ReplayInv, UNCHANGED <<pc, next, held, acks, client, received, ledger, log>>
    PROVE  /\ WindowInv' /\ PendingInv' /\ WholeInv' /\ HeldInv' /\ SentInv'
           /\ LogInv' /\ Accounted'
<1>0. WindowInv /\ PendingInv /\ WholeInv /\ HeldInv /\ SentInv /\ LogInv /\ Accounted
  BY DEF ReplayInv
<1>1. UNCHANGED <<pc, next, held, acks, nextMid, out, received, pending, early, acked,
                  status, outstanding, ended>>
  BY DEF client, ledger, log
<1>2. Window' = Window /\ InPending' = InPending /\ Sound' = Sound
  BY <1>1 DEF Window, InPending, Sound
<1>3. WindowInv' /\ PendingInv' /\ WholeInv'
  BY <1>0, <1>1, <1>2 DEF WindowInv, PendingInv, WholeInv
<1>4. HeldInv' /\ SentInv'
  BY <1>0, <1>1, <1>2 DEF HeldInv, SentInv
<1>5. LogInv' /\ Accounted'
  BY <1>0, <1>1, <1>2 DEF LogInv, Accounted
<1> QED
  BY <1>3, <1>4, <1>5

LEMMA InitInv ==
    Init => ReplayInv
<1> SUFFICES ASSUME Init PROVE ReplayInv
  OBVIOUS
<1>1. TypeOK
  <2>1. NumEvents \in Nat /\ NumEvents >= 1 /\ MidLimit \in Nat /\ MidLimit >= 1
    BY ReplayAssumption
  <2>2. next \in 1..NumEvents + 1 /\ nextMid \in Mids
    BY <2>1 DEF Init, Mids
  <2>3. pc \in Looping \cup Over \cup {"idle", "connecting", "closing"} /\ link \in BOOLEAN
    BY DEF Init
  <2>4. /\ acks \in Seq(Mids) /\ out \in Seq([mid : Mids, event : Events])
        /\ delivered \in 0..Len(out)
    BY DEF Init
  <2>5. held \in [mid : Mids \cup {None}, accepted : BOOLEAN]
    BY DEF Init, NotSent
  <2>6. pending \in [Mids -> Events \cup {None}] /\ early \subseteq Mids
    BY DEF Init
  <2>7. /\ status \in [Events -> {"unsent", "accepted", "refused"}]
        /\ acked \in [Events -> Nat]
    BY DEF Init
  <2>8. received \subseteq Events /\ outstanding \subseteq Events
        /\ ended \in {"none", "session_end", "session_failure"}
    BY DEF Init
  <2> QED
    BY <2>2, <2>3, <2>4, <2>5, <2>6, <2>7, <2>8 DEF TypeOK
<1>2. acks = <<>> /\ out = <<>> /\ Len(acks) = 0 /\ Len(out) = 0 /\ Window = 0 /\ InPending = {}
  BY DEF Init, Window, InPending
<1>3. WindowInv /\ PendingInv /\ WholeInv
  BY <1>2, ReplayAssumption DEF Init, WindowInv, PendingInv, WholeInv
<1>4. HeldInv /\ DeliveredInv /\ SentInv
  BY <1>2 DEF Init, HeldInv, DeliveredInv, SentInv, NotSent
<1>5. LogInv /\ Accounted
  BY <1>2, ReplayAssumption DEF Init, LogInv, Accounted, Replaying, Events, Starting
<1> QED
  BY <1>1, <1>3, <1>4, <1>5 DEF ReplayInv

\* The steps of the main thread that do no more.
LEMMA ControlInv ==
    ASSUME ReplayInv,
           \/ Launch \/ Connect \/ ConnectFails \/ WaitEnds \/ Refuse \/ FlushEnds
           \/ Interrupted \/ LoopStop \/ Exit \/ Kill
    PROVE  ReplayInv'
<1>0. TypeOK /\ HeldInv /\ LogInv /\ Accounted
  BY DEF ReplayInv
<1>1. UNCHANGED <<next, acks, client, delivered, received, ledger, status, outstanding>>
  BY DEF Launch, Connect, ConnectFails, WaitEnds, Refuse, FlushEnds, Interrupted, LoopStop,
         Exit, Kill, network, log
<1>2. pc # "recording" => held = NotSent
  BY <1>0 DEF HeldInv
<1>3. pc \in Starting \cup Replaying => ended = "none"
  BY <1>0 DEF LogInv
<1>4. pc \in Starting => next <= NumEvents
  BY <1>0, ReplayAssumption DEF LogInv
<1>5. pc \in {"publishing", "recording", "waiting"} => next <= NumEvents
  BY <1>0 DEF LogInv
<1>6. held' = NotSent
  BY <1>2 DEF Launch, Connect, ConnectFails, WaitEnds, Refuse, FlushEnds, Interrupted, LoopStop,
              Exit, Kill
<1>7. ended' = "session_end" => ended = "session_end"
  BY DEF Launch, Connect, ConnectFails, WaitEnds, Refuse, FlushEnds, Interrupted, LoopStop,
         Exit, Kill, log
<1>8. Accounted'
  BY <1>0, <1>1, <1>7 DEF Accounted, ledger
<1>9. link' \in BOOLEAN /\ outstanding' \subseteq Events
  BY <1>0, <1>1 DEF TypeOK, Launch, Connect, ConnectFails, WaitEnds, Refuse, FlushEnds,
                    Interrupted, LoopStop, Exit, Kill, network
<1>10. /\ ended' \in {"none", "session_end", "session_failure"}
       /\ pc' \in Starting \cup Replaying => ended' = "none"
  BY <1>0, <1>3 DEF TypeOK, Launch, Connect, ConnectFails, WaitEnds, Refuse, FlushEnds,
                    Interrupted, LoopStop, Exit, Kill, log, Starting, Replaying
<1>11. /\ pc' \in Looping \cup Over \cup {"idle", "connecting", "closing"}
       /\ pc' \in Starting => pc \in Starting
       /\ pc' \in Replaying => held = NotSent /\ pc \in Starting \cup Replaying
  BY <1>2 DEF Launch, Connect, ConnectFails, WaitEnds, Refuse, FlushEnds, Interrupted,
              LoopStop, Exit, Kill, Starting, Looping, Replaying, Over
<1>12. Sound' => held = NotSent /\ (Sound \/ pc \in Starting)
  BY <1>2, <1>3, <1>7, <1>11 DEF Sound, Replaying
<1>13. /\ pc' \in {"publishing", "recording", "waiting"} => next <= NumEvents
       /\ pc' = "draining" => next > NumEvents
  BY <1>0, <1>4, <1>5, ReplayAssumption DEF TypeOK, Launch, Connect, ConnectFails, WaitEnds, Refuse, FlushEnds,
                    Interrupted, LoopStop, Exit, Kill, Starting
<1> QED
  BY <1>1, <1>6, <1>8, <1>9, <1>10, <1>11, <1>12, <1>13, ControlFrame

\* session_end lists what is pending: with the window whole, every
\* publication accepted and not acknowledged.
LEMMA DrainEndsInv ==
    ASSUME ReplayInv, DrainEnds
    PROVE  ReplayInv'
<1>0. TypeOK /\ PendingInv /\ HeldInv /\ LogInv
  BY DEF ReplayInv
<1>1. /\ pc = "draining" /\ pc' = "leaving" /\ ended' = "session_end"
      /\ outstanding' = {pending[m] : m \in InPending}
      /\ UNCHANGED <<next, held, acks, client, link, delivered, received, ledger, status>>
      /\ UNCHANGED <<acked, pending>>
  BY DEF DrainEnds, network, ledger
<1>2. outstanding' \subseteq Events
  BY <1>0, <1>1 DEF TypeOK, InPending
<1>3. held' = NotSent /\ held = NotSent
  BY <1>0, <1>1 DEF HeldInv
<1>4. Accounted'
  <2> SUFFICES ASSUME NEW e \in Events
               PROVE  \/ status[e] = "refused" /\ acked[e] = 0 /\ e \notin outstanding'
                      \/ status[e] = "accepted" /\ (acked[e] > 0 \/ e \in outstanding')
    BY <1>1 DEF Accounted
  <2>1. e < next
    BY <1>0, <1>1, ReplayAssumption DEF LogInv, TypeOK, Events
  <2>2. status[e] \in {"accepted", "refused"}
    BY <2>1, <1>0 DEF LogInv, TypeOK, Events
  <2>3. CASE status[e] = "accepted"
    BY <2>3, <1>0, <1>1 DEF LogInv
  <2>4. CASE status[e] = "refused"
    <3>1. acked[e] = 0
      BY <2>4, <1>0 DEF LogInv, TypeOK
    <3>2. \A m \in InPending : pending[m] # e
      BY <2>4, <1>0 DEF PendingInv
    <3> QED
      BY <3>1, <3>2, <2>4, <1>1
  <2> QED
    BY <2>2, <2>3, <2>4
<1>5. Sound
  BY <1>1 DEF Sound, Replaying
<1> QED
  BY <1>0, <1>1, <1>2, <1>3, <1>4, <1>5, ControlFrame DEF TypeOK, Replaying, Looping, Starting

----------------------------------------------------------------------------
(* The connection.                                                          *)

LEMMA LinkInv ==
    ASSUME ReplayInv, Drop \/ Reconnect
    PROVE  ReplayInv'
<1>0. TypeOK /\ DeliveredInv
  BY DEF ReplayInv
<1>1. UNCHANGED <<pc, next, held, acks, client, received, ledger, log>>
  BY DEF Drop, Reconnect
<1>2. link' \in BOOLEAN /\ delivered' \in {0, delivered}
  BY DEF Drop, Reconnect
<1>3. TypeOK'
  <2>1. delivered' \in 0..Len(out)
    BY <1>0, <1>2 DEF TypeOK
  <2> QED
    BY <1>0, <1>1, <1>2, <2>1 DEF TypeOK, client, ledger, log
<1>4. DeliveredInv'
  BY <1>0, <1>1, <1>2 DEF DeliveredInv, client
<1> QED
  BY <1>1, <1>3, <1>4, LinkFrame DEF ReplayInv

LEMMA BrokerGetsInv ==
    ASSUME ReplayInv, NEW e \in Events, BrokerGets(e)
    PROVE  ReplayInv'
<1>0. /\ TypeOK /\ WindowInv /\ PendingInv /\ WholeInv /\ HeldInv /\ DeliveredInv
      /\ SentInv /\ LogInv /\ Accounted
  BY DEF ReplayInv
<1>1. /\ delivered < Len(out) /\ out[delivered + 1].event = e
      /\ delivered' = delivered + 1 /\ received' = received \cup {e}
      /\ UNCHANGED <<pc, next, held, acks, nextMid, out, link, pending, early, acked,
                     status, outstanding, ended>>
  BY DEF BrokerGets, client, ledger, log
<1>2. Window' = Window /\ InPending' = InPending /\ Sound' = Sound
  BY <1>1 DEF Window, InPending, Sound
<1>3. delivered \in Nat /\ Len(out) \in Nat /\ delivered + 1 \in 1..Len(out)
  BY <1>0, <1>1 DEF TypeOK
<1>4. TypeOK'
  BY <1>0, <1>1, <1>3 DEF TypeOK
<1>5. WindowInv' /\ WholeInv'
  BY <1>0, <1>1, <1>2 DEF WindowInv, WholeInv
<1>6. PendingInv'
  BY <1>0, <1>1, <1>2 DEF PendingInv
<1>7. HeldInv'
  BY <1>0, <1>1, <1>2 DEF HeldInv
<1>8. DeliveredInv'
  <2> SUFFICES ASSUME NEW i \in 1..delivered' PROVE out[i].event \in received \cup {e}
    BY <1>1 DEF DeliveredInv
  <2>1. CASE i = delivered + 1
    BY <2>1, <1>1
  <2>2. CASE i \in 1..delivered
    BY <2>2, <1>0 DEF DeliveredInv
  <2> QED
    BY <2>1, <2>2, <1>1, <1>3
<1>9. SentInv'
  <2> SUFFICES ASSUME NEW x \in Events,
                      x \in received \cup {e} \/ \E i \in 1..Len(out) : out[i].event = x
               PROVE  \/ status[x] = "accepted"
                      \/ x = next /\ (held.accepted \/ pc \notin Replaying)
    BY <1>1 DEF SentInv
  <2>1. x \in received \/ \E i \in 1..Len(out) : out[i].event = x
    BY <1>1, <1>3
  <2> QED
    BY <2>1, <1>0 DEF SentInv
<1>10. LogInv'
  <2>1. pc \notin Starting
    <3>1. out # <<>>
      BY <1>3
    <3> QED
      BY <3>1, <1>0 DEF LogInv
  <2> QED
    BY <2>1, <1>0, <1>1, <1>2 DEF LogInv
<1>11. Accounted'
  BY <1>0, <1>1 DEF Accounted
<1> QED
  BY <1>4, <1>5, <1>6, <1>7, <1>8, <1>9, <1>10, <1>11 DEF ReplayInv

\* The head of out becomes the last of acks: the window stays what it is.
LEMMA PubAckInv ==
    ASSUME ReplayInv, PubAck
    PROVE  ReplayInv'
<1>0. /\ TypeOK /\ WindowInv /\ PendingInv /\ WholeInv /\ HeldInv /\ DeliveredInv
      /\ SentInv /\ LogInv /\ Accounted
  BY DEF ReplayInv
<1>1. /\ delivered > 0 /\ delivered' = delivered - 1
      /\ acks' = Append(acks, Head(out).mid) /\ out' = Tail(out)
      /\ UNCHANGED <<pc, next, held, nextMid, link, received, pending, early, acked,
                     status, outstanding, ended>>
  BY DEF PubAck, ledger, log
<1>2. delivered \in Nat /\ Len(out) \in Nat /\ Len(acks) \in Nat /\ Len(out) >= 1
  BY <1>0, <1>1 DEF TypeOK
<1>3. out[1] \in [mid : Mids, event : Events] /\ Head(out) = out[1]
  <2> DEFINE Message == [mid : Mids, event : Events]
  <2>1. out \in Seq(Message) /\ 1 \in 1..Len(out)
    BY <1>0, <1>2 DEF TypeOK
  <2> HIDE DEF Message
  <2>2. out[1] \in Message /\ Head(out) = out[1]
    BY <2>1
  <2> QED
    BY <2>2 DEF Message
<1>4. /\ Len(acks') = Len(acks) + 1 /\ acks' \in Seq(Mids)
      /\ \A i \in 1..Len(acks) : acks'[i] = acks[i]
      /\ acks'[Len(acks) + 1] = out[1].mid
  BY <1>0, <1>1, <1>2, <1>3 DEF TypeOK
<1>5. /\ Len(out') = Len(out) - 1 /\ out' \in Seq([mid : Mids, event : Events])
      /\ \A i \in 1..Len(out) - 1 : out'[i] = out[i + 1]
  BY <1>0, <1>1, <1>2 DEF TypeOK
<1>6. Window' = Window /\ InPending' = InPending /\ Sound' = Sound
  BY <1>1, <1>2, <1>4, <1>5 DEF Window, InPending, Sound
<1>7. TypeOK'
  <2>1. delivered <= Len(out)
    BY <1>0 DEF TypeOK
  <2>2. delivered' \in 0..Len(out')
    BY <2>1, <1>1, <1>2, <1>5
  <2> QED
    BY <2>2, <1>0, <1>1, <1>4, <1>5 DEF TypeOK
<1>8. WindowInv'
  <2>1. \A i \in 1..Len(acks') : acks'[i] = Back(nextMid, Window - i + 1)
    <3> SUFFICES ASSUME NEW i \in 1..Len(acks) + 1
                 PROVE  acks'[i] = Back(nextMid, Window - i + 1)
      BY <1>4
    <3>1. CASE i \in 1..Len(acks)
      BY <3>1, <1>0, <1>4 DEF WindowInv
    <3>2. CASE i = Len(acks) + 1
      <4>1. Window - i + 1 = Len(out) - 1 + 1
        BY <3>2, <1>2 DEF Window
      <4>2. out[1].mid = Back(nextMid, Len(out) - 1 + 1)
        BY <1>0, <1>2 DEF WindowInv
      <4> QED
        BY <3>2, <4>1, <4>2, <1>4
    <3> QED
      BY <3>1, <3>2, <1>2
  <2>2. \A i \in 1..Len(out') : out'[i].mid = Back(nextMid, Len(out') - i + 1)
    <3> SUFFICES ASSUME NEW i \in 1..Len(out) - 1
                 PROVE  out[i + 1].mid = Back(nextMid, Len(out) - 1 - i + 1)
      BY <1>5
    <3>1. i + 1 \in 1..Len(out) /\ Len(out) - (i + 1) + 1 = Len(out) - 1 - i + 1
      BY <1>2
    <3> QED
      BY <3>1, <1>0 DEF WindowInv
  <2> QED
    BY <2>1, <2>2, <1>0, <1>1, <1>6 DEF WindowInv
<1>9. PendingInv'
  <2>1. \A i \in 1..Len(out') : pending[out'[i].mid] # None => pending[out'[i].mid] = out'[i].event
    <3> SUFFICES ASSUME NEW i \in 1..Len(out) - 1
                 PROVE  pending[out[i + 1].mid] # None => pending[out[i + 1].mid] = out[i + 1].event
      BY <1>5
    <3>1. i + 1 \in 1..Len(out)
      BY <1>2
    <3> QED
      BY <3>1, <1>0 DEF PendingInv
  <2>2. \A i \in 1..Len(acks') : pending[acks'[i]] # None => pending[acks'[i]] \in received
    <3> SUFFICES ASSUME NEW i \in 1..Len(acks) + 1
                 PROVE  pending[acks'[i]] # None => pending[acks'[i]] \in received
      BY <1>4
    <3>1. CASE i \in 1..Len(acks)
      BY <3>1, <1>0, <1>4 DEF PendingInv
    <3>2. CASE i = Len(acks) + 1
      <4>1. out[1].event \in received
        BY <1>0, <1>1, <1>2 DEF DeliveredInv
      <4>2. pending[out[1].mid] # None => pending[out[1].mid] = out[1].event
        BY <1>0, <1>2 DEF PendingInv
      <4> QED
        BY <3>2, <4>1, <4>2, <1>4
    <3> QED
      BY <3>1, <3>2, <1>2
  <2> QED
    BY <2>1, <2>2, <1>0, <1>1, <1>6 DEF PendingInv
<1>10. WholeInv'
  BY <1>0, <1>1, <1>6 DEF WholeInv
<1>11. HeldInv'
  <2>1. CASE ~held.accepted
    BY <2>1, <1>0, <1>1 DEF HeldInv
  <2>2. CASE held.accepted
    <3>1. Len(out') > 0 => out'[Len(out')].event = next
      BY <2>2, <1>0, <1>2, <1>5 DEF HeldInv
    <3>2. Len(out') = 0 => next \in received
      <4> SUFFICES ASSUME Len(out') = 0 PROVE next \in received
        OBVIOUS
      <4>1. Len(out) = 1
        BY <1>2, <1>5
      <4>2. out[1].event = next
        BY <2>2, <4>1, <1>0 DEF HeldInv
      <4>3. out[1].event \in received
        BY <1>0, <1>1, <1>2 DEF DeliveredInv
      <4> QED
        BY <4>2, <4>3
    <3> QED
      BY <2>2, <3>1, <3>2, <1>0, <1>1, <1>6 DEF HeldInv
  <2> QED
    BY <2>1, <2>2
<1>12. DeliveredInv'
  <2> SUFFICES ASSUME NEW i \in 1..delivered - 1 PROVE out'[i].event \in received
    BY <1>1 DEF DeliveredInv
  <2>1. i + 1 \in 1..delivered /\ i \in 1..Len(out) - 1
    BY <1>0, <1>2 DEF TypeOK
  <2> QED
    BY <2>1, <1>0, <1>5 DEF DeliveredInv
<1>13. SentInv'
  <2> SUFFICES ASSUME NEW x \in Events,
                      x \in received \/ \E i \in 1..Len(out') : out'[i].event = x
               PROVE  \/ status[x] = "accepted"
                      \/ x = next /\ (held.accepted \/ pc \notin Replaying)
    BY <1>1 DEF SentInv
  <2>1. (\E i \in 1..Len(out') : out'[i].event = x) => \E i \in 1..Len(out) : out[i].event = x
    <3> SUFFICES ASSUME NEW i \in 1..Len(out'), out'[i].event = x
                 PROVE  \E j \in 1..Len(out) : out[j].event = x
      OBVIOUS
    <3>1. i + 1 \in 1..Len(out) /\ out[i + 1].event = x
      BY <1>2, <1>5
    <3> QED
      BY <3>1
  <2> QED
    BY <2>1, <1>0 DEF SentInv
<1>14. LogInv'
  <2>1. pc \notin Starting
    <3>1. out # <<>>
      BY <1>2
    <3> QED
      BY <3>1, <1>0 DEF LogInv
  <2> QED
    BY <2>1, <1>0, <1>1, <1>6 DEF LogInv
<1>15. Accounted'
  BY <1>0, <1>1 DEF Accounted
<1> QED
  BY <1>7, <1>8, <1>9, <1>10, <1>11, <1>12, <1>13, <1>14, <1>15 DEF ReplayInv

----------------------------------------------------------------------------
(* The ledger.                                                              *)

\* The oldest of the window leaves it.  If it is pending, its event is one the
\* broker got and no ack record names yet.
LEMMA ProcessAckInv ==
    ASSUME ReplayInv, ProcessAck
    PROVE  ReplayInv'
<1> DEFINE m == Head(acks)
<1>0. /\ TypeOK /\ WindowInv /\ PendingInv /\ WholeInv /\ HeldInv /\ DeliveredInv
      /\ SentInv /\ LogInv /\ Accounted
  BY DEF ReplayInv
<1>1. /\ pc \in Reading /\ acks # <<>> /\ acks' = Tail(acks)
      /\ UNCHANGED <<pc, next, held, nextMid, out, link, delivered, received, status,
                     outstanding, ended>>
  BY DEF ProcessAck, client, network, log
<1>2. /\ Len(out) \in Nat /\ Len(acks) \in Nat /\ Len(acks) >= 1 /\ m \in Mids /\ m = acks[1]
      /\ nextMid \in Mids
  BY <1>0, <1>1 DEF TypeOK
<1>3. /\ Len(acks') = Len(acks) - 1 /\ acks' \in Seq(Mids)
      /\ \A i \in 1..Len(acks) - 1 : acks'[i] = acks[i + 1]
  BY <1>0, <1>1, <1>2 DEF TypeOK
<1>4. Window \in Nat /\ Window >= 1 /\ Window' = Window - 1 /\ Window <= MidLimit
  <2>1. Window <= MaxQueued
    BY <1>0 DEF WindowInv
  <2> QED
    BY <2>1, <1>1, <1>2, <1>3, ReplayAssumption DEF Window
<1>5. m = Back(nextMid, Window)
  <2>1. acks[1] = Back(nextMid, Window - 1 + 1)
    BY <1>0, <1>2 DEF WindowInv
  <2> QED
    BY <2>1, <1>2, <1>4
<1>6. held = NotSent /\ pc # "recording" /\ held.mid = None /\ ~held.accepted
  BY <1>0, <1>1 DEF HeldInv, Reading, NotSent
<1>7. m \in InPending => /\ pending' = [pending EXCEPT ![m] = None]
                         /\ acked' = [acked EXCEPT ![pending[m]] = @ + 1]
                         /\ early' = early
  BY DEF ProcessAck
<1>8. m \notin InPending => /\ early' = early \cup {m} /\ UNCHANGED <<pending, acked>>
  BY DEF ProcessAck
<1> HIDE DEF m
<1>9. m \in InPending => /\ pending[m] \in Events /\ pending[m] \in received
                         /\ acked[pending[m]] = 0 /\ status[pending[m]] = "accepted"
  BY <1>0, <1>2, NoneIsNoMid DEF TypeOK, PendingInv, InPending
<1>10. /\ InPending' = InPending \ {m}
       /\ \A x \in InPending' : pending'[x] = pending[x]
       /\ \A x \in Mids : pending'[x] \in {pending[x], None}
  <2>1. CASE m \in InPending
    <3>1. \A x \in Mids : pending'[x] = IF x = m THEN None ELSE pending[x]
      BY <2>1, <1>0, <1>7 DEF TypeOK
    <3> QED
      BY <3>1 DEF InPending
  <2>2. CASE m \notin InPending
    BY <2>2, <1>8 DEF InPending
  <2> QED
    BY <2>1, <2>2
<1>11. \A e \in Events : /\ acked'[e] = IF m \in InPending /\ e = pending[m] THEN 1 ELSE acked[e]
  <2>1. CASE m \in InPending
    BY <2>1, <1>0, <1>7, <1>9 DEF TypeOK
  <2>2. CASE m \notin InPending
    BY <2>2, <1>8
  <2> QED
    BY <2>1, <2>2
<1>12. TypeOK'
  <2>1. pending' \in [Mids -> Events \cup {None}] /\ early' \subseteq Mids
    BY <1>0, <1>2, <1>7, <1>8 DEF TypeOK
  <2>2. acked' \in [Events -> Nat]
    BY <1>0, <1>7, <1>8, <1>9 DEF TypeOK
  <2> QED
    BY <2>1, <2>2, <1>0, <1>1, <1>3 DEF TypeOK
<1>13. WindowInv'
  <2>1. \A i \in 1..Len(acks') : acks'[i] = Back(nextMid, Window' - i + 1)
    <3> SUFFICES ASSUME NEW i \in 1..Len(acks) - 1
                 PROVE  acks[i + 1] = Back(nextMid, Window - 1 - i + 1)
      BY <1>3, <1>4
    <3>1. i + 1 \in 1..Len(acks) /\ Window - (i + 1) + 1 = Window - 1 - i + 1
      BY <1>2, <1>4
    <3> QED
      BY <3>1, <1>0 DEF WindowInv
  <2>2. Window' <= MaxQueued
    BY <1>0, <1>4, ReplayAssumption DEF WindowInv
  <2> QED
    BY <2>1, <2>2, <1>0, <1>1 DEF WindowInv
<1>14. PendingInv'
  <2>1. \A x \in InPending' : x # held.mid /\ \E k \in 1..Window' : x = Back(nextMid, k)
    <3> SUFFICES ASSUME NEW x \in InPending, x # m
                 PROVE  x # held.mid /\ \E k \in 1..Window - 1 : x = Back(nextMid, k)
      BY <1>4, <1>10
    <3>1. PICK k \in 1..Window : x = Back(nextMid, k)
      BY <1>0 DEF PendingInv
    <3>2. k # Window
      BY <3>1, <1>5
    <3> QED
      BY <3>1, <3>2, <1>0, <1>4 DEF PendingInv
  <2>2. \A i \in 1..Len(out) : pending'[out[i].mid] # None => pending'[out[i].mid] = out[i].event
    <3> SUFFICES ASSUME NEW i \in 1..Len(out)
                 PROVE  pending'[out[i].mid] # None => pending'[out[i].mid] = out[i].event
      OBVIOUS
    <3>1. out[i].mid \in Mids
      BY <1>0, OutIsTyped
    <3> QED
      BY <3>1, <1>0, <1>10 DEF PendingInv
  <2>3. \A i \in 1..Len(acks') : pending'[acks'[i]] # None => pending'[acks'[i]] \in received
    <3> SUFFICES ASSUME NEW i \in 1..Len(acks) - 1
                 PROVE  pending'[acks[i + 1]] # None => pending'[acks[i + 1]] \in received
      BY <1>3
    <3>1. i + 1 \in 1..Len(acks) /\ acks[i + 1] \in Mids
      BY <1>0, <1>2 DEF TypeOK
    <3> QED
      BY <3>1, <1>0, <1>10 DEF PendingInv
  <2>4. \A x \in InPending' : /\ acked'[pending'[x]] = 0 /\ pending'[x] < next
                              /\ status[pending'[x]] = "accepted"
    <3> SUFFICES ASSUME NEW x \in InPending, x # m
                 PROVE  /\ acked'[pending[x]] = 0 /\ pending[x] < next
                        /\ status[pending[x]] = "accepted"
      BY <1>10
    <3>1. pending[x] \in Events /\ (m \in InPending => pending[x] # pending[m])
      BY <1>0, NoneIsNoMid DEF TypeOK, InPending, PendingInv
    <3> QED
      BY <3>1, <1>0, <1>11 DEF PendingInv
  <2>5. \A x, y \in InPending' : pending'[x] = pending'[y] => x = y
    BY <1>0, <1>10 DEF PendingInv
  <2> QED
    BY <2>1, <2>2, <2>3, <2>4, <2>5, <1>1 DEF PendingInv
<1>15. WholeInv'
  <2> SUFFICES ASSUME Sound
               PROVE  /\ early' = {}
                      /\ \A k \in 1..Window - 1 : \/ Back(nextMid, k) = held.mid
                                               \/ pending'[Back(nextMid, k)] # None
    BY <1>1, <1>4 DEF WholeInv, Sound
  <2>1. \A k \in 1..Window : Back(nextMid, k) \in InPending
    <3> SUFFICES ASSUME NEW k \in 1..Window PROVE Back(nextMid, k) \in InPending
      OBVIOUS
    <3>1. k \in 1..MidLimit
      BY <1>4, ReplayAssumption
    <3>2. Back(nextMid, k) \in Mids
      BY <3>1, <1>2, BackFacts
    <3> QED
      BY <3>2, <1>0, <1>6, NoneIsNoMid DEF WholeInv, InPending
  <2>2. m \in InPending /\ early' = {}
    <3>1. m \in InPending
      BY <2>1, <1>4, <1>5
    <3> QED
      BY <3>1, <1>0, <1>7 DEF WholeInv
  <2>3. \A k \in 1..Window - 1 : pending'[Back(nextMid, k)] # None
    <3> SUFFICES ASSUME NEW k \in 1..Window - 1 PROVE Back(nextMid, k) \in InPending'
      BY DEF InPending
    <3>1. k \in 1..MidLimit /\ Window \in 1..MidLimit /\ k # Window /\ k \in 1..Window
      BY <1>4, ReplayAssumption
    <3>2. Back(nextMid, k) # Back(nextMid, Window)
      BY <3>1, <1>2, BackDistinct
    <3>3. Back(nextMid, k) # m
      BY <3>2, <1>5
    <3> QED
      BY <3>1, <3>3, <2>1, <1>10
  <2> QED
    BY <2>2, <2>3
<1>16. HeldInv' /\ DeliveredInv' /\ SentInv'
  BY <1>0, <1>1, <1>6 DEF HeldInv, DeliveredInv, SentInv
<1>17. LogInv'
  <2>1. pc \notin Starting
    BY <1>1 DEF Starting, Reading
  <2>2. \A e \in Events : status[e] = "accepted" =>
            acked'[e] > 0 \/ \E x \in InPending' : pending'[x] = e
    <3> SUFFICES ASSUME NEW e \in Events, status[e] = "accepted"
                 PROVE  acked'[e] > 0 \/ \E x \in InPending' : pending'[x] = e
      OBVIOUS
    <3>1. CASE acked[e] > 0
      BY <3>1, <1>11
    <3>2. CASE \E x \in InPending : pending[x] = e
      BY <3>2, <1>10, <1>11
    <3> QED
      BY <3>1, <3>2, <1>0 DEF LogInv
  <2>3. \A e \in Events : acked'[e] > 0 =>
            acked'[e] = 1 /\ e \in received /\ status[e] = "accepted"
    BY <1>0, <1>9, <1>11 DEF LogInv
  <2> QED
    BY <2>1, <2>2, <2>3, <1>0, <1>1 DEF LogInv
<1>18. Accounted'
  <2> SUFFICES ASSUME ended = "session_end", NEW e \in Events
               PROVE  \/ status[e] = "refused" /\ acked'[e] = 0 /\ e \notin outstanding
                      \/ status[e] = "accepted" /\ (acked'[e] > 0 \/ e \in outstanding)
    BY <1>1 DEF Accounted
  <2> QED
    BY <1>0, <1>9, <1>11 DEF Accounted
<1> QED
  BY <1>12, <1>13, <1>14, <1>15, <1>16, <1>17, <1>18 DEF ReplayInv

\* When fewer than max_queued are pending, paho takes the message: the
\* identifier it draws is not in the window.
LEMMA PahoTakesIt ==
    ASSUME ReplayInv, pc = "publishing", ~QueueFull
    PROVE  PahoTakes /\ Window < MaxQueued
<1>0. TypeOK /\ WindowInv /\ PendingInv /\ WholeInv /\ HeldInv
  BY DEF ReplayInv
<1>1. Sound /\ held = NotSent
  BY <1>0 DEF Sound, Replaying, HeldInv
<1>2. Cardinality(InPending) = Window
  BY <1>0, <1>1, PendingCountsWindow
<1>3. Len(acks) \in Nat /\ Len(out) \in Nat /\ nextMid \in Mids /\ Window = Len(acks) + Len(out)
  BY <1>0 DEF TypeOK, Window
<1>4. Window < MaxQueued /\ Len(out) < MaxQueued
  BY <1>2, <1>3, ReplayAssumption DEF QueueFull
<1>5. nextMid \notin Outgoing
  <2> SUFFICES ASSUME NEW i \in 1..Len(out) PROVE out[i].mid # nextMid
    BY DEF Outgoing
  <2>1. out[i].mid = Back(nextMid, Len(out) - i + 1)
    BY <1>0 DEF WindowInv
  <2>2. Len(out) - i + 1 \in 1..MidLimit /\ Len(out) - i + 1 < MidLimit
    BY <1>3, <1>4, ReplayAssumption
  <2> QED
    BY <2>1, <2>2, <1>3, BackFresh
<1> QED
  BY <1>4, <1>5 DEF PahoTakes

\* The window grows by the identifier drawn; pending does not yet hold it.
LEMMA PublishInv ==
    ASSUME ReplayInv, Publish
    PROVE  ReplayInv'
<1> DEFINE message == [mid |-> nextMid, event |-> next]
<1>0. /\ TypeOK /\ WindowInv /\ PendingInv /\ WholeInv /\ HeldInv /\ DeliveredInv
      /\ SentInv /\ LogInv /\ Accounted
  BY DEF ReplayInv
<1>1. pc = "publishing" /\ ~QueueFull
  BY DEF Publish
<1>2. PahoTakes /\ Window < MaxQueued
  BY <1>1, PahoTakesIt
<1>3. /\ pc' = "recording" /\ held' = [mid |-> nextMid, accepted |-> TRUE]
      /\ nextMid' = SuccMid(nextMid) /\ out' = Append(out, message)
      /\ UNCHANGED <<next, acks, link, delivered, received, pending, early, acked,
                     status, outstanding, ended>>
  BY <1>2 DEF Publish, network, ledger, log
<1>4. held = NotSent /\ held.mid = None
  BY <1>0, <1>1 DEF HeldInv, NotSent
<1>5. /\ Len(out) \in Nat /\ Len(acks) \in Nat /\ nextMid \in Mids /\ Window \in Nat
      /\ Window = Len(acks) + Len(out) /\ Window + 1 <= MidLimit
  <2>1. Len(out) \in Nat /\ Len(acks) \in Nat /\ nextMid \in Mids
    BY <1>0 DEF TypeOK
  <2> QED
    BY <2>1, <1>2, ReplayAssumption DEF Window
<1>6. next \in Events
  BY <1>0, <1>1, ReplayAssumption DEF LogInv, TypeOK, Events
<1>7. /\ Len(out') = Len(out) + 1 /\ out' \in Seq([mid : Mids, event : Events])
      /\ \A i \in 1..Len(out) : out'[i] = out[i]
      /\ out'[Len(out) + 1] = message
  <2>1. out \in Seq([mid : Mids, event : Events]) /\ message \in [mid : Mids, event : Events]
    BY <1>0, <1>5, <1>6 DEF TypeOK
  <2> HIDE DEF message
  <2> QED
    BY <2>1, <1>3, <1>5
<1>8. message.mid = nextMid /\ message.event = next
  OBVIOUS
<1> HIDE DEF message
<1>9. Window' = Window + 1 /\ InPending' = InPending
  BY <1>3, <1>5, <1>7 DEF Window, InPending
<1>10. /\ nextMid' \in Mids /\ Back(nextMid', 1) = nextMid
       /\ \A k \in 1..Window : Back(nextMid', k + 1) = Back(nextMid, k)
  <2>1. \A k \in 1..Window : k \in 1..MidLimit /\ k < MidLimit
    BY <1>5, ReplayAssumption
  <2>2. 1 \in 1..MidLimit
    BY ReplayAssumption
  <2> QED
    BY <2>1, <2>2, <1>3, <1>5, BackFacts
<1>11. held'.mid = nextMid /\ held'.accepted /\ held' \in [mid : Mids \cup {None}, accepted : BOOLEAN]
  BY <1>3, <1>5
<1>12. TypeOK'
  <2>1. delivered' \in 0..Len(out')
    BY <1>0, <1>3, <1>5, <1>7 DEF TypeOK
  <2> QED
    BY <2>1, <1>0, <1>3, <1>7, <1>10, <1>11 DEF TypeOK, Looping, Replaying
<1>13. WindowInv'
  <2>1. \A i \in 1..Len(acks) : acks[i] = Back(nextMid', Window + 1 - i + 1)
    <3> SUFFICES ASSUME NEW i \in 1..Len(acks) PROVE acks[i] = Back(nextMid', Window + 1 - i + 1)
      OBVIOUS
    <3>1. Window - i + 1 \in 1..Window /\ Window - i + 1 + 1 = Window + 1 - i + 1
      BY <1>5
    <3> QED
      BY <3>1, <1>0, <1>10 DEF WindowInv
  <2>2. \A i \in 1..Len(out') : out'[i].mid = Back(nextMid', Len(out') - i + 1)
    <3> SUFFICES ASSUME NEW i \in 1..Len(out) + 1
                 PROVE  out'[i].mid = Back(nextMid', Len(out) + 1 - i + 1)
      BY <1>7
    <3>1. CASE i = Len(out) + 1
      <4>1. Len(out) + 1 - i + 1 = 1
        BY <3>1, <1>5
      <4> QED
        BY <3>1, <4>1, <1>7, <1>8, <1>10
    <3>2. CASE i \in 1..Len(out)
      <4>1. Len(out) - i + 1 \in 1..Window /\ Len(out) - i + 1 + 1 = Len(out) + 1 - i + 1
        BY <3>2, <1>5
      <4> QED
        BY <3>2, <4>1, <1>0, <1>7, <1>10 DEF WindowInv
    <3> QED
      BY <3>1, <3>2, <1>5
  <2>3. Window + 1 <= MaxQueued
    BY <1>2, <1>5, ReplayAssumption
  <2>4. \A i \in 1..Len(acks') : acks'[i] = Back(nextMid', Window' - i + 1)
    <3> SUFFICES ASSUME NEW i \in 1..Len(acks) PROVE acks[i] = Back(nextMid', Window' - i + 1)
      BY <1>3
    <3>1. Window' - i + 1 = Window + 1 - i + 1
      BY <1>5, <1>9
    <3> QED
      BY <3>1, <2>1
  <2>5. Window' <= MaxQueued
    BY <2>3, <1>9
  <2> QED
    BY <2>2, <2>4, <2>5 DEF WindowInv
<1>14. nextMid \notin InPending
  <2> SUFFICES ASSUME nextMid \in InPending PROVE FALSE
    OBVIOUS
  <2>1. PICK k \in 1..Window : nextMid = Back(nextMid, k)
    BY <1>0 DEF PendingInv
  <2>2. k \in 1..MidLimit /\ k < MidLimit
    BY <1>5, ReplayAssumption
  <2> QED
    BY <2>1, <2>2, <1>5, BackFresh
<1>15. PendingInv'
  <2>1. \A m \in InPending : m # held'.mid /\ \E k \in 1..Window + 1 : m = Back(nextMid', k)
    <3> SUFFICES ASSUME NEW m \in InPending PROVE \E k \in 1..Window + 1 : m = Back(nextMid', k)
      BY <1>11, <1>14
    <3>1. PICK k \in 1..Window : m = Back(nextMid, k)
      BY <1>0 DEF PendingInv
    <3>2. k + 1 \in 1..Window + 1 /\ m = Back(nextMid', k + 1)
      BY <3>1, <1>5, <1>10
    <3> QED
      BY <3>2
  <2>2. \A i \in 1..Len(out') : pending[out'[i].mid] # None => pending[out'[i].mid] = out'[i].event
    <3> SUFFICES ASSUME NEW i \in 1..Len(out) + 1, pending[out'[i].mid] # None
                 PROVE  pending[out'[i].mid] = out'[i].event
      BY <1>7
    <3>1. CASE i = Len(out) + 1
      BY <3>1, <1>5, <1>7, <1>8, <1>14 DEF InPending
    <3>2. CASE i \in 1..Len(out)
      BY <3>2, <1>0, <1>7 DEF PendingInv
    <3> QED
      BY <3>1, <3>2, <1>5
  <2> QED
    BY <2>1, <2>2, <1>0, <1>3, <1>9 DEF PendingInv
<1>16. WholeInv'
  <2> SUFFICES /\ early = {}
               /\ \A k \in 1..Window + 1 : \/ Back(nextMid', k) = held'.mid
                                        \/ pending[Back(nextMid', k)] # None
    BY <1>3, <1>9 DEF WholeInv
  <2>1. Sound
    BY <1>1 DEF Sound, Replaying
  <2>2. ASSUME NEW k \in 1..Window + 1, k # 1 PROVE pending[Back(nextMid', k)] # None
    <3>1. k - 1 \in 1..Window /\ k - 1 + 1 = k
      BY <2>2, <1>5
    <3>2. Back(nextMid, k - 1) \in Mids
      BY <3>1, <1>5, BackFacts, ReplayAssumption
    <3>3. Back(nextMid, k - 1) # held.mid
      BY <3>2, <1>4, NoneIsNoMid
    <3>4. pending[Back(nextMid, k - 1)] # None
      BY <3>1, <3>3, <2>1, <1>0 DEF WholeInv
    <3> QED
      BY <3>1, <3>4, <1>10
  <2> QED
    BY <2>1, <2>2, <1>0, <1>10, <1>11 DEF WholeInv
<1>17. HeldInv'
  <2>1. Len(out') > 0 /\ out'[Len(out')].event = next
    BY <1>5, <1>7, <1>8
  <2> QED
    BY <2>1, <1>3, <1>5, <1>9, <1>10, <1>11 DEF HeldInv
<1>18. DeliveredInv'
  BY <1>0, <1>3, <1>5, <1>7 DEF DeliveredInv, TypeOK
<1>19. SentInv'
  <2> SUFFICES ASSUME NEW x \in Events,
                      x \in received \/ \E i \in 1..Len(out') : out'[i].event = x
               PROVE  status[x] = "accepted" \/ x = next
    BY <1>3, <1>11 DEF SentInv
  <2>1. x \in received \/ (\E i \in 1..Len(out) : out[i].event = x) \/ x = next
    <3> SUFFICES ASSUME NEW i \in 1..Len(out) + 1, out'[i].event = x
                 PROVE  (\E j \in 1..Len(out) : out[j].event = x) \/ x = next
      BY <1>7
    <3>1. CASE i = Len(out) + 1
      BY <3>1, <1>7, <1>8
    <3>2. CASE i \in 1..Len(out)
      BY <3>2, <1>7
    <3> QED
      BY <3>1, <3>2, <1>5
  <2> QED
    BY <2>1, <1>0 DEF SentInv
<1>20. LogInv'
  BY <1>0, <1>1, <1>3, <1>9 DEF LogInv, Starting, Replaying
<1>21. Accounted'
  BY <1>0, <1>3 DEF Accounted
<1> QED
  BY <1>12, <1>13, <1>15, <1>16, <1>17, <1>18, <1>19, <1>20, <1>21 DEF ReplayInv

\* The publication becomes pending, with which pending is the window; a
\* refused one was never part of it.
LEMMA RecordInv ==
    ASSUME ReplayInv, Record
    PROVE  ReplayInv'
<1> DEFINE mid == held.mid
<1>0. /\ TypeOK /\ WindowInv /\ PendingInv /\ WholeInv /\ HeldInv /\ DeliveredInv
      /\ SentInv /\ LogInv /\ Accounted
  BY DEF ReplayInv
<1>1. /\ pc = "recording" /\ pc' = "flushing" /\ next' = next + 1 /\ held' = NotSent
      /\ UNCHANGED <<acks, nextMid, out, link, delivered, received, outstanding, ended>>
  BY DEF Record, client, network
<1>2. Sound /\ early = {} /\ ended = "none"
  BY <1>0, <1>1 DEF Sound, Replaying, WholeInv, LogInv
<1>3. next \in Events /\ next <= NumEvents /\ NumEvents \in Nat /\ next \in Nat
  BY <1>0, <1>1, ReplayAssumption DEF LogInv, TypeOK, Events
<1>4. /\ early' = {}
      /\ status' = [status EXCEPT ![next] = IF held.accepted THEN "accepted" ELSE "refused"]
      /\ pending' = IF held.accepted THEN [pending EXCEPT ![held.mid] = next] ELSE pending
      /\ acked' = acked
  BY <1>2 DEF Record
<1>5. held.accepted \in BOOLEAN
  BY <1>0 DEF TypeOK
<1>6. ~held.accepted => mid = None
  BY <1>0 DEF HeldInv, NotSent
<1>7. held.accepted => mid \in Mids /\ mid = Back(nextMid, 1) /\ Window > 0
  <2>1. held.mid \in Mids \cup {None} /\ nextMid \in Mids
    BY <1>0 DEF TypeOK
  <2>2. 1 \in 1..MidLimit
    BY ReplayAssumption
  <2> QED
    BY <2>1, <2>2, <1>0, BackFacts DEF HeldInv
<1>8. mid \notin InPending
  BY <1>0 DEF PendingInv
<1>9. Window' = Window
  BY <1>1 DEF Window
<1>10. /\ Window \in Nat /\ Window <= MidLimit /\ Len(acks) \in Nat /\ Len(out) \in Nat
       /\ Window = Len(acks) + Len(out) /\ nextMid \in Mids
  <2>1. Len(acks) \in Nat /\ Len(out) \in Nat /\ nextMid \in Mids /\ Window <= MaxQueued
    BY <1>0 DEF TypeOK, WindowInv
  <2> QED
    BY <2>1, ReplayAssumption DEF Window
<1>11. \A x \in Mids : pending'[x] = IF held.accepted /\ x = mid THEN next ELSE pending[x]
  BY <1>0, <1>4, <1>5 DEF TypeOK
<1>12. InPending' = IF held.accepted THEN InPending \cup {mid} ELSE InPending
  BY <1>3, <1>5, <1>7, <1>11, NoneIsNoMid DEF InPending
<1>13. \A e \in Events : status'[e] = IF e # next THEN status[e]
                                     ELSE IF held.accepted THEN "accepted" ELSE "refused"
  BY <1>0, <1>3, <1>4 DEF TypeOK
<1>14. status[next] = "unsent" /\ acked[next] = 0
  <2>1. status[next] = "unsent"
    BY <1>0, <1>3 DEF LogInv
  <2>2. ~(acked[next] > 0)
    BY <2>1, <1>0, <1>3 DEF LogInv
  <2> QED
    BY <2>1, <2>2, <1>0, <1>3 DEF TypeOK
<1>15. \A x \in InPending : pending[x] \in Events
  BY <1>0 DEF TypeOK, InPending
<1> HIDE DEF mid
<1>16. TypeOK'
  <2>1. pending' \in [Mids -> Events \cup {None}]
    BY <1>0, <1>3, <1>4 DEF TypeOK
  <2>2. status' \in [Events -> {"unsent", "accepted", "refused"}]
    BY <1>0, <1>4 DEF TypeOK
  <2>3. held' \in [mid : Mids \cup {None}, accepted : BOOLEAN]
    BY <1>1 DEF NotSent
  <2>4. next' \in 1..NumEvents + 1
    BY <1>0, <1>1, <1>3 DEF TypeOK
  <2> QED
    BY <2>1, <2>2, <2>3, <2>4, <1>0, <1>1, <1>4 DEF TypeOK, Looping, Replaying
<1>17. WindowInv'
  BY <1>0, <1>1, <1>9 DEF WindowInv
<1>18. PendingInv'
  <2>1. \A x \in InPending' : x # held'.mid /\ \E k \in 1..Window : x = Back(nextMid, k)
    <3> SUFFICES ASSUME NEW x \in InPending'
                 PROVE  x # held'.mid /\ \E k \in 1..Window : x = Back(nextMid, k)
      OBVIOUS
    <3>1. x # held'.mid
      BY <1>1, NoneIsNoMid DEF InPending, NotSent
    <3>2. CASE x \in InPending
      BY <3>1, <3>2, <1>0 DEF PendingInv
    <3>3. CASE held.accepted /\ x = mid
      <4>1. 1 \in 1..Window
        BY <3>3, <1>7, <1>10
      <4> QED
        BY <3>1, <3>3, <4>1, <1>7
    <3> QED
      BY <3>2, <3>3, <1>5, <1>12
  <2>2. \A i \in 1..Len(out) : pending'[out[i].mid] # None => pending'[out[i].mid] = out[i].event
    <3> SUFFICES ASSUME NEW i \in 1..Len(out), pending'[out[i].mid] # None
                 PROVE  pending'[out[i].mid] = out[i].event
      OBVIOUS
    <3>1. out[i].mid \in Mids
      BY <1>0, OutIsTyped
    <3>2. CASE held.accepted /\ out[i].mid = mid
      <4>1. Len(out) - i + 1 \in 1..MidLimit /\ 1 \in 1..MidLimit
        BY <1>10, ReplayAssumption
      <4>2. Back(nextMid, Len(out) - i + 1) = Back(nextMid, 1)
        BY <3>2, <1>0, <1>7 DEF WindowInv
      <4>3. Len(out) - i + 1 = 1
        BY <4>1, <4>2, <1>10, BackDistinct
      <4>4. i = Len(out)
        BY <4>3, <1>10
      <4>5. out[i].event = next
        BY <3>2, <4>4, <1>0 DEF HeldInv
      <4> QED
        BY <3>1, <3>2, <4>5, <1>11
    <3>3. CASE ~(held.accepted /\ out[i].mid = mid)
      BY <3>1, <3>3, <1>0, <1>11 DEF PendingInv
    <3> QED
      BY <3>2, <3>3
  <2>3. \A i \in 1..Len(acks) : pending'[acks[i]] # None => pending'[acks[i]] \in received
    <3> SUFFICES ASSUME NEW i \in 1..Len(acks), pending'[acks[i]] # None
                 PROVE  pending'[acks[i]] \in received
      OBVIOUS
    <3>1. acks[i] \in Mids
      BY <1>0 DEF TypeOK
    <3>2. CASE held.accepted /\ acks[i] = mid
      <4>1. Window - i + 1 \in 1..MidLimit /\ 1 \in 1..MidLimit
        BY <1>10, ReplayAssumption
      <4>2. Back(nextMid, Window - i + 1) = Back(nextMid, 1)
        BY <3>2, <1>0, <1>7 DEF WindowInv
      <4>3. Window - i + 1 = 1
        BY <4>1, <4>2, <1>10, BackDistinct
      <4>4. Len(out) = 0
        BY <4>3, <1>10
      <4>5. next \in received
        BY <3>2, <4>4, <1>0 DEF HeldInv
      <4> QED
        BY <3>1, <3>2, <4>5, <1>11
    <3>3. CASE ~(held.accepted /\ acks[i] = mid)
      BY <3>1, <3>3, <1>0, <1>11 DEF PendingInv
    <3> QED
      BY <3>2, <3>3
  <2>4. \A x \in InPending' : /\ acked[pending'[x]] = 0 /\ pending'[x] < next + 1
                              /\ status'[pending'[x]] = "accepted"
    <3> SUFFICES ASSUME NEW x \in InPending'
                 PROVE  /\ acked[pending'[x]] = 0 /\ pending'[x] < next + 1
                        /\ status'[pending'[x]] = "accepted"
      OBVIOUS
    <3>1. CASE held.accepted /\ x = mid
      <4>1. pending'[x] = next
        BY <3>1, <1>7, <1>11
      <4> QED
        BY <3>1, <4>1, <1>3, <1>13, <1>14
    <3>2. CASE x \in InPending /\ ~(held.accepted /\ x = mid)
      <4>1. pending'[x] = pending[x] /\ pending[x] \in Events
        BY <3>2, <1>11, <1>15 DEF InPending
      <4>2. acked[pending[x]] = 0 /\ pending[x] < next /\ status[pending[x]] = "accepted"
        BY <3>2, <1>0 DEF PendingInv
      <4> QED
        BY <4>1, <4>2, <1>3, <1>13 DEF Events
    <3> QED
      BY <3>1, <3>2, <1>5, <1>12
  <2>5. \A x, y \in InPending' : pending'[x] = pending'[y] => x = y
    <3>1. \A x \in InPending' : \/ x = mid /\ pending'[x] = next
                               \/ /\ x \in InPending /\ pending'[x] = pending[x]
                                  /\ pending[x] # next
      <4> SUFFICES ASSUME NEW x \in InPending'
                   PROVE  \/ x = mid /\ pending'[x] = next
                          \/ x \in InPending /\ pending'[x] = pending[x] /\ pending[x] # next
        OBVIOUS
      <4>1. CASE held.accepted /\ x = mid
        BY <4>1, <1>7, <1>11
      <4>2. CASE x \in InPending /\ ~(held.accepted /\ x = mid)
        <5>1. pending'[x] = pending[x] /\ pending[x] \in Events
          BY <4>2, <1>11, <1>15 DEF InPending
        <5>2. pending[x] < next
          BY <4>2, <1>0 DEF PendingInv
        <5> QED
          BY <4>2, <5>1, <5>2, <1>3
      <4> QED
        BY <4>1, <4>2, <1>5, <1>12
    <3> QED
      BY <3>1, <1>0 DEF PendingInv
  <2> QED
    BY <2>1, <2>2, <2>3, <2>4, <2>5, <1>1, <1>4, <1>9 DEF PendingInv
<1>19. WholeInv'
  <2> SUFFICES ASSUME NEW k \in 1..Window PROVE pending'[Back(nextMid, k)] # None
    BY <1>1, <1>4, <1>9 DEF WholeInv
  <2>1. k \in 1..MidLimit
    BY <1>10, ReplayAssumption
  <2>2. Back(nextMid, k) \in Mids
    BY <2>1, <1>10, BackFacts
  <2>3. CASE Back(nextMid, k) = mid
    BY <2>2, <2>3, <1>3, <1>5, <1>6, <1>11, NoneIsNoMid
  <2>4. CASE Back(nextMid, k) # mid
    BY <2>2, <2>4, <1>0, <1>2, <1>11 DEF WholeInv, mid
  <2> QED
    BY <2>3, <2>4
<1>20. HeldInv' /\ DeliveredInv'
  BY <1>0, <1>1 DEF HeldInv, NotSent, DeliveredInv
<1>21. SentInv'
  <2> SUFFICES ASSUME NEW x \in Events,
                      x \in received \/ \E i \in 1..Len(out) : out[i].event = x
               PROVE  status'[x] = "accepted"
    BY <1>1 DEF SentInv
  <2>1. status[x] = "accepted" \/ (x = next /\ held.accepted)
    <3>1. pc \in Replaying
      BY <1>1 DEF Replaying
    <3> QED
      BY <3>1, <1>0 DEF SentInv
  <2>2. CASE x # next
    BY <2>1, <2>2, <1>13
  <2>3. CASE x = next
    <3>1. held.accepted
      BY <2>1, <2>3, <1>14
    <3> QED
      BY <2>3, <3>1, <1>13
  <2> QED
    BY <2>2, <2>3
<1>22. LogInv'
  <2>1. \A e \in Events : e >= next + 1 <=> status'[e] = "unsent"
    <3> SUFFICES ASSUME NEW e \in Events PROVE e >= next + 1 <=> status'[e] = "unsent"
      OBVIOUS
    <3>1. CASE e = next
      BY <3>1, <1>3, <1>13
    <3>2. CASE e # next
      BY <3>2, <1>0, <1>3, <1>13 DEF LogInv, Events
    <3> QED
      BY <3>1, <3>2
  <2>2. \A e \in Events : status'[e] = "accepted" =>
            acked[e] > 0 \/ \E x \in InPending' : pending'[x] = e
    <3> SUFFICES ASSUME NEW e \in Events, status'[e] = "accepted", ~(acked[e] > 0)
                 PROVE  \E x \in InPending' : pending'[x] = e
      OBVIOUS
    <3>1. CASE e = next
      <4>1. held.accepted
        BY <3>1, <1>3, <1>5, <1>13
      <4> QED
        BY <3>1, <4>1, <1>7, <1>11, <1>12
    <3>2. CASE e # next
      <4>1. PICK x \in InPending : pending[x] = e
        BY <3>2, <1>0, <1>13 DEF LogInv
      <4>2. x # mid /\ x \in Mids /\ x \in InPending'
        BY <4>1, <1>8, <1>12 DEF InPending
      <4> QED
        BY <4>1, <4>2, <1>11
    <3> QED
      BY <3>1, <3>2
  <2>3. \A e \in Events : acked[e] > 0 =>
            acked[e] = 1 /\ e \in received /\ status'[e] = "accepted"
    BY <1>0, <1>13, <1>14 DEF LogInv
  <2> QED
    BY <2>1, <2>2, <2>3, <1>1, <1>2, <1>4 DEF LogInv, Starting
<1>23. Accounted'
  BY <1>1, <1>2 DEF Accounted
<1> QED
  BY <1>16, <1>17, <1>18, <1>19, <1>20, <1>21, <1>22, <1>23 DEF ReplayInv

----------------------------------------------------------------------------
(* The theorems.                                                            *)

\* The invariant is kept by every step.
LEMMA NextInv ==
    ReplayInv /\ [Next]_vars => ReplayInv'
<1> SUFFICES ASSUME ReplayInv, [Next]_vars PROVE ReplayInv'
  OBVIOUS
<1>1. CASE Launch \/ Connect \/ ConnectFails \/ WaitEnds \/ Refuse \/ FlushEnds
           \/ Interrupted \/ LoopStop \/ Exit \/ Kill
  BY <1>1, ControlInv
<1>2. CASE DrainEnds
  BY <1>2, DrainEndsInv
<1>3. CASE ProcessAck
  BY <1>3, ProcessAckInv
<1>4. CASE Publish
  BY <1>4, PublishInv
<1>5. CASE Record
  BY <1>5, RecordInv
<1>6. CASE Drop \/ Reconnect
  BY <1>6, LinkInv
<1>7. CASE PubAck
  BY <1>7, PubAckInv
<1>8. ASSUME NEW e \in Events, BrokerGets(e) PROVE ReplayInv'
  BY <1>8, BrokerGetsInv
<1>9. CASE UNCHANGED vars
  <2>1. /\ UNCHANGED <<pc, next, held, acks, client, received, ledger, log>>
        /\ UNCHANGED <<link, delivered>>
    BY <1>9 DEF vars, network
  <2>2. TypeOK' /\ DeliveredInv'
    BY <2>1 DEF ReplayInv, TypeOK, DeliveredInv, client, ledger, log
  <2> QED
    BY <2>1, <2>2, LinkFrame DEF ReplayInv
<1> QED
  BY <1>1, <1>2, <1>3, <1>4, <1>5, <1>6, <1>7, <1>8, <1>9 DEF Next, Main, Network

\* The inductive invariant holds of every behaviour of a publisher.
THEOREM ReplayInvariant == Spec => []ReplayInv
<1>1. Init => ReplayInv
  BY InitInv
<1>2. ReplayInv /\ [Next]_vars => ReplayInv'
  BY NextInv
<1> QED
  BY <1>1, <1>2, PTL DEF Spec

\* Type correctness.
THEOREM ReplayTypeCorrect == Spec => []TypeOK
<1>1. ReplayInv => TypeOK
  BY DEF ReplayInv
<1> QED
  BY <1>1, ReplayInvariant, PTL

\* What the invariant says of the log.
LEMMA InvMeans ==
    ReplayInv => AckIsTrue /\ NothingIsEarly /\ RefusedIsNotSent /\ Accounted
<1> SUFFICES ASSUME ReplayInv PROVE AckIsTrue /\ NothingIsEarly /\ RefusedIsNotSent /\ Accounted
  OBVIOUS
<1>0. TypeOK /\ WholeInv /\ SentInv /\ LogInv /\ Accounted
  BY DEF ReplayInv
<1>1. AckIsTrue
  BY <1>0 DEF AckIsTrue, LogInv, TypeOK
<1>2. NothingIsEarly
  BY <1>0 DEF NothingIsEarly, WholeInv, Sound
<1>3. RefusedIsNotSent
  <2> SUFFICES ASSUME NEW e \in Events, status[e] = "refused", e \in received PROVE FALSE
    BY DEF RefusedIsNotSent
  <2>1. e = next
    BY <1>0 DEF SentInv
  <2>2. e >= next
    BY <2>1 DEF Events
  <2>3. status[e] = "unsent"
    BY <2>2, <1>0 DEF LogInv
  <2> QED
    BY <2>3
<1> QED
  BY <1>0, <1>1, <1>2, <1>3

\* An acknowledgement in the log is true, however often identifiers repeat.
THEOREM AcksAreTrue == Spec => []AckIsTrue
  BY InvMeans, ReplayInvariant, PTL

\* early_acks is never used by a session that nothing interrupts.
THEOREM NoAckIsEarly == Spec => []NothingIsEarly
  BY InvMeans, ReplayInvariant, PTL

\* What is logged as refused was not and will not be sent.
THEOREM RefusedNotSent == Spec => []RefusedIsNotSent
  BY InvMeans, ReplayInvariant, PTL

\* What is logged of an event agrees with what the broker got of it.
THEOREM LogTrue == Spec => []LogIsTrue
  BY AcksAreTrue, RefusedNotSent, PTL DEF LogIsTrue

\* A session that ends accounts for the whole trace.
THEOREM SessionAccounts == Spec => []Accounted
  BY InvMeans, ReplayInvariant, PTL

\* While a refused event is being recorded, the queue is full.
FullInv == pc = "recording" /\ ~held.accepted => QueueFull

LEMMA FullStep ==
    ASSUME ReplayInv, FullInv, [Next]_vars
    PROVE  FullInv'
<1>1. CASE pc' # "recording"
  BY <1>1 DEF FullInv
<1>2. CASE Refuse
  <2>1. QueueFull /\ pending' = pending
    BY <1>2 DEF Refuse, ledger
  <2> QED
    BY <2>1 DEF FullInv, QueueFull, InPending
<1>3. CASE Publish
  <2>1. PahoTakes
    BY <1>3, PahoTakesIt DEF Publish
  <2> QED
    BY <1>3, <2>1 DEF Publish, FullInv
<1>4. CASE UNCHANGED <<pc, held, pending>>
  BY <1>4 DEF FullInv, QueueFull, InPending
<1>5. ProcessAck => pc' # "recording"
  BY DEF ProcessAck, Reading
<1>6. Launch \/ Connect \/ ConnectFails \/ WaitEnds \/ Record \/ FlushEnds \/ DrainEnds
      \/ Interrupted \/ LoopStop \/ Exit \/ Kill => pc' # "recording"
  BY DEF Launch, Connect, ConnectFails, WaitEnds, Record, FlushEnds, DrainEnds, Interrupted,
         LoopStop, Exit, Kill
<1>7. Drop \/ Reconnect \/ PubAck \/ (\E e \in Events : BrokerGets(e)) \/ UNCHANGED vars
      => UNCHANGED <<pc, held, pending>>
  BY DEF Drop, Reconnect, PubAck, BrokerGets, vars, ledger
<1> QED
  BY <1>1, <1>2, <1>3, <1>4, <1>5, <1>6, <1>7 DEF Next, Main, Network

\* An event is refused only because max_queued are pending.
THEOREM RefusedOnlyIfFull == Spec => RefusedOnlyWhenFull
<1>1. Init => FullInv
  BY DEF Init, FullInv
<1>2. ReplayInv /\ FullInv /\ [Next]_vars => FullInv'
  BY FullStep
<1>3. ReplayInv /\ FullInv /\ [Next]_vars =>
        [\A e \in Events : status[e] = "unsent" /\ status'[e] = "refused" => QueueFull]_vars
  <2> SUFFICES ASSUME ReplayInv, FullInv, Next, NEW e \in Events,
                      status[e] = "unsent", status'[e] = "refused"
               PROVE  QueueFull
    OBVIOUS
  <2>1. CASE Record
    <3>1. status' = [status EXCEPT ![next] = IF held.accepted THEN "accepted" ELSE "refused"]
      BY <2>1 DEF Record
    <3>2. status \in [Events -> {"unsent", "accepted", "refused"}]
      BY DEF ReplayInv, TypeOK
    <3>3. ~held.accepted
      BY <3>1, <3>2
    <3> QED
      BY <2>1, <3>3 DEF Record, FullInv
  <2>2. ~Record => status' = status
    BY DEF Next, Main, Network, Launch, Connect, ConnectFails, WaitEnds, Refuse, Publish,
           FlushEnds, DrainEnds, ProcessAck, Interrupted, LoopStop, Exit, Kill, Drop,
           Reconnect, PubAck, BrokerGets, log
  <2> QED
    BY <2>1, <2>2
<1> QED
  BY <1>1, <1>2, <1>3, ReplayInvariant, PTL DEF Spec, RefusedOnlyWhenFull

\* The log tells of every event, and the truth.
THEOREM LogStands == Spec => []LogHolds
  BY LogTrue, SessionAccounts, PTL DEF LogHolds

(* --------------------------- the traffic phase -------------------------- *)
Forwarded == {inbox[i] : i \in 1..Len(inbox)}

\* Nothing is sent before the barrier is passed, and nothing is logged after
\* the publisher ended.
PhaseInv ==
    /\ phase \in {"preparing", "barrier"} => pc = "idle"
    /\ phase \in {"collecting", "final"} => pc = "exited" /\ ended = "session_end"

OwnInv ==
    phase \in {"barrier", "replaying", "collecting", "final"} =>
        Forwarded \subseteq received /\ receipts \subseteq received

\* Without a gap the marker stands for the subscription.
HeardInv ==
    ~gap => /\ phase = "barrier" /\ marker => collector = "ready"
            /\ phase \in {"replaying", "collecting"} =>
                  collector = "ready" /\ received \subseteq receipts \cup Forwarded

DeliveryInv == DeliveryTypeOK /\ PhaseInv /\ OwnInv /\ HeardInv

----------------------------------------------------------------------------
\* A step of the phase is a step of its publisher, or leaves it alone.
LEMMA DeliveryStep ==
    [DeliveryNext]_allVars => [Next]_vars
<1> SUFFICES ASSUME DeliveryNext PROVE [Next]_vars
  BY DEF allVars
<1>1. CASE Playbooks
  <2>1. CASE StartReplay
    BY <2>1 DEF StartReplay, Next
  <2>2. CASE KillPublisher
    BY <2>2 DEF KillPublisher, Next
  <2>3. CASE PrepareBroker \/ PassBarrier \/ ReplayDone \/ Collect \/ PhaseFails \/ CleanCollector
    BY <2>3 DEF PrepareBroker, PassBarrier, ReplayDone, Collect, PhaseFails, CleanCollector,
                StopCollector
  <2> QED
    BY <1>1, <2>1, <2>2, <2>3 DEF Playbooks
<1>2. CASE Collector
  BY <1>2 DEF Collector, Subscribe, Suback, Receive, Disconnected, CollectorDies,
              CollectorRestarts
<1>3. CASE BrokerForwards
  BY <1>3 DEF BrokerForwards, Next, Network
<1>4. CASE Publisher
  BY <1>4 DEF Publisher, Next, Network
<1> QED
  BY <1>1, <1>2, <1>3, <1>4 DEF DeliveryNext

\* The traffic phase runs a publisher as MqttReplay specifies it.
THEOREM DeliveryRunsReplay == DeliverySpec => Spec
<1>1. DeliveryInit => Init
  BY DEF DeliveryInit
<1> QED
  BY <1>1, DeliveryStep, PTL DEF DeliverySpec, Spec

LEMMA EmptyInbox ==
    /\ <<>> \in Seq(Events)
    /\ Len(<<>>) <= SubscriberQueue
<1>1. Len(<<>>) = 0 /\ SubscriberQueue >= 1
  BY DeliveryAssumption
<1>2. <<>> \in Seq(Events)
  OBVIOUS
<1> QED
  BY <1>1, <1>2, DeliveryAssumption

LEMMA DeliveryInitInv ==
    DeliveryInit => DeliveryInv
<1> SUFFICES ASSUME DeliveryInit PROVE DeliveryInv
  OBVIOUS
<1>1. DeliveryTypeOK
  <2>1. inbox \in Seq(Events) /\ Len(inbox) <= SubscriberQueue
    BY EmptyInbox DEF DeliveryInit
  <2>2. /\ phase \in Phases /\ collector \in Running \cup {"stopped", "dead"}
        /\ marker \in BOOLEAN /\ receipts \subseteq Events /\ gap \in BOOLEAN
    BY DEF DeliveryInit, Phases, Running
  <2> QED
    BY <2>1, <2>2 DEF DeliveryTypeOK
<1>2. PhaseInv /\ OwnInv /\ HeardInv
  BY DEF DeliveryInit, Init, PhaseInv, OwnInv, HeardInv
<1> QED
  BY <1>1, <1>2 DEF DeliveryInv

----------------------------------------------------------------------------
(* The steps.                                                               *)

\* Before the replay the broker has nothing.
LEMMA NothingYet ==
    ASSUME ReplayInv, PhaseInv, phase \in {"preparing", "barrier"}
    PROVE  received = {}
  BY DEF ReplayInv, LogInv, PhaseInv, Starting

LEMMA PlaybooksInv ==
    ASSUME ReplayInv, DeliveryInv, Playbooks
    PROVE  DeliveryInv'
<1>0. DeliveryTypeOK /\ PhaseInv /\ OwnInv /\ HeardInv
  BY DEF DeliveryInv
<1>1. CASE PrepareBroker
  <2>1. /\ phase = "preparing" /\ phase' = "barrier" /\ collector' = "connecting"
        /\ marker' = FALSE /\ inbox' = <<>> /\ receipts' = {} /\ gap' = FALSE
        /\ UNCHANGED <<pc, ended, received>>
    BY <1>1 DEF PrepareBroker, vars, network, log
  <2>2. DeliveryTypeOK'
    <3>1. inbox' \in Seq(Events) /\ Len(inbox') <= SubscriberQueue
      BY <2>1, EmptyInbox
    <3> QED
      BY <2>1, <3>1 DEF DeliveryTypeOK, Phases, Running
  <2>3. PhaseInv' /\ OwnInv' /\ HeardInv'
    BY <2>1, <1>0 DEF PhaseInv, OwnInv, HeardInv, Forwarded
  <2> QED
    BY <2>2, <2>3 DEF DeliveryInv
<1>2. CASE PassBarrier
  <2>1. /\ phase = "barrier" /\ marker /\ phase' = "replaying"
        /\ UNCHANGED <<pc, ended, received, collector, marker, inbox, receipts, gap>>
    BY <1>2 DEF PassBarrier, vars, network, log
  <2>2. received = {}
    BY <2>1, <1>0, NothingYet
  <2>3. DeliveryTypeOK'
    BY <2>1, <1>0 DEF DeliveryTypeOK, Phases
  <2>4. PhaseInv' /\ OwnInv' /\ HeardInv'
    BY <2>1, <2>2, <1>0 DEF PhaseInv, OwnInv, HeardInv, Forwarded
  <2> QED
    BY <2>3, <2>4 DEF DeliveryInv
<1>3. CASE StartReplay
  <2>1. /\ phase = "replaying"
        /\ UNCHANGED <<ended, received, phase, collector, marker, inbox, receipts, gap>>
    BY <1>3 DEF StartReplay, Launch, delivery, network, log
  <2>2. DeliveryTypeOK' /\ PhaseInv' /\ OwnInv' /\ HeardInv'
    BY <2>1, <1>0 DEF DeliveryTypeOK, PhaseInv, OwnInv, HeardInv, Forwarded
  <2> QED
    BY <2>2 DEF DeliveryInv
<1>4. CASE ReplayDone
  <2>1. /\ phase = "replaying" /\ phase' = "collecting" /\ pc = "exited" /\ ended = "session_end"
        /\ UNCHANGED <<pc, ended, received, collector, marker, inbox, receipts, gap>>
    BY <1>4 DEF ReplayDone, vars, network, log
  <2>2. DeliveryTypeOK' /\ PhaseInv' /\ OwnInv' /\ HeardInv'
    BY <2>1, <1>0 DEF DeliveryTypeOK, PhaseInv, OwnInv, HeardInv, Forwarded, Phases
  <2> QED
    BY <2>2 DEF DeliveryInv
<1>5. CASE Collect \/ CleanCollector
  <2>1. /\ \/ phase = "collecting" /\ phase' = "final"
           \/ phase = "cleaning" /\ phase' = "killing"
        /\ collector' = "stopped" /\ inbox' = <<>> /\ marker' = FALSE
        /\ UNCHANGED <<pc, ended, received, receipts, gap>>
    BY <1>5 DEF Collect, CleanCollector, StopCollector, vars, network, log
  <2>2. DeliveryTypeOK'
    <3>1. inbox' \in Seq(Events) /\ Len(inbox') <= SubscriberQueue
      BY <2>1, EmptyInbox
    <3> QED
      BY <2>1, <3>1, <1>0 DEF DeliveryTypeOK, Phases
  <2>3. PhaseInv' /\ OwnInv' /\ HeardInv'
    BY <2>1, <1>0 DEF PhaseInv, OwnInv, HeardInv, Forwarded
  <2> QED
    BY <2>2, <2>3 DEF DeliveryInv
<1>6. CASE PhaseFails \/ KillPublisher
  <2>1. /\ phase' \in {"cleaning", "failed"}
        /\ UNCHANGED <<collector, marker, inbox, receipts, gap>>
    BY <1>6 DEF PhaseFails, KillPublisher
  <2>2. DeliveryTypeOK' /\ PhaseInv' /\ OwnInv' /\ HeardInv'
    BY <2>1, <1>0 DEF DeliveryTypeOK, PhaseInv, OwnInv, HeardInv, Phases
  <2> QED
    BY <2>2 DEF DeliveryInv
<1> QED
  BY <1>1, <1>2, <1>3, <1>4, <1>5, <1>6 DEF Playbooks

LEMMA CollectorInv ==
    ASSUME ReplayInv, DeliveryInv, Collector
    PROVE  DeliveryInv'
<1>0. DeliveryTypeOK /\ PhaseInv /\ OwnInv /\ HeardInv
  BY DEF DeliveryInv
<1>1. UNCHANGED <<pc, ended, received, phase>>
  BY DEF Collector, Subscribe, Suback, Receive, Disconnected, CollectorDies,
         CollectorRestarts, vars, network, log
<1>2. PhaseInv'
  BY <1>0, <1>1 DEF PhaseInv
<1>3. CASE Receive
  <2>1. /\ inbox # <<>> /\ receipts' = receipts \cup {Head(inbox)} /\ inbox' = Tail(inbox)
        /\ UNCHANGED <<collector, marker, gap>>
    BY <1>3 DEF Receive
  <2>2. inbox \in Seq(Events) /\ Len(inbox) \in Nat /\ Len(inbox) >= 1
    BY <2>1, <1>0 DEF DeliveryTypeOK
  <2>3. /\ Head(inbox) = inbox[1] /\ Head(inbox) \in Events
        /\ Len(inbox') = Len(inbox) - 1 /\ inbox' \in Seq(Events)
        /\ \A i \in 1..Len(inbox) - 1 : inbox'[i] = inbox[i + 1]
    BY <2>1, <2>2
  <2>4. Forwarded \subseteq {Head(inbox)} \cup Forwarded'
    <3> SUFFICES ASSUME NEW i \in 1..Len(inbox), i # 1
                 PROVE  inbox[i] \in Forwarded'
      BY <2>3 DEF Forwarded
    <3>1. i - 1 \in 1..Len(inbox') /\ inbox'[i - 1] = inbox[i]
      BY <2>2, <2>3
    <3> QED
      BY <3>1 DEF Forwarded
  <2>5. Forwarded' \subseteq Forwarded /\ Head(inbox) \in Forwarded
    <3>1. \A i \in 1..Len(inbox') : i + 1 \in 1..Len(inbox) /\ inbox'[i] = inbox[i + 1]
      BY <2>2, <2>3
    <3>2. 1 \in 1..Len(inbox)
      BY <2>2
    <3> QED
      BY <3>1, <3>2, <2>3 DEF Forwarded
  <2>6. DeliveryTypeOK'
    BY <2>1, <2>2, <2>3, <1>0, <1>1, DeliveryAssumption DEF DeliveryTypeOK
  <2>7. OwnInv'
    BY <2>1, <2>5, <1>0, <1>1 DEF OwnInv
  <2>8. HeardInv'
    BY <2>1, <2>4, <1>0, <1>1 DEF HeardInv
  <2> QED
    BY <2>6, <2>7, <2>8, <1>2 DEF DeliveryInv
<1>4. CASE Subscribe \/ Suback
  <2>1. /\ collector \in {"connecting", "subscribing", "subscribed"}
        /\ collector' \in {"subscribing", "subscribed", "ready"}
        /\ marker' \in BOOLEAN /\ (collector' = "ready" \/ marker' = marker)
        /\ UNCHANGED <<inbox, receipts, gap>>
    BY <1>4, <1>0 DEF Subscribe, Suback, DeliveryTypeOK
  <2>2. DeliveryTypeOK' /\ OwnInv'
    BY <2>1, <1>0, <1>1 DEF DeliveryTypeOK, Running, OwnInv, Forwarded
  <2>3. HeardInv'
    BY <2>1, <1>0, <1>1 DEF HeardInv, Forwarded
  <2> QED
    BY <2>2, <2>3, <1>2 DEF DeliveryInv
<1>5. CASE Disconnected \/ CollectorDies
  <2>1. /\ collector' \in {"connecting", "dead"} /\ marker' \in BOOLEAN
        /\ inbox' = <<>> /\ gap' = TRUE /\ receipts' = receipts
    BY <1>5, <1>0 DEF Disconnected, CollectorDies, DeliveryTypeOK
  <2>2. DeliveryTypeOK'
    <3>1. inbox' \in Seq(Events) /\ Len(inbox') <= SubscriberQueue
      BY <2>1, EmptyInbox
    <3> QED
      BY <2>1, <3>1, <1>0, <1>1 DEF DeliveryTypeOK, Running
  <2>3. OwnInv' /\ HeardInv'
    BY <2>1, <1>0, <1>1 DEF OwnInv, HeardInv, Forwarded
  <2> QED
    BY <2>2, <2>3, <1>2 DEF DeliveryInv
<1>6. CASE CollectorRestarts
  <2>1. /\ collector = "dead" /\ collector' = "connecting" /\ marker' = FALSE
        /\ UNCHANGED <<inbox, receipts, gap>>
    BY <1>6 DEF CollectorRestarts
  <2>2. DeliveryTypeOK' /\ OwnInv' /\ HeardInv'
    BY <2>1, <1>0, <1>1 DEF DeliveryTypeOK, Running, OwnInv, HeardInv, Forwarded
  <2> QED
    BY <2>2, <1>2 DEF DeliveryInv
<1> QED
  BY <1>3, <1>4, <1>5, <1>6 DEF Collector

LEMMA BrokerForwardsInv ==
    ASSUME ReplayInv, DeliveryInv, BrokerForwards
    PROVE  DeliveryInv'
<1>0. TypeOK /\ LogInv /\ DeliveryTypeOK /\ PhaseInv /\ OwnInv /\ HeardInv
  BY DEF DeliveryInv, ReplayInv
<1>1. PICK e \in Events :
        /\ BrokerGets(e)
        /\ inbox' = IF collector \in Subscribed /\ Len(inbox) < SubscriberQueue
                    THEN Append(inbox, e) ELSE inbox
  BY DEF BrokerForwards
<1>2. /\ gap' = (gap \/ Len(inbox) = SubscriberQueue)
      /\ UNCHANGED <<phase, collector, marker, receipts>>
  BY DEF BrokerForwards
<1>3. /\ received' = received \cup {e} /\ delivered < Len(out)
      /\ UNCHANGED <<pc, ended>>
  BY <1>1 DEF BrokerGets, log
<1>4. phase \notin {"preparing", "barrier"}
  <2>1. out # <<>> /\ Len(out) \in Nat /\ delivered \in Nat
    BY <1>3, <1>0 DEF TypeOK
  <2> QED
    BY <2>1, <1>0 DEF LogInv, PhaseInv, Starting
<1>5. Len(inbox) \in Nat /\ Len(inbox) <= SubscriberQueue /\ SubscriberQueue \in Nat /\ inbox \in Seq(Events)
  BY <1>0, DeliveryAssumption DEF DeliveryTypeOK
<1>6. \/ inbox' = inbox /\ Forwarded' = Forwarded
      \/ /\ inbox' = Append(inbox, e) /\ Len(inbox) < SubscriberQueue
         /\ Forwarded' = Forwarded \cup {e}
  <2>1. CASE inbox' = inbox
    BY <2>1 DEF Forwarded
  <2>2. CASE inbox' = Append(inbox, e) /\ Len(inbox) < SubscriberQueue
    <3>1. /\ Len(inbox') = Len(inbox) + 1 /\ inbox'[Len(inbox) + 1] = e
          /\ \A i \in 1..Len(inbox) : inbox'[i] = inbox[i]
      BY <2>2, <1>5
    <3>2. 1..Len(inbox) + 1 = 1..Len(inbox) \cup {Len(inbox) + 1}
      BY <1>5
    <3> QED
      BY <2>2, <3>1, <3>2 DEF Forwarded
  <2> QED
    BY <1>1, <2>1, <2>2
<1>7. DeliveryTypeOK'
  <2>1. inbox' \in Seq(Events) /\ Len(inbox') <= SubscriberQueue
    BY <1>5, <1>6
  <2>2. gap' \in BOOLEAN
    BY <1>2
  <2> QED
    BY <2>1, <2>2, <1>0, <1>2 DEF DeliveryTypeOK
<1>8. PhaseInv'
  BY <1>0, <1>2, <1>3 DEF PhaseInv
<1>9. OwnInv'
  BY <1>0, <1>2, <1>3, <1>6 DEF OwnInv
<1>10. HeardInv'
  <2> SUFFICES ASSUME ~gap, Len(inbox) # SubscriberQueue, phase \in {"replaying", "collecting"}
               PROVE  collector = "ready" /\ received' \subseteq receipts \cup Forwarded'
    BY <1>2, <1>4 DEF HeardInv
  <2>1. collector = "ready" /\ received \subseteq receipts \cup Forwarded
    BY <1>0 DEF HeardInv
  <2>2. inbox' = Append(inbox, e)
    BY <2>1, <1>1, <1>5 DEF Subscribed
  <2>3. Forwarded' = Forwarded \cup {e}
    <3>1. Len(Append(inbox, e)) = Len(inbox) + 1
      BY <1>5
    <3>2. inbox' # inbox
      BY <2>2, <3>1, <1>5
    <3> QED
      BY <3>2, <1>6
  <2> QED
    BY <2>1, <2>3, <1>3
<1> QED
  BY <1>7, <1>8, <1>9, <1>10 DEF DeliveryInv

LEMMA PublisherInv ==
    ASSUME ReplayInv, DeliveryInv, Publisher
    PROVE  DeliveryInv'
<1>0. DeliveryTypeOK /\ PhaseInv /\ OwnInv /\ HeardInv
  BY DEF DeliveryInv
<1>1. /\ UNCHANGED <<phase, collector, marker, inbox, receipts, gap>>
      /\ Main \/ Interrupted \/ Drop \/ Reconnect \/ PubAck
  BY DEF Publisher, delivery
<1>2. received' = received
  BY <1>1 DEF Main, Connect, ConnectFails, ProcessAck, WaitEnds, Refuse, Publish, Record,
              FlushEnds, DrainEnds, LoopStop, Exit, Interrupted, Drop, Reconnect, PubAck, network
<1>3. pc = "idle" => pc' = pc
  BY <1>1 DEF Main, Connect, ConnectFails, ProcessAck, WaitEnds, Refuse, Publish, Record,
              FlushEnds, DrainEnds, LoopStop, Exit, Interrupted, Drop, Reconnect, PubAck,
              Reading, Replaying
<1>4. pc = "exited" => pc' = pc /\ ended' = ended
  BY <1>1 DEF Main, Connect, ConnectFails, ProcessAck, WaitEnds, Refuse, Publish, Record,
              FlushEnds, DrainEnds, LoopStop, Exit, Interrupted, Drop, Reconnect, PubAck,
              Reading, Replaying, log
<1>5. DeliveryTypeOK' /\ PhaseInv'
  BY <1>0, <1>1, <1>3, <1>4 DEF DeliveryTypeOK, PhaseInv
<1>6. OwnInv' /\ HeardInv'
  BY <1>0, <1>1, <1>2 DEF OwnInv, HeardInv, Forwarded
<1> QED
  BY <1>5, <1>6 DEF DeliveryInv

----------------------------------------------------------------------------
(* The theorems.                                                            *)

LEMMA DeliveryNextInv ==
    ReplayInv /\ DeliveryInv /\ [DeliveryNext]_allVars => DeliveryInv'
<1> SUFFICES ASSUME ReplayInv, DeliveryInv, [DeliveryNext]_allVars PROVE DeliveryInv'
  OBVIOUS
<1>1. CASE UNCHANGED allVars
  <2>1. UNCHANGED <<pc, ended, received, phase, collector, marker, inbox, receipts, gap>>
    BY <1>1 DEF allVars, vars, network, log, delivery
  <2> QED
    BY <2>1 DEF DeliveryInv, DeliveryTypeOK, PhaseInv, OwnInv, HeardInv, Forwarded
<1> QED
  BY <1>1, PlaybooksInv, CollectorInv, BrokerForwardsInv, PublisherInv DEF DeliveryNext

\* The inductive invariant of the phase, and that of its publisher.
THEOREM DeliveryInvariant == DeliverySpec => [](ReplayInv /\ DeliveryInv)
<1>1. DeliveryInit => DeliveryInv
  BY DeliveryInitInv
<1>2. ReplayInv /\ DeliveryInv /\ [DeliveryNext]_allVars => DeliveryInv'
  BY DeliveryNextInv
<1>3. DeliverySpec => []ReplayInv
  BY DeliveryRunsReplay, ReplayInvariant, PTL
<1> QED
  BY <1>1, <1>2, <1>3, PTL DEF DeliverySpec

LEMMA DeliveryInvMeans ==
    ReplayInv /\ DeliveryInv =>
        DeliveryTypeOK /\ EverythingIsHeard /\ ReceiptsAreOfThisRun /\ SummaryIsConsistent
<1> SUFFICES ASSUME ReplayInv, DeliveryInv
             PROVE  /\ DeliveryTypeOK /\ EverythingIsHeard /\ ReceiptsAreOfThisRun
                    /\ SummaryIsConsistent
  OBVIOUS
<1>0. /\ TypeOK /\ SentInv /\ LogInv /\ Accounted
      /\ DeliveryTypeOK /\ PhaseInv /\ OwnInv /\ HeardInv
  BY DEF ReplayInv, DeliveryInv
<1>1. EverythingIsHeard /\ ReceiptsAreOfThisRun
  BY <1>0 DEF EverythingIsHeard, ReceiptsAreOfThisRun, HeardInv, OwnInv, Forwarded
<1>2. SummaryIsConsistent
  <2> SUFFICES ASSUME phase = "final"
               PROVE  /\ Published \cup SubmissionFailed = Events
                      /\ Acknowledged \subseteq received \cap Published
                      /\ receipts \subseteq Published
                      /\ Published \ Acknowledged \subseteq outstanding
    BY DEF SummaryIsConsistent
  <2>1. ended = "session_end"
    BY <1>0 DEF PhaseInv
  <2>2. \A e \in Events : \/ status[e] = "refused" /\ acked[e] = 0 /\ e \notin outstanding
                          \/ status[e] = "accepted" /\ (acked[e] > 0 \/ e \in outstanding)
    BY <2>1, <1>0 DEF Accounted
  <2>3. Published \cup SubmissionFailed = Events
    BY <2>2 DEF Published, SubmissionFailed
  <2>4. Acknowledged \subseteq received \cap Published
    BY <1>0 DEF Acknowledged, Published, LogInv
  <2>5. received \subseteq Published
    <3> SUFFICES ASSUME NEW e \in Events, e \in received PROVE status[e] = "accepted"
      BY <1>0 DEF TypeOK, Published
    <3>1. status[e] = "accepted" \/ e = next
      BY <1>0 DEF SentInv
    <3>2. e = next => status[e] = "unsent"
      BY <1>0 DEF LogInv, Events
    <3> QED
      BY <3>1, <3>2, <2>2
  <2>6. receipts \subseteq received
    BY <1>0 DEF OwnInv
  <2>7. Published \ Acknowledged \subseteq outstanding
    BY <2>2 DEF Published, Acknowledged
  <2> QED
    BY <2>3, <2>4, <2>5, <2>6, <2>7
<1> QED
  BY <1>0, <1>1, <1>2

\* Type correctness of the phase.
THEOREM DeliveryTypeCorrect == DeliverySpec => []DeliveryTypeOK
  BY DeliveryInvMeans, DeliveryInvariant, PTL

\* Unless the collector's stream has a gap, it hears all that is published.
THEOREM NothingUnheard == DeliverySpec => []EverythingIsHeard
  BY DeliveryInvMeans, DeliveryInvariant, PTL

\* The receipts are of this run.
THEOREM OwnReceipts == DeliverySpec => []ReceiptsAreOfThisRun
  BY DeliveryInvMeans, DeliveryInvariant, PTL

\* A summary is consistent.
THEOREM ConsistentSummary == DeliverySpec => []SummaryIsConsistent
  BY DeliveryInvMeans, DeliveryInvariant, PTL

\* The summary is of this run, and consistent.
THEOREM SummaryStands == DeliverySpec => []SummaryHolds
  BY OwnReceipts, ConsistentSummary, PTL DEF SummaryHolds
=============================================================================
