------------------------------- MODULE Receiver -------------------------------
(***************************************************************************)
(* synthran/model/receiver.py, decode_receptions(): which of the packets    *)
(* that share a subcarrier in one slot are decoded, with residual-power      *)
(* successive interference cancellation (SIC).  A packet is                  *)
(*   [power, sensitivity, start, end, complete]                              *)
(* with received powers as integers of one unit, times in the unit of the    *)
(* simulation.                                                               *)
(***************************************************************************)
EXTENDS Integers, Sequences, FiniteSets, FiniteSetsExt, SequencesExt

CONSTANTS
    Noise,               \* noise_w
    ThresholdNum,        \* threshold_db as the ratio of two integers
    ThresholdDen,
    CancelNum,           \* cancellation_factor as the ratio of two integers
    CancelDen,
    Sic                  \* enable_sic

ASSUME ReceiverAssumption ==
    /\ Noise \in Nat \ {0}
    /\ ThresholdNum \in Nat \ {0} /\ ThresholdDen \in Nat \ {0}
    /\ CancelDen \in Nat \ {0} /\ CancelNum \in 0..CancelDen
    /\ Sic \in BOOLEAN

\* What is left of a decoded packet's power.
Residual(power) ==
    IF Sic THEN power - (power * CancelNum) \div CancelDen ELSE power

Overlaps(p, q) == Max({p.start, q.start}) < Min({p.end, q.end})

Rivals(ps, i) == {j \in DOMAIN ps \ {i} : Overlaps(ps[i], ps[j])}

\* Mutant of Instants: the interference at the start of the packet only.
InstantsFirst(ps, i) == {ps[i].start} \ {ps[i].end}

\* The instants of packet i at which what interferes with it may change.
Instants(ps, i) ==
    ({ps[i].start} \cup {Max({ps[i].start, ps[j].start}) : j \in Rivals(ps, i)}
                   \cup {Min({ps[i].end, ps[j].end}) : j \in Rivals(ps, i)}) \ {ps[i].end}

OnAir(p, instant) == p.start <= instant /\ instant < p.end

\* The sum of a sequence of numbers.
Total(s) ==
    LET sum[k \in 0..Len(s)] == IF k = 0 THEN 0 ELSE sum[k - 1] + s[k]
    IN  sum[Len(s)]

\* What is on the air with packet i at an instant, of the powers given.
Alongside(ps, powers, i, instant) ==
    Total([j \in DOMAIN ps |-> IF j # i /\ OnAir(ps[j], instant) THEN powers[j] ELSE 0])

\* The most that interferes with packet i at any instant of its airtime.
Interference(ps, residual, i) ==
    Max({0} \cup {Alongside(ps, residual, i, instant) : instant \in Instants(ps, i)})

MeetsThreshold(power, interference) ==
    power * ThresholdDen >= ThresholdNum * (Noise + interference)

\* Why packet i is or is not decoded, after those of the sequence decoded.
Verdict(ps, residual, decoded, i) ==
    IF ps[i].end <= ps[i].start \/ ~ps[i].complete THEN "energy_interrupted"
    ELSE IF ps[i].power < ps[i].sensitivity THEN "below_sensitivity"
    ELSE IF ~MeetsThreshold(ps[i].power, Interference(ps, residual, i))
         THEN IF Rivals(ps, i) # {} THEN "collision" ELSE "below_sinr"
    ELSE IF Rivals(ps, i) = {} THEN "decoded"
    ELSE IF Sic /\ CancelNum > 0 /\ Rivals(ps, i) \cap ToSet(decoded) # {}
         THEN "sic_recovered" ELSE "capture"

Decodes(outcome) == outcome \in {"decoded", "capture", "sic_recovered"}

\* The next of the candidates: by falling power, equal powers in order of
\* arrival.
Precedes(ps, i, j) ==
    \/ ps[i].power > ps[j].power
    \/ ps[i].power = ps[j].power /\ i <= j

Foremost(ps, candidates) ==
    CHOOSE i \in candidates : \A j \in candidates : Precedes(ps, i, j)

\* One packet is considered; work is [residual, decoded, outcome].
Consider(ps, work, i) ==
    LET outcome == Verdict(ps, work.residual, work.decoded, i)
    IN  [residual |-> IF Decodes(outcome)
                      THEN [work.residual EXCEPT ![i] = Residual(ps[i].power)]
                      ELSE work.residual,
         decoded  |-> IF Decodes(outcome) THEN Append(work.decoded, i) ELSE work.decoded,
         outcome  |-> [work.outcome EXCEPT ![i] = outcome]]

\* One pass over the candidates that are left, one after the other.
Pass(ps, work) ==
    LET candidates == DOMAIN ps \ ToSet(work.decoded)
        pass[k \in 0..Cardinality(candidates)] ==
            IF k = 0 THEN [work |-> work, left |-> candidates]
            ELSE LET i == Foremost(ps, pass[k - 1].left)
                 IN  [work |-> Consider(ps, pass[k - 1].work, i),
                      left |-> pass[k - 1].left \ {i}]
    IN  pass[Cardinality(candidates)].work

\* The passes go on until one decodes nothing.  A pass that decodes nothing
\* changes nothing when repeated, so that as many passes as there are
\* packets, and one to settle the outcomes, are as good as the loop.
DecodeReceptions(ps) ==
    LET start == [residual |-> [i \in DOMAIN ps |-> ps[i].power],
                  decoded  |-> <<>>,
                  outcome  |-> [i \in DOMAIN ps |-> "none"]]
        after[k \in 0..Len(ps) + 1] == IF k = 0 THEN start ELSE Pass(ps, after[k - 1])
    IN  after[Len(ps) + 1]

----------------------------------------------------------------------------
(* What a decision must satisfy, said without the order of the passes.      *)

\* A decoded packet had the threshold throughout its airtime, instant by
\* instant, against all that was not cancelled before it; one that is not
\* decoded, though complete and audible, has it not even after all that was.
DecisionIsSound(ps) ==
    LET work == DecodeReceptions(ps)
        Earlier(j, i) == \E m, k \in DOMAIN work.decoded :
                            m < k /\ work.decoded[m] = j /\ work.decoded[k] = i
        Cancelled(j, i) == Decodes(work.outcome[j]) /\ (Decodes(work.outcome[i]) => Earlier(j, i))
        Left(i) == [j \in DOMAIN ps |-> IF Cancelled(j, i) THEN Residual(ps[j].power)
                                        ELSE ps[j].power]
        Clear(i) == \A instant \in ps[i].start..ps[i].end - 1 :
                        MeetsThreshold(ps[i].power, Alongside(ps, Left(i), i, instant))
    IN  \A i \in DOMAIN ps :
            Decodes(work.outcome[i])
            <=> /\ ps[i].complete /\ ps[i].end > ps[i].start
                /\ ps[i].power >= ps[i].sensitivity
                /\ Clear(i)

\* Which packets are decoded does not depend on the order of arrival, as
\* long as no two are equally strong.
DecisionIsOrderFree(ps) ==
    (\A i, j \in DOMAIN ps : ps[i].power = ps[j].power => i = j) =>
        LET back == Reverse(ps)
        IN  \A i \in DOMAIN ps :
                DecodeReceptions(ps).outcome[i]
                  = DecodeReceptions(back).outcome[Len(ps) + 1 - i]
==============================================================================
