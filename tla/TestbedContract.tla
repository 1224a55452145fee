--------------------------- MODULE TestbedContract ---------------------------
(***************************************************************************)
(* What the three SynthRAN controllers promise together about accepted     *)
(* testbeds, with no files, locks or processes: at most one testbed is     *)
(* published, each deployment run is published at most once, a testbed     *)
(* that was fenced is never attachable again, and a teardown never fences  *)
(* a testbed that an experiment holds.  TestbedLifecycle implements it.    *)
(***************************************************************************)
CONSTANTS Runs, NoRun

VARIABLES
    stage,    \* of the published testbed, "none" when there is none
    current,  \* the run it belongs to
    fresh,    \* the runs that may still be published
    attached  \* the run the experiment holds an attachment to

cvars == <<stage, current, fresh, attached>>

Init ==
    /\ stage = "none" /\ current = NoRun
    /\ fresh = Runs /\ attached = NoRun

\* A deployment is accepted; only when nothing else is published.
Publish(r) ==
    /\ stage = "none" /\ r \in fresh
    /\ stage' = "accepted" /\ current' = r /\ fresh' = fresh \ {r}
    /\ UNCHANGED attached

\* A deployment ends without being accepted.
Discard(r) ==
    /\ fresh' = fresh \ {r}
    /\ UNCHANGED <<stage, current, attached>>

\* A new deployment withdraws whatever is published.
Withdraw ==
    /\ stage' = "none" /\ current' = NoRun
    /\ UNCHANGED <<fresh, attached>>

\* A teardown begins, or is retried, on a testbed nobody is attached to.
Fence ==
    /\ stage \in {"accepted", "failed"} /\ attached # current
    /\ stage' = "stopping"
    /\ UNCHANGED <<current, fresh, attached>>

Fail ==
    /\ stage = "stopping" /\ stage' = "failed"
    /\ UNCHANGED <<current, fresh, attached>>

Finish ==
    /\ stage = "stopping" /\ stage' = "down"
    /\ UNCHANGED <<current, fresh, attached>>

Attach ==
    /\ stage = "accepted" /\ attached' = current
    /\ UNCHANGED <<stage, current, fresh>>

Detach ==
    /\ attached' = NoRun
    /\ UNCHANGED <<stage, current, fresh>>

Next ==
    \/ \E r \in Runs : Publish(r) \/ Discard(r)
    \/ Withdraw \/ Fence \/ Fail \/ Finish \/ Attach \/ Detach

Spec == Init /\ [][Next]_cvars
=============================================================================
