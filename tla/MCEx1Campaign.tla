---------------------------- MODULE MCEx1Campaign ----------------------------
(* An instance of Ex1Campaign: a checkout that is edited without and with a   *)
(* commit, and trees whose measurements select, select otherwise or do not.   *)
EXTENDS Ex1Campaign

MCCodes == {[rev |-> "r1", tree |-> "t1"], [rev |-> "r1", tree |-> "t2"],
            [rev |-> "r2", tree |-> "t2"]}

MCPlans == {AllPhases} \cup {<<f>> : f \in Phases}

MCCheckout == [rev |-> "r1", tree |-> "t1"]

\* The tree the operator starts from, and one that would not qualify.
First  == [sound |-> TRUE, active |-> <<20, 45, 85>>,
           collision |-> <<1, 12, 40>>, decode |-> <<4, 8, 9>>]
Second == [sound |-> FALSE, active |-> <<15, 50, 60>>,
           collision |-> <<11, 9, 12>>, decode |-> <<9, 8, 9>>]

MCWorlds == {[t1 |-> First, t2 |-> Second]}

MCFragile == {<<"confirmation", 1>>}

MCRegimeOf == <<"knee", "low">>
=============================================================================
