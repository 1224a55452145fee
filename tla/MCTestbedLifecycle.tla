------------------------- MODULE MCTestbedLifecycle -------------------------
(* An instance of TestbedLifecycle for TLC: a physical deployment that booked *)
(* a lease, and a simulated one that supersedes it while it is in use.        *)
EXTENDS TestbedLifecycleInvariant

CONSTANTS r1, r2

TwoRuns == {r1, r2}

BooksLease == [r \in Runs |-> IF r = r1 THEN {"r2lab"} ELSE {}]

NoneOrAll  == {NoOptions, [deleteNamespace |-> TRUE, keep |-> TRUE]}
=============================================================================
