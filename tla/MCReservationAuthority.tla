------------------------ MODULE MCReservationAuthority ------------------------
(* An instance of ReservationAuthority: a deployment that creates and books    *)
(* what it needs, then one that does so too or requires part of it to exist.   *)
EXTENDS ReservationAuthority

CreateAndBook == [provider |-> "create", pos |-> "create", r2lab |-> "book"]
RequireCalendar ==
    [provider |-> "disabled", pos |-> "require-existing", r2lab |-> "disabled"]
RequireLease ==
    [provider |-> "require-existing", pos |-> "disabled", r2lab |-> "require-existing"]

MCPolicies == <<{CreateAndBook}, {CreateAndBook, RequireCalendar, RequireLease}>>
=============================================================================
