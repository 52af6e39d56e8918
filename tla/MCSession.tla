------------------------------ MODULE MCSession ------------------------------
(* Instances of Session for TLC: calls we made and calls we took, with and *)
(* without timers, in either role.                                         *)
EXTENDS Session

Made(interval, refresher, refreshBody) ==
    [role |-> "uac", header |-> [interval |-> interval, refresher |-> refresher],
     minSE |-> 0, supports |-> TRUE, body |-> refreshBody]

\* A watchdog sends no refresh, so its refresh_body is idle.
Taken(interval, refresher, minSE, supports) ==
    [role |-> "uas", header |-> [interval |-> interval, refresher |-> refresher],
     minSE |-> minSE, supports |-> supports, body |-> "none"]

BothRoles == {Made(1800, "uac", b) : b \in Body}
                 \cup {Taken(30, "open", 0, TRUE)}

WeRefresh == {Made(1800, "uac", "none")}

OneGrant == {90}
NoGrants == {}

=============================================================================
