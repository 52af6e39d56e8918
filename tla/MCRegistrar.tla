----------------------------- MODULE MCRegistrar -----------------------------
(* An instance of Registrar: one application task beside the keepalive, and  *)
(* a far end that may raise its minimum.                                     *)
EXTENDS Registrar

CONSTANTS loop, app

MCTask == {loop, app}
TwoFloors == {3, 4}
ShortLifetime == {2}
OneEach == [t \in MCTask |-> 1]

=============================================================================
