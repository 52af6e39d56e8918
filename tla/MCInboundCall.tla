---------------------------- MODULE MCInboundCall ----------------------------
(* Instances of InboundCall for TLC: two calls, and room for one of them. *)
EXTENDS InboundCall

CONSTANTS first, second

OneCall  == {first}
TwoCalls == {first, second}

=============================================================================
