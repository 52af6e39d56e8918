------------------------------ MODULE MCEngine ------------------------------
(***************************************************************************)
(* Instances of Engine for TLC.  The responses are one of each class the   *)
(* machines tell apart, and a second failure, which carries no To header   *)
(* and cannot be acknowledged.  A clock tick is T1.                        *)
(***************************************************************************)
EXTENDS Engine

MCProvisional == {"180"}
MCSuccess     == {"200"}
MCFailure     == {"486", "400"}
MCUnackable   == {"400"}
MCNoResponse  == "none"

\* Keys, named for the side that opens the transaction and its method.
InviteOut  == {"invite_out"}
OptionsOut == {"options_out"}
InviteIn   == {"invite_in"}
ByeIn      == {"bye_in"}
Invites    == InviteOut \cup InviteIn
ClientKeys == InviteOut \cup OptionsOut
ServerKeys == InviteIn \cup ByeIn
NoKey      == {}

\* A slice of the product of the four machines: one key alone, whose branch the
\* peer may use again, or the two keys of one class beside each other.
Busy == {k \in Key : view[k] # "idle"}

Slice ==
    \/ \E k \in Key : Busy \subseteq {k}
    \/ /\ Busy \subseteq Invites \/ Busy \cap Invites = {}
       /\ \A k \in ServerKey : opens[k] <= 1

UdpSpec == Init /\ [][Next /\ Slice']_vars /\ Fairness

=============================================================================
