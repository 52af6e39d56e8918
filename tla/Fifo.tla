-------------------------------- MODULE Fifo --------------------------------
(***************************************************************************)
(* What the engine expects of a reliable transport: the messages of the    *)
(* peer, whole, each once, in the order they were sent, until it stops.    *)
(***************************************************************************)
EXTENDS Naturals, Sequences

CONSTANT Message

VARIABLES
    sent,  \* the messages the peer has sent
    got    \* those the engine has received

Init == sent = <<>> /\ got = <<>>

Send == \E m \in Message : sent' = Append(sent, m) /\ got' = got

Receive ==
    /\ Len(got) < Len(sent)
    /\ got' = Append(got, sent[Len(got) + 1])
    /\ sent' = sent

Spec == Init /\ [][Send \/ Receive]_<<sent, got>>

=============================================================================
