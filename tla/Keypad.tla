------------------------------- MODULE Keypad -------------------------------
(***************************************************************************)
(* What key presses over RTP promise (the doc of rtp/dtmf_recv.rs): the    *)
(* far end hears of each press at most once, in the order they were made,  *)
(* and at most once that the key it heard last was let go, with the time   *)
(* it was held, whose unit the user of this module chooses.  Packets,      *)
(* timestamps and losses are not mentioned.                                *)
(***************************************************************************)
EXTENDS Naturals, Sequences

CONSTANTS Key, Length

VARIABLES
    made,   \* the presses made so far: key and length
    heard   \* what the far end was told, in order

Event == [kind : {"pressed", "released"}, press : Nat, key : Key, length : Length]

Init == made = <<>> /\ heard = <<>>

Make == /\ \E k \in Key, n \in Length : made' = Append(made, [key |-> k, length |-> n])
        /\ heard' = heard

\* What is told of a press on the way down says nothing of its length yet.
HearPressed(p) ==
    /\ \A i \in DOMAIN heard : heard[i].press < p
    /\ heard' = Append(heard, [kind |-> "pressed", press |-> p, key |-> made[p].key,
                               length |-> 0])
    /\ made' = made

HearReleased(p) ==
    /\ heard # <<>>
    /\ heard[Len(heard)].kind = "pressed"
    /\ heard[Len(heard)].press = p
    /\ heard' = Append(heard, [kind |-> "released", press |-> p, key |-> made[p].key,
                               length |-> made[p].length])
    /\ made' = made

Next == Make \/ \E p \in DOMAIN made : HearPressed(p) \/ HearReleased(p)

Spec == Init /\ [][Next]_<<made, heard>>

=============================================================================
