------------------------------ MODULE MCMedia ------------------------------
(***************************************************************************)
(* Instances of Media for TLC.  Offers list up to three of the two static  *)
(* numbers and two dynamic ones, each unnamed, named as usual or named as  *)
(* something else; answers are what the full menu allows, in any order.    *)
(***************************************************************************)
EXTENDS Media

Lists(S, n) == {s \in UNION {[1..k -> S] : k \in 1..n} :
                  \A i, j \in DOMAIN s : i # j => s[i] # s[j]}

Maps == {[pt \in {96, 101} |-> IF pt = 96 THEN a ELSE b] :
            a \in {"opus", "event48k", "pcmu"}, b \in {"event8k", "event16k"}}
        \cup {[pt \in {8, 96, 101} |-> CASE pt = 8 -> "other" [] pt = 96 -> "opus"
                                          [] pt = 101 -> "event48k"],
             [pt \in {8, 96} |-> IF pt = 8 THEN "pcmu" ELSE "event8k"],
             [pt \in {0, 96} |-> IF pt = 0 THEN "event8k" ELSE "pcmu"]}

MCForeignOffer ==
    {[pts |-> s, map |-> m, placed |-> TRUE] : s \in Lists({0, 8, 96, 101}, 3), m \in Maps}
        \cup {NoBody}

MCForeignAnswer ==
    {[FullMenu EXCEPT !.pts = s] : s \in Lists({111, 0, 8, 101, 110}, 3)}
        \cup {NoBody}

MCTicksAt == [k \in {8, 16, 48} |-> IF k = 48 THEN 2 ELSE 1]
=============================================================================
