------------------------- MODULE TransactionService -------------------------
(***************************************************************************)
(* What the transaction layer promises its user (the doc of                *)
(* stack/transaction/mod.rs and the flows of ua.rs, which wait for "the    *)
(* final response, or its timeout"): a transaction the TU starts is        *)
(* answered once or expires once, and is then closed; a transaction the    *)
(* peer opens is served and then closed.  Nothing is said of messages,     *)
(* timers or retransmissions.                                              *)
(***************************************************************************)
CONSTANTS ClientKey, ServerKey

VARIABLE view

Init == view = [k \in ClientKey \cup ServerKey |-> "idle"]

Become(k, v) == view' = [view EXCEPT ![k] = v]

\* The TU starts a client transaction, once per key.
Begin(k) == view[k] = "idle" /\ Become(k, "waiting")

\* The final response is handed up; the transaction may linger to absorb copies.
Answer(k) == view[k] = "waiting" /\ (Become(k, "answered") \/ Become(k, "closed"))

\* No final response came in time.
Expire(k) == view[k] = "waiting" /\ Become(k, "closed")

\* The peer opens a server transaction.
Serve(k) == view[k] \in {"idle", "closed"} /\ Become(k, "serving")

Close(k) == view[k] \in {"answered", "serving"} /\ Become(k, "closed")

Next ==
    \/ \E k \in ClientKey : Begin(k) \/ Answer(k) \/ Expire(k) \/ Close(k)
    \/ \E k \in ServerKey : Serve(k) \/ Close(k)

\* An answered transaction is eventually closed: its table entry is released.
Spec == Init /\ [][Next]_view /\ \A k \in ClientKey : WF_view(Close(k))

=============================================================================
