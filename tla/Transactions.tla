---------------------------- MODULE Transactions ----------------------------
(***************************************************************************)
(* The four RFC 3261 section 17 transaction machines of                    *)
(* stack/transaction/, as the source has them: pure functions from an      *)
(* input (a response or request received, a timer that fired, a response   *)
(* the TU wants to send) to the machine's next state and a list of actions *)
(* for its runner.                                                         *)
(*                                                                         *)
(* An action list is an outcome record: what is put on the wire, which     *)
(* timers are stopped and which are armed, and what is told to the TU, in  *)
(* order.  Every list of the source sends before it tells and arms no      *)
(* timer it stops, so only the order of what is told is kept.              *)
(***************************************************************************)
EXTENDS Naturals, Sequences

CONSTANTS
    T1,             \* round-trip estimate, in clock ticks
    T2,             \* cap of the retransmission interval
    T4,             \* how long a message lingers in the network
    TimeoutFactor,  \* 64 in the source: the timeout is TimeoutFactor * T1
    SoakD,          \* Timer D on unreliable transports (32 s in the source)
    Reliable,       \* TRUE on TCP and TLS, FALSE on UDP
    Provisional,    \* the 1xx responses
    Success,        \* the 2xx responses
    Failure,        \* the final responses that are not 2xx
    Unackable,      \* the failures no ACK can be built for (no To header)
    NoResponse      \* Option::None of a stored response

Response == Provisional \cup Success \cup Failure

ASSUME TimersAssumption ==
    /\ T1 \in Nat \ {0}
    /\ T2 \in Nat \ {0}
    /\ T4 \in Nat \ {0}
    /\ TimeoutFactor \in Nat \ {0}
    /\ SoakD \in Nat \ {0}
    /\ Reliable \in BOOLEAN

ASSUME ResponseAssumption ==
    /\ Provisional \cap Success = {}
    /\ Provisional \cap Failure = {}
    /\ Success \cap Failure = {}
    /\ Unackable \subseteq Failure
    /\ NoResponse \notin Response

-----------------------------------------------------------------------------
(* Timers, machines and outcomes. *)

TimerId == {"A", "B", "D", "E", "F", "G", "H", "I", "J", "K"}

\* Timers::timeout and the soak durations, which are only armed when unreliable.
Timeout == TimeoutFactor * T1
Soak == [D |-> SoakD, I |-> T4, J |-> Timeout, K |-> T4]

Kind == {"ClientInvite", "ClientNonInvite", "ServerInvite", "ServerNonInvite"}
ClientKind == {"ClientInvite", "ClientNonInvite"}
State == {"Calling", "Trying", "Proceeding", "Completed", "Confirmed",
          "Terminated"}

\* A machine: `interval` is timer_a, timer_e or timer_g; `last` is the stored
\* response that a retransmission replays (last_provisional while a server
\* INVITE is Proceeding, last_final once it is Completed).
Machine(kind, state) ==
    [kind |-> kind, state |-> state, interval |-> T1, last |-> NoResponse]

Tx == [kind : Kind \cup {"none"}, state : State, interval : Nat,
       last : Response \cup {NoResponse}]

\* The absence of a transaction in the engine's table.
NoTx == Machine("none", "Terminated")

Arm(id, after) == [id |-> id, after |-> after]

Deliver(r) == [event |-> "Response", response |-> r]
Request    == [event |-> "Request", response |-> NoResponse]
TimedOut   == [event |-> "TimedOut", response |-> NoResponse]
Terminated == [event |-> "Terminated", response |-> NoResponse]

\* What a machine asks of its runner.
Outcome(tx, send, stop, arm, tell) ==
    [tx |-> tx, send |-> send, stop |-> stop, arm |-> arm, tell |-> tell]

Nothing(tx) == Outcome(tx, {}, {}, {}, <<>>)

Enter(tx, state) == [tx EXCEPT !.state = state]

\* Enter a state with the response to replay in it.
Store(tx, state, r) == [tx EXCEPT !.state = state, !.last = r]

\* Retransmission timers run on unreliable transports only.
Retransmit(id) == IF Reliable THEN {} ELSE {Arm(id, T1)}

Least(a, b) == IF a <= b THEN a ELSE b

-----------------------------------------------------------------------------
(* Client INVITE, section 17.1.1. *)

ClientInviteStart ==
    Outcome(Machine("ClientInvite", "Calling"), {"request"}, {},
            Retransmit("A") \cup {Arm("B", Timeout)}, <<>>)

\* build_non_2xx_ack copies the response's To header.
Ackable(r) == r \notin Unackable

ClientInviteOnProvisional(tx, r) ==
    IF tx.state = "Calling"
    THEN Outcome(Enter(tx, "Proceeding"), {}, {"A", "B"}, {}, <<Deliver(r)>>)
    ELSE Outcome(tx, {}, {}, {}, <<Deliver(r)>>)

\* Fault: Terminated is reported before the response it ends with.
ClientInviteOnSuccess_TerminatedFirst(tx, r) ==
    Outcome(Enter(tx, "Terminated"), {}, {}, {}, <<Terminated, Deliver(r)>>)

\* The 2xx is handed up at once: its ACK is the dialog's.
ClientInviteOnSuccess(tx, r) ==
    Outcome(Enter(tx, "Terminated"), {}, {}, {}, <<Deliver(r), Terminated>>)

\* Fault: Completed is entered without its soak timer.
ClientInviteOnFailure_NoTimerD(tx, r) ==
    IF Ackable(r)
    THEN Outcome(Enter(tx, "Completed"), {"ack"}, {}, {}, <<Deliver(r)>>)
    ELSE Nothing(tx)

ClientInviteOnFailure(tx, r) ==
    CASE ~Ackable(r) -> Nothing(tx)
      [] Ackable(r) /\ Reliable ->
            Outcome(Enter(tx, "Terminated"), {"ack"}, {}, {},
                    <<Deliver(r), Terminated>>)
      [] OTHER ->
            Outcome(Enter(tx, "Completed"), {"ack"}, {}, {Arm("D", Soak.D)},
                    <<Deliver(r)>>)

ClientInviteOnResponse(tx, r) ==
    LET waiting == tx.state \in {"Calling", "Proceeding"}
    IN  CASE waiting /\ r \in Provisional -> ClientInviteOnProvisional(tx, r)
          [] waiting /\ r \in Success     -> ClientInviteOnSuccess(tx, r)
          [] waiting /\ r \in Failure     -> ClientInviteOnFailure(tx, r)
          [] tx.state = "Completed" /\ r \in Failure /\ Ackable(r) ->
                Outcome(tx, {"ack"}, {}, {}, <<>>)
          [] OTHER -> Nothing(tx)

ClientInviteOnTimer(tx, id) ==
    CASE tx.state = "Calling" /\ id = "A" ->
            Outcome([tx EXCEPT !.interval = 2 * @], {"request"}, {},
                    {Arm("A", 2 * tx.interval)}, <<>>)
      [] tx.state = "Calling" /\ id = "B" ->
            Outcome(Enter(tx, "Terminated"), {}, {}, {},
                    <<TimedOut, Terminated>>)
      [] tx.state = "Completed" /\ id = "D" ->
            Outcome(Enter(tx, "Terminated"), {}, {}, {}, <<Terminated>>)
      [] OTHER -> Nothing(tx)

-----------------------------------------------------------------------------
(* Client non-INVITE, section 17.1.2. *)

ClientNonInviteStart ==
    Outcome(Machine("ClientNonInvite", "Trying"), {"request"}, {},
            Retransmit("E") \cup {Arm("F", Timeout)}, <<>>)

ClientNonInviteComplete(tx, r) ==
    IF Reliable
    THEN Outcome(Enter(tx, "Terminated"), {}, {}, {},
                 <<Deliver(r), Terminated>>)
    ELSE Outcome(Enter(tx, "Completed"), {}, {"E", "F"},
                 {Arm("K", Soak.K)}, <<Deliver(r)>>)

\* Fault: a copy of the final response is handed up like the first.
ClientNonInviteOnResponse_Redelivers(tx, r) ==
    IF r \in Provisional
    THEN Outcome(Enter(tx, "Proceeding"), {}, {}, {}, <<Deliver(r)>>)
    ELSE ClientNonInviteComplete(tx, r)

ClientNonInviteOnResponse(tx, r) ==
    LET waiting == tx.state \in {"Trying", "Proceeding"}
    IN  CASE waiting /\ r \in Provisional ->
                Outcome(Enter(tx, "Proceeding"), {}, {}, {}, <<Deliver(r)>>)
          [] waiting /\ r \notin Provisional -> ClientNonInviteComplete(tx, r)
          [] OTHER -> Nothing(tx)

\* Back off to T2 while Trying; pinned at T2 once Proceeding.
ClientNonInviteRetransmit(tx, interval) ==
    Outcome([tx EXCEPT !.interval = interval], {"request"}, {},
            {Arm("E", interval)}, <<>>)

\* Fault: the timeout is only honoured before a provisional response.
ClientNonInviteOnTimer_TryingOnlyF(tx, id) ==
    IF tx.state = "Trying" /\ id = "F"
    THEN Outcome(Enter(tx, "Terminated"), {}, {}, {}, <<TimedOut, Terminated>>)
    ELSE Nothing(tx)

ClientNonInviteOnTimer(tx, id) ==
    CASE tx.state = "Trying" /\ id = "E" ->
            ClientNonInviteRetransmit(tx, Least(2 * tx.interval, T2))
      [] tx.state = "Proceeding" /\ id = "E" ->
            ClientNonInviteRetransmit(tx, T2)
      [] tx.state \in {"Trying", "Proceeding"} /\ id = "F" ->
            Outcome(Enter(tx, "Terminated"), {}, {}, {},
                    <<TimedOut, Terminated>>)
      [] tx.state = "Completed" /\ id = "K" ->
            Outcome(Enter(tx, "Terminated"), {}, {}, {}, <<Terminated>>)
      [] OTHER -> Nothing(tx)

-----------------------------------------------------------------------------
(* Server INVITE, section 17.2.1. *)

ServerInviteStart ==
    Outcome(Machine("ServerInvite", "Proceeding"), {}, {}, {}, <<Request>>)

ServerInviteSendFinal(tx, r) ==
    Outcome(Store(tx, "Completed", r), {r}, {},
            Retransmit("G") \cup {Arm("H", Timeout)}, <<>>)

ServerInviteSendResponse(tx, r) ==
    CASE tx.state = "Proceeding" /\ r \in Provisional ->
            Outcome(Store(tx, "Proceeding", r), {r}, {}, {}, <<>>)
      [] tx.state = "Proceeding" /\ r \in Success ->
            Outcome(Enter(tx, "Terminated"), {r}, {}, {}, <<Terminated>>)
      [] tx.state = "Proceeding" /\ r \in Failure ->
            ServerInviteSendFinal(tx, r)
      [] OTHER -> Nothing(tx)

\* Fault: a response is replayed before there is one.
Replay_Unset(tx) == {tx.last}

\* resend(last_provisional) or resend(last_final).
Replay(tx) == {tx.last} \ {NoResponse}

ServerInviteOnAck(tx) ==
    IF Reliable
    THEN Outcome(Enter(tx, "Terminated"), {}, {"G", "H"}, {}, <<Terminated>>)
    ELSE Outcome(Enter(tx, "Confirmed"), {}, {"G", "H"},
                 {Arm("I", Soak.I)}, <<>>)

ServerInviteOnRequest(tx, method) ==
    CASE method = "request" /\ tx.state \in {"Proceeding", "Completed"} ->
            Outcome(tx, Replay(tx), {}, {}, <<>>)
      [] method = "ack" /\ tx.state = "Completed" -> ServerInviteOnAck(tx)
      [] OTHER -> Nothing(tx)

\* Fault: Timer G resends the final once and is not armed again.
ServerInviteOnTimer_OneResend(tx, id) ==
    CASE tx.state = "Completed" /\ id = "G" ->
            Outcome(tx, Replay(tx), {}, {}, <<>>)
      [] tx.state = "Completed" /\ id = "H" ->
            Outcome(Enter(tx, "Terminated"), {}, {}, {},
                    <<TimedOut, Terminated>>)
      [] tx.state = "Confirmed" /\ id = "I" ->
            Outcome(Enter(tx, "Terminated"), {}, {}, {}, <<Terminated>>)
      [] OTHER -> Nothing(tx)

ServerInviteOnTimer(tx, id) ==
    LET interval == Least(2 * tx.interval, T2)
    IN  CASE tx.state = "Completed" /\ id = "G" ->
                Outcome([tx EXCEPT !.interval = interval], Replay(tx), {},
                        {Arm("G", interval)}, <<>>)
          [] tx.state = "Completed" /\ id = "H" ->
                Outcome(Enter(tx, "Terminated"), {}, {}, {},
                        <<TimedOut, Terminated>>)
          [] tx.state = "Confirmed" /\ id = "I" ->
                Outcome(Enter(tx, "Terminated"), {}, {}, {}, <<Terminated>>)
          [] OTHER -> Nothing(tx)

-----------------------------------------------------------------------------
(* Server non-INVITE, section 17.2.2. *)

ServerNonInviteStart ==
    Outcome(Machine("ServerNonInvite", "Trying"), {}, {}, {}, <<Request>>)

ServerNonInviteSendFinal(tx, r) ==
    IF Reliable
    THEN Outcome(Store(tx, "Terminated", r), {r}, {}, {},
                 <<Terminated>>)
    ELSE Outcome(Store(tx, "Completed", r), {r}, {},
                 {Arm("J", Soak.J)}, <<>>)

ServerNonInviteSendResponse(tx, r) ==
    LET deciding == tx.state \notin {"Completed", "Terminated"}
    IN  CASE deciding /\ r \in Provisional ->
                Outcome(Store(tx, "Proceeding", r), {r},
                        {}, {}, <<>>)
          [] deciding /\ r \notin Provisional -> ServerNonInviteSendFinal(tx, r)
          [] OTHER -> Nothing(tx)

ServerNonInviteOnRequest(tx) ==
    IF tx.state \in {"Proceeding", "Completed"}
    THEN Outcome(tx, Replay(tx), {}, {}, <<>>)
    ELSE Nothing(tx)

\* Fault: the soak timer of the client machine is awaited instead.
ServerNonInviteOnTimer_WaitsForK(tx, id) ==
    IF tx.state = "Completed" /\ id = "K"
    THEN Outcome(Enter(tx, "Terminated"), {}, {}, {}, <<Terminated>>)
    ELSE Nothing(tx)

ServerNonInviteOnTimer(tx, id) ==
    IF tx.state = "Completed" /\ id = "J"
    THEN Outcome(Enter(tx, "Terminated"), {}, {}, {}, <<Terminated>>)
    ELSE Nothing(tx)

-----------------------------------------------------------------------------
(* The Transaction enum: dispatch on the kind of machine. *)

OnResponse(tx, r) ==
    CASE tx.kind = "ClientInvite"    -> ClientInviteOnResponse(tx, r)
      [] tx.kind = "ClientNonInvite" -> ClientNonInviteOnResponse(tx, r)
      [] OTHER -> Nothing(tx)

OnRequest(tx, method) ==
    CASE tx.kind = "ServerInvite"    -> ServerInviteOnRequest(tx, method)
      [] tx.kind = "ServerNonInvite" -> ServerNonInviteOnRequest(tx)
      [] OTHER -> Nothing(tx)

SendResponse(tx, r) ==
    CASE tx.kind = "ServerInvite"    -> ServerInviteSendResponse(tx, r)
      [] tx.kind = "ServerNonInvite" -> ServerNonInviteSendResponse(tx, r)
      [] OTHER -> Nothing(tx)

OnTimer(tx, id) ==
    CASE tx.kind = "ClientInvite"    -> ClientInviteOnTimer(tx, id)
      [] tx.kind = "ClientNonInvite" -> ClientNonInviteOnTimer(tx, id)
      [] tx.kind = "ServerInvite"    -> ServerInviteOnTimer(tx, id)
      [] tx.kind = "ServerNonInvite" -> ServerNonInviteOnTimer(tx, id)
      [] OTHER -> Nothing(tx)

=============================================================================
