------------------------------- MODULE Engine -------------------------------
(***************************************************************************)
(* The transaction engine of stack/engine.rs: one task that owns the       *)
(* transaction table, feeds the machines of Transactions with datagrams,   *)
(* fired timers and the TU's commands, and applies what they ask for.      *)
(*                                                                         *)
(* Every arm of the engine's select loop is one action, with the `apply`   *)
(* of its outcome.  Timers are the detached sleepers of the source: arming *)
(* one spawns a task that nobody cancels, and the engine tells a live one  *)
(* from a stale one by the generation it carries.                          *)
(*                                                                         *)
(* The network delivers any message the peer may have sent, any number of  *)
(* times, in any order, or never.                                          *)
(***************************************************************************)
EXTENDS Transactions

CONSTANTS
    ClientKey,  \* keys of the client transactions the TU may start
    ServerKey,  \* keys of the server transactions the peer may open
    InviteKey,  \* the keys, of either side, whose method is INVITE
    MaxOpens    \* bound: how often one key's request may open a transaction

Key == ClientKey \cup ServerKey

ASSUME KeyAssumption ==
    /\ ClientKey \cap ServerKey = {}
    /\ InviteKey \subseteq Key
    /\ MaxOpens \in Nat

VARIABLES
    tx,         \* Engine.txns: each key's machine, NoTx when it has none
    gen,        \* Entry.timers: generation per timer, 0 when never armed
    sleepers,   \* the spawned sleepers, and their fires not handled yet
    wire,       \* history: the messages this engine has sent
    view,       \* history: what the events tell the TU of each transaction
    opens       \* history: how many transactions each server key has opened

vars == <<tx, gen, sleepers, wire, view, opens>>

\* A sleeper's `fate` is history: "armed" until the engine stops or re-arms its
\* timer ("cancelled") or drops its transaction ("orphaned").
Sleeper == [key : Key, id : TimerId, gen : Nat, left : Nat,
            fate : {"armed", "cancelled", "orphaned"}]

\* A message on the wire: a request, a non-2xx ACK or a response.
Message == [key : Key, body : {"request", "ack"} \cup Response]

View == {"idle", "waiting", "serving", "answered", "expired", "closed", "broken"}

NoTimers == [id \in TimerId |-> 0]

-----------------------------------------------------------------------------
(* What the TU makes of the events.  A client transaction is open until    *)
(* one final response or one timeout, and closed by Terminated; a server   *)
(* transaction is opened by its request.  Anything else breaks the promise.*)

Hear(v, e) ==
    CASE e.event = "Request" /\ v \in {"idle", "closed"} -> "serving"
      [] e.event = "Response" /\ e.response \in Provisional /\ v = "waiting" ->
            "waiting"
      [] e.event = "Response" /\ e.response \notin Provisional
                              /\ v = "waiting" -> "answered"
      [] e.event = "TimedOut" /\ v \in {"waiting", "serving"} -> "expired"
      [] e.event = "Terminated" /\ v \in {"answered", "expired", "serving"} ->
            "closed"
      [] OTHER -> "broken"

\* No action list tells more than two events.
HearAll(v, tell) ==
    CASE Len(tell) = 0 -> v
      [] Len(tell) = 1 -> Hear(v, tell[1])
      [] OTHER         -> Hear(Hear(v, tell[1]), tell[2])

-----------------------------------------------------------------------------
(* Engine::apply. *)

Ends(out) == \E i \in DOMAIN out.tell : out.tell[i] = Terminated

Armed(out) == {a.id : a \in out.arm}

\* Fault: stop_timer leaves the generation alone.
Bump_StopIgnored(timers, out) ==
    [id \in TimerId |-> IF id \in Armed(out) THEN timers[id] + 1 ELSE timers[id]]

\* arm_timer bumps the generation; stop_timer bumps one that exists.
Bump(timers, out) ==
    [id \in TimerId |->
        IF id \in Armed(out) \/ (id \in out.stop /\ timers[id] > 0)
        THEN timers[id] + 1
        ELSE timers[id]]

Spawned(k, out) ==
    {[key |-> k, id |-> a.id, gen |-> gen[k][a.id] + 1, left |-> a.after,
      fate |-> "armed"] : a \in out.arm}

\* The history of a sleeper that was pending when `out` is applied to k.
Fate(s, k, out) ==
    CASE s.key # k \/ s.fate = "orphaned" -> s.fate
      [] s.key = k /\ s.fate # "orphaned" /\ Ends(out) -> "orphaned"
      [] s.key = k /\ s.fate = "armed" /\ ~Ends(out)
                   /\ s.id \in Armed(out) \cup out.stop -> "cancelled"
      [] OTHER -> s.fate

\* Apply an outcome to the entry of k; `pending` are the sleepers left.
Apply(k, out, pending) ==
    /\ tx'   = [tx EXCEPT ![k] = IF Ends(out) THEN NoTx ELSE out.tx]
    /\ gen'  = [gen EXCEPT ![k] = IF Ends(out) THEN NoTimers
                                               ELSE Bump(@, out)]
    /\ sleepers' = {[s EXCEPT !.fate = Fate(s, k, out)] : s \in pending}
                       \cup (IF Ends(out) THEN {} ELSE Spawned(k, out))
    /\ wire' = wire \cup {[key |-> k, body |-> b] : b \in out.send}

-----------------------------------------------------------------------------
(* The arms of Engine::run. *)

Init ==
    /\ tx = [k \in Key |-> NoTx]
    /\ gen = [k \in Key |-> NoTimers]
    /\ sleepers = {}
    /\ wire = {}
    /\ view = [k \in Key |-> "idle"]
    /\ opens = [k \in ServerKey |-> 0]

Start(k) == IF k \in InviteKey THEN ClientInviteStart ELSE ClientNonInviteStart

\* Command::StartClient.  A branch is never generated twice, so k is fresh.
StartClient(k) ==
    /\ view[k] = "idle"
    /\ Apply(k, Start(k), sleepers)
    /\ view' = [view EXCEPT ![k] = "waiting"]
    /\ UNCHANGED opens

\* Command::SendResponse for a transaction the TU has heard of, live or not.
SendServerResponse(k, r) ==
    /\ view[k] # "idle"
    /\ tx[k] # NoTx
    /\ LET out == SendResponse(tx[k], r)
       IN  /\ Apply(k, out, sleepers)
           /\ view' = [view EXCEPT ![k] = HearAll(@, out.tell)]
    /\ UNCHANGED opens

\* A response to a request this engine sent; with no transaction it is dropped.
ReceiveResponse(k, r) ==
    /\ [key |-> k, body |-> "request"] \in wire
    /\ tx[k] # NoTx
    /\ LET out == OnResponse(tx[k], r)
       IN  /\ Apply(k, out, sleepers)
           /\ view' = [view EXCEPT ![k] = HearAll(@, out.tell)]
    /\ UNCHANGED opens

Open(k) == IF k \in InviteKey THEN ServerInviteStart ELSE ServerNonInviteStart

\* A request that matches no transaction opens one.
OpenServer(k) ==
    /\ tx[k] = NoTx
    /\ opens[k] < MaxOpens
    /\ Apply(k, Open(k), sleepers)
    /\ view' = [view EXCEPT ![k] = HearAll(@, Open(k).tell)]
    /\ opens' = [opens EXCEPT ![k] = @ + 1]

\* A retransmitted request, or the ACK of a failure this engine sent.
ReceiveRequest(k, method) ==
    /\ tx[k] # NoTx
    /\ method = "ack" =>
          /\ k \in InviteKey
          /\ \E r \in Failure : [key |-> k, body |-> r] \in wire
    /\ LET out == OnRequest(tx[k], method)
       IN  /\ Apply(k, out, sleepers)
           /\ view' = [view EXCEPT ![k] = HearAll(@, out.tell)]
    /\ UNCHANGED opens

\* The generation check of on_timer_fire.
Current(s) == gen[s.key][s.id] = s.gen

FireCurrent(s) ==
    /\ s.left = 0
    /\ Current(s)
    /\ LET out == OnTimer(tx[s.key], s.id)
       IN  /\ Apply(s.key, out, sleepers \ {s})
           /\ view' = [view EXCEPT ![s.key] = HearAll(@, out.tell)]
    /\ UNCHANGED opens

FireStale(s) ==
    /\ s.left = 0
    /\ ~Current(s)
    /\ sleepers' = sleepers \ {s}
    /\ UNCHANGED <<tx, gen, wire, view, opens>>

Aged(s) == [s EXCEPT !.left = s.left - 1]

\* Time passes once every elapsed sleeper has been handled.
Tick ==
    /\ sleepers # {}
    /\ \A s \in sleepers : s.left > 0
    /\ sleepers' = {Aged(s) : s \in sleepers}
    /\ UNCHANGED <<tx, gen, wire, view, opens>>

Next ==
    \/ \E k \in ClientKey : StartClient(k)
    \/ \E k \in ClientKey, r \in Response : ReceiveResponse(k, r)
    \/ \E k \in ServerKey : OpenServer(k)
    \/ \E k \in ServerKey, method \in {"request", "ack"} :
          ReceiveRequest(k, method)
    \/ \E k \in ServerKey, r \in Response : SendServerResponse(k, r)
    \/ \E s \in sleepers : FireCurrent(s)
    \/ \E s \in sleepers : FireStale(s)
    \/ Tick

Spec == Init /\ [][Next]_vars

\* The select loop polls the timer channel for ever, and time passes.
Fairness ==
    /\ WF_vars(Tick)
    /\ WF_vars(\E s \in sleepers : FireCurrent(s) \/ FireStale(s))

FairSpec == Spec /\ Fairness

-----------------------------------------------------------------------------
(* Correctness. *)

\* Type invariant of the engine's table, its sleepers and the histories.
TypeOK ==
    /\ tx \in [Key -> Tx]
    /\ gen \in [Key -> [TimerId -> Nat]]
    /\ sleepers \subseteq Sleeper
    /\ wire \subseteq Message
    /\ view \in [Key -> View]
    /\ opens \in [ServerKey -> Nat]

\* The TU hears of a client transaction exactly one final response or one
\* timeout, then Terminated, and nothing after it; of a server transaction its
\* request first (transaction/mod.rs: the TU "sees each logical response once").
Conforms == \A k \in Key : view[k] # "broken"

Live(k, id) == \E s \in sleepers : s.key = k /\ s.id = id /\ Current(s)

\* The timers that end a machine's state: a state with one is never left
\* waiting for the peer alone.
Ending(m) ==
    CASE m.kind = "ClientInvite" /\ m.state = "Calling"      -> {"B"}
      [] m.kind = "ClientInvite" /\ m.state = "Completed"    -> {"D"}
      [] m.kind = "ClientNonInvite" /\ m.state \in {"Trying", "Proceeding"} ->
            {"F"}
      [] m.kind = "ClientNonInvite" /\ m.state = "Completed" -> {"K"}
      [] m.kind = "ServerInvite" /\ m.state = "Completed"    -> {"H"}
      [] m.kind = "ServerInvite" /\ m.state = "Confirmed"    -> {"I"}
      [] m.kind = "ServerNonInvite" /\ m.state = "Completed" -> {"J"}
      [] OTHER -> {}

\* The timers that repeat a message while the machine waits on UDP.
Repeating(m) ==
    IF Reliable
    THEN {}
    ELSE CASE m.kind = "ClientInvite" /\ m.state = "Calling" -> {"A"}
           [] m.kind = "ClientNonInvite"
                 /\ m.state \in {"Trying", "Proceeding"} -> {"E"}
           [] m.kind = "ServerInvite" /\ m.state = "Completed" -> {"G"}
           [] OTHER -> {}

\* Every state that a timer must end has a sleeper for that timer whose
\* generation the engine still accepts: no transaction is stranded.
Guarded == \A k \in Key : \A id \in Ending(tx[k]) : Live(k, id)

\* While a machine repeats its message, the next repetition is scheduled.
Repeats == \A k \in Key : \A id \in Repeating(tx[k]) : Live(k, id)

\* A timer stopped or re-armed by its own transaction never reaches the
\* machine again, however late its sleeper wakes.
CancelledIsStale ==
    \A s \in sleepers : s.fate = "cancelled" => ~Current(s)

\* engine.rs says of on_timer_fire: "Ignore a timer that has been cancelled,
\* re-armed, or whose transaction is already gone."
OrphanIsStale == \A s \in sleepers : s.fate = "orphaned" => ~Current(s)

\* The engine implements the service the TU relies on.
Service == INSTANCE TransactionService WITH
    view <- view, ClientKey <- ClientKey, ServerKey <- ServerKey
ImplementsService == Service!Spec

\* A transaction in a state a timer must end leaves it.
Waiting(k) == Ending(tx[k]) # {}
EveryWaitEnds == \A k \in Key : Waiting(k) ~> ~Waiting(k)

=============================================================================
