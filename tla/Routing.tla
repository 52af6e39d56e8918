------------------------------- MODULE Routing -------------------------------
(***************************************************************************)
(* The way of an inbound request through the bounded channels: the engine  *)
(* (engine.rs) hands it to the router of ua.rs, this to the endpoint's     *)
(* route_inbound (endpoint.rs), and this answers it, or hands it to the    *)
(* application: a new call, or a request inside a call whose application   *)
(* has opted in (inbound.rs, caller.rs).  Answers go back to the engine as *)
(* commands.  Every send waits for room, and whoever waits does nothing    *)
(* else.  CANCEL and the registries of calls are in InboundCall.           *)
(*                                                                         *)
(* A request is its kind: "invite" a new call, "info" any request that a   *)
(* call may opt in to, "bye" any that the endpoint answers by itself,      *)
(* "silent" an ACK, or one that no response can be built to.               *)
(***************************************************************************)
EXTENDS Naturals, Sequences, FiniteSets

CONSTANTS
    EventRoom,     \* capacity of the engine's events
    IncomingRoom,  \* of the router's channel to the endpoint
    CommandRoom,   \* of the engine's commands
    CallsRoom,     \* of the channel of new calls
    StreamRoom,    \* of a call's InboundRequests
    MaxEvents      \* bound: events that messages and timers raise

ASSUME RoutingAssumption ==
    /\ {EventRoom, IncomingRoom, CommandRoom, CallsRoom, StreamRoom} \subseteq Nat \ {0}
    /\ MaxEvents \in Nat

VARIABLES
    arrived,   \* how many events messages and timers have raised
    owed,      \* history: those not answered, absorbed or let go yet
    engine,    \* the event the engine waits to hand up
    events,
    router,    \* the request the router waits to pass on
    incoming,
    route,     \* the request route_inbound is at, and what it waits for
    commands,
    calls,     \* new calls the application has not taken
    dialogs,   \* whether the call has opted in
    stream,    \* its InboundRequests: "none", "open", "closed"
    inbox,     \* the requests in it
    hands      \* requests and calls the application has taken

vars == <<arrived, owed, engine, events, router, incoming, route, commands, calls,
          dialogs, stream, inbox, hands>>

down == <<engine, events, router, incoming>>
app == <<dialogs, stream, inbox, hands>>

\* An event that is not a request: a response, a transaction that ended or timed
\* out.  Its subscriber reads, is gone, or there is none.
Over == "over"

Kind == {"invite", "info", "bye", "silent", Over}

\* What route_inbound is at: nothing, or room among the commands, the calls or
\* the call's requests is waited for.
Resting == [at |-> "rest", kind |-> Over]

Init ==
    /\ arrived = 0 /\ owed = 0
    /\ engine = <<>> /\ events = <<>> /\ router = <<>> /\ incoming = <<>>
    /\ route = Resting
    /\ commands = <<>> /\ calls = 0
    /\ dialogs = FALSE /\ stream = "none" /\ inbox = 0 /\ hands = 0

\* Fault: try_send, its error ignored.
Sent_OrLost(q, x, room) == IF Len(q) < room THEN {q \o x} ELSE {q}

\* A send: it waits for room.
Sent(q, x, room) == IF Len(q) < room THEN {q \o x} ELSE {}

-----------------------------------------------------------------------------
(* The engine: one task; while it waits to hand up an event it reads neither *)
(* messages nor commands.                                                    *)

Arrive(kind) ==
    /\ engine = <<>>
    /\ arrived < MaxEvents
    /\ arrived' = arrived + 1
    /\ owed' = IF kind = Over THEN owed ELSE owed + 1
    /\ engine' = <<kind>>
    /\ UNCHANGED <<events, router, incoming, route, commands, calls, app>>

HandUp ==
    /\ engine # <<>>
    /\ events' \in Sent(events, engine, EventRoom)
    /\ engine' = <<>>
    /\ UNCHANGED <<arrived, owed, router, incoming, route, commands, calls, app>>

\* Fault: any command ends a transaction.
Ends_Any(command) == TRUE

\* Only a final response may end its transaction at once, which is an event too.
Ends(command) == command = "final"

\* A command is "final", the response that settles a request, or any "other".
TakeCommand ==
    /\ engine = <<>>
    /\ commands # <<>>
    /\ commands' = Tail(commands)
    /\ owed' = IF Head(commands) = "final" THEN owed - 1 ELSE owed
    /\ \/ engine' = engine
       \/ Ends(Head(commands)) /\ engine' = <<Over>>
    /\ UNCHANGED <<arrived, events, router, incoming, route, calls, app>>

-----------------------------------------------------------------------------
(* The router of ua.rs. *)

RouterTakes ==
    /\ router = <<>>
    /\ events # <<>>
    /\ events' = Tail(events)
    /\ router' = IF Head(events) = Over THEN <<>> ELSE <<Head(events)>>
    /\ UNCHANGED <<arrived, owed, engine, incoming, route, commands, calls, app>>

RouterPasses ==
    /\ router # <<>>
    /\ incoming' \in Sent(incoming, router, IncomingRoom)
    /\ router' = <<>>
    /\ UNCHANGED <<arrived, owed, engine, events, route, commands, calls, app>>

-----------------------------------------------------------------------------
(* route_inbound. *)

\* Where a request goes.  The sender of an opted-in call is looked up here,
\* before its channel is waited for.  An ACK is absorbed; what cannot be answered
\* is let go.
Target(kind) ==
    CASE kind = "invite" -> "trying"
      [] kind = "info" -> IF dialogs THEN "handing" ELSE "answering"
      [] kind = "bye" -> "answering"
      [] kind = "silent" -> "rest"

RouteTakes ==
    /\ route.at = "rest"
    /\ incoming # <<>>
    /\ incoming' = Tail(incoming)
    /\ LET kind == Head(incoming)
       IN  IF Target(kind) = "rest"
           THEN route' = Resting /\ owed' = owed - 1
           ELSE route' = [at |-> Target(kind), kind |-> kind] /\ owed' = owed
    /\ UNCHANGED <<arrived, engine, events, router, commands, calls, app>>

\* auto_answer_200.
RouteAnswers ==
    /\ route.at = "answering"
    /\ Len(commands) < CommandRoom
    /\ commands' = Append(commands, "final")
    /\ route' = Resting
    /\ UNCHANGED <<arrived, owed, down, calls, app>>

\* A new call is told 100 Trying, and then queued.
RouteTries ==
    /\ route.at = "trying"
    /\ Len(commands) < CommandRoom
    /\ commands' = Append(commands, "other")
    /\ route' = [route EXCEPT !.at = "calling"]
    /\ UNCHANGED <<arrived, owed, down, calls, app>>

RouteCalls ==
    /\ route.at = "calling"
    /\ calls < CallsRoom
    /\ calls' = calls + 1
    /\ route' = Resting
    /\ UNCHANGED <<arrived, owed, down, commands, app>>

\* Fault: a send that waits does not notice that the receiver goes.
Gone_Unnoticed == FALSE

\* The receiver is gone.
Gone == stream = "closed"

\* The call's channel takes the request, or its receiver is gone: then nobody
\* answers it.
RouteHands ==
    /\ route.at = "handing"
    /\ \/ /\ stream = "open"
          /\ inbox < StreamRoom
          /\ inbox' = inbox + 1
          /\ owed' = owed
       \/ /\ Gone
          /\ owed' = owed - 1
          /\ inbox' = inbox
    /\ route' = Resting
    /\ UNCHANGED <<arrived, down, commands, calls, dialogs, stream, hands>>

-----------------------------------------------------------------------------
(* The application. *)

\* Call::inbound_requests, once per call.
OptIn ==
    /\ stream = "none"
    /\ stream' = "open"
    /\ dialogs' = TRUE
    /\ UNCHANGED <<arrived, owed, down, route, commands, calls, inbox, hands>>

\* The drop of InboundRequests: first out of the registry, then the receiver
\* goes, and with it the requests it still held.
OptOut ==
    /\ dialogs
    /\ dialogs' = FALSE
    /\ UNCHANGED <<arrived, owed, down, route, commands, calls, stream, inbox, hands>>

Close ==
    /\ stream = "open" /\ ~dialogs
    /\ stream' = "closed"
    /\ owed' = owed - inbox
    /\ inbox' = 0
    /\ UNCHANGED <<arrived, down, route, commands, calls, dialogs, hands>>

TakeRequest ==
    /\ inbox > 0
    /\ inbox' = inbox - 1
    /\ hands' = hands + 1
    /\ UNCHANGED <<arrived, owed, down, route, commands, calls, dialogs, stream>>

TakeCall ==
    /\ calls > 0
    /\ calls' = calls - 1
    /\ hands' = hands + 1
    /\ UNCHANGED <<arrived, owed, down, route, commands, dialogs, stream, inbox>>

\* InboundRequest::respond consumes the request; a call is accepted or refused.
Respond ==
    /\ hands > 0
    /\ Len(commands) < CommandRoom
    /\ commands' = Append(commands, "final")
    /\ hands' = hands - 1
    /\ UNCHANGED <<arrived, owed, down, route, calls, dialogs, stream, inbox>>

\* Dropped without an answer, or no answer could be built.
Forget ==
    /\ hands > 0
    /\ hands' = hands - 1
    /\ owed' = owed - 1
    /\ UNCHANGED <<arrived, down, route, commands, calls, dialogs, stream, inbox>>

\* Any flow of the application's own sends commands too.
Own ==
    /\ Len(commands) < CommandRoom
    /\ commands' = Append(commands, "other")
    /\ UNCHANGED <<arrived, owed, down, route, calls, app>>

-----------------------------------------------------------------------------
Next ==
    \/ \E kind \in Kind : Arrive(kind)
    \/ HandUp \/ TakeCommand
    \/ RouterTakes \/ RouterPasses
    \/ RouteTakes \/ RouteAnswers \/ RouteTries \/ RouteCalls \/ RouteHands
    \/ OptIn \/ OptOut \/ Close \/ TakeRequest \/ TakeCall \/ Respond \/ Forget \/ Own

\* Every task is scheduled, tokio's channels serve senders in turn, and the
\* application reads what it asked for and decides.  Once the arrivals stop,
\* the biased select leaves the engine to its commands.
Fairness ==
    /\ WF_vars(HandUp) /\ SF_vars(TakeCommand)
    /\ WF_vars(RouterTakes \/ RouterPasses)
    /\ SF_vars(RouteTakes \/ RouteAnswers \/ RouteTries \/ RouteCalls \/ RouteHands)
    /\ WF_vars(Close) /\ WF_vars(TakeRequest) /\ WF_vars(TakeCall)
    /\ SF_vars(Respond \/ Forget)

Spec == Init /\ [][Next]_vars /\ Fairness

-----------------------------------------------------------------------------
(* Correctness. *)

\* A request that arrived is in one place of the way, and only in one, until it
\* is answered, absorbed, or let go by the application: no channel loses it and
\* no two answers are given to it.
Wanted == Kind \ {Over}

Count(q, S) == Cardinality({i \in DOMAIN q : q[i] \in S})

Rising   == Count(engine, Wanted) + Count(events, Wanted)
Passing  == Count(router, Wanted) + Count(incoming, Wanted)
            + (IF route = Resting THEN 0 ELSE 1)
Held     == calls + inbox + hands
Settling == Count(commands, {"final"})

NoneLost == owed = Rising + Passing + Held + Settling

\* A ring of waits: the engine for the router, the router for route_inbound,
\* and that for the engine.
Jammed ==
    /\ engine # <<>> /\ Len(events) = EventRoom
    /\ router # <<>> /\ Len(incoming) = IncomingRoom
    /\ route.at \in {"trying", "answering"} /\ Len(commands) = CommandRoom

\* The ring cannot close on fewer events than its two channels up hold: commands
\* take room only among the commands, and the end of an answered transaction
\* takes no more than its request did.
JamTakesAll == Jammed => arrived >= EventRoom + IncomingRoom + 3

\* As long as the application reads and decides, every request is settled,
\* unless all channels of the ring were full at once.
Settles == owed > 0 ~> owed = 0 \/ Jammed

=============================================================================
