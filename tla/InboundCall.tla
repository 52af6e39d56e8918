----------------------------- MODULE InboundCall -----------------------------
(***************************************************************************)
(* Inbound calls: the endpoint's router task (route_inbound of endpoint.rs)*)
(* and the application's accept or reject (callee.rs), which share the     *)
(* registry of undecided INVITEs, the registry of established calls and    *)
(* the queue of commands to the engine.  Neither holds a lock across two   *)
(* of its steps, so a CANCEL or a BYE may arrive between any two steps of  *)
(* the application.                                                        *)
(*                                                                         *)
(* The engine appears as the server INVITE transaction sees it: the first  *)
(* final response wins (Transactions has the machine).  The peer is        *)
(* external: it may cancel a call it has heard a provisional response to,  *)
(* and hang up one that was answered.                                      *)
(***************************************************************************)
EXTENDS Naturals, Sequences, SequencesExt

CONSTANTS
    Call,  \* the calls the peer may place, by their INVITE's transaction key
    Room   \* capacity of the channel of new calls

ASSUME InboundAssumption == Room \in Nat \ {0}

VARIABLES
    peer,        \* what the peer knows of each call
    net,         \* its requests under way
    inbox,       \* those the engine has handed up, in order
    router,      \* the router task: its step, and the call it works on
    calls,       \* the channel of new calls
    commands,    \* the answers on their way to the engine, in order
    proceeding,  \* the INVITEs whose transaction awaits a final response
    wire,        \* the responses to each INVITE
    app,         \* the application's dealings with each call
    pending,     \* incoming_invites: the undecided INVITEs
    live,        \* terminations: the established calls
    cancelled,   \* the calls whose `cancelled` token has fired
    terminated   \* the calls whose `terminated` token has fired

vars == <<peer, net, inbox, router, calls, commands, proceeding, wire,
          app, pending, live, cancelled, terminated>>

far    == <<peer, net>>
engine == <<proceeding, wire>>
tokens == <<cancelled, terminated>>

Provisional == {"100", "180"}
Final       == {"200", "486", "487", "488"}

Peer == {"idle", "calling", "proceeding", "cancelling", "talking", "refused",
         "over"}

Request == [method : {"INVITE", "CANCEL", "BYE"}, call : Call]

Command == [call : Call, status : Provisional \cup Final]

\* The steps of route_inbound between which other tasks may run.
Asleep == [step |-> "idle"]

Router == {Asleep} \cup
    [step : {"queueing", "removing", "answering", "notifying", "ending"},
     call : Call]

\* The steps a request takes the router through.
Steps(method) ==
    CASE method = "INVITE" -> {"queueing"}
      [] method = "CANCEL" -> {"removing", "answering", "notifying"}
      [] method = "BYE"    -> {"ending"}

\* "offered" is an IncomingCall in the application's hands, "up" a Call;
\* "accepting", "answered" and "rejecting" are steps inside accept and reject.
\* An "abandoned" INVITE was decided but never answered.
App == {"unseen", "skipped", "offered", "dropped", "accepting", "answered",
        "up", "rejecting", "closed", "abandoned"}

Init ==
    /\ peer = [c \in Call |-> "idle"]
    /\ net = {}
    /\ inbox = <<>>
    /\ router = Asleep
    /\ calls = <<>>
    /\ commands = <<>>
    /\ proceeding = {}
    /\ wire = [c \in Call |-> {}]
    /\ app = [c \in Call |-> "unseen"]
    /\ pending = {}
    /\ live = {}
    /\ cancelled = {}
    /\ terminated = {}

Answer(c, status) ==
    commands' = Append(commands, [call |-> c, status |-> status])

-----------------------------------------------------------------------------
(* The peer, external. *)

Tell(c, state) == peer' = [peer EXCEPT ![c] = state]

Ask(c, method) == net' = net \cup {[method |-> method, call |-> c]}

ours == <<inbox, router, calls, commands, engine, app, pending, live, tokens>>

Place(c) ==
    /\ peer[c] = "idle"
    /\ Tell(c, "calling")
    /\ Ask(c, "INVITE")
    /\ UNCHANGED ours

Hear(c, status) ==
    /\ status \in wire[c]
    /\ \/ status \in Provisional /\ peer[c] = "calling" /\ Tell(c, "proceeding")
       \/ /\ status \in Final
          /\ peer[c] \in {"calling", "proceeding", "cancelling"}
          /\ Tell(c, IF status = "200" THEN "talking" ELSE "refused")
    /\ UNCHANGED <<net, ours>>

GiveUp(c) ==
    /\ peer[c] = "proceeding"
    /\ Tell(c, "cancelling")
    /\ Ask(c, "CANCEL")
    /\ UNCHANGED ours

HangUp(c) ==
    /\ peer[c] = "talking"
    /\ Tell(c, "over")
    /\ Ask(c, "BYE")
    /\ UNCHANGED ours

-----------------------------------------------------------------------------
(* The engine. *)

\* A request arrives; an INVITE opens its server transaction.
Arrive(m) ==
    /\ net' = net \ {m}
    /\ inbox' = Append(inbox, m)
    /\ proceeding' = IF m.method = "INVITE" THEN proceeding \cup {m.call}
                                            ELSE proceeding
    /\ UNCHANGED <<peer, router, calls, commands, wire, app, pending,
                   live, tokens>>

\* Fault: the state of the transaction is not looked at.
Sends_Always(c) == TRUE

\* A server INVITE sends what its TU answers only while Proceeding.
Sends(c) == c \in proceeding

Execute ==
    /\ commands # <<>>
    /\ LET c == Head(commands).call
           status == Head(commands).status
       IN  IF Sends(c)
           THEN /\ wire' = [wire EXCEPT ![c] = @ \cup {status}]
                /\ proceeding' = IF status \in Final THEN proceeding \ {c}
                                                     ELSE proceeding
           ELSE UNCHANGED engine
    /\ commands' = Tail(commands)
    /\ UNCHANGED <<far, inbox, router, calls, app, pending, live, tokens>>

-----------------------------------------------------------------------------
(* route_inbound.  The 200 that answers a CANCEL or a BYE changes nothing   *)
(* but that request's own transaction, and is left out.                     *)

Idle    == router' = Asleep
Turn(s) == router' = [router EXCEPT !.step = s]

\* The router takes the next request: an INVITE is answered 100 at once.
Take ==
    /\ router = Asleep
    /\ inbox # <<>>
    /\ inbox' = Tail(inbox)
    /\ LET m == Head(inbox)
       IN  /\ router' = [call |-> m.call,
                         step |-> CASE m.method = "INVITE" -> "queueing"
                                    [] m.method = "CANCEL" -> "removing"
                                    [] m.method = "BYE"    -> "ending"]
           /\ IF m.method = "INVITE" THEN Answer(m.call, "100")
                                     ELSE UNCHANGED commands
    /\ UNCHANGED <<far, calls, engine, app, pending, live, tokens>>

HasRoom(queue) == Len(queue) < Room

\* calls_tx.send waits for room, and with it every later request.
QueueCall ==
    /\ router.step = "queueing"
    /\ HasRoom(calls)
    /\ calls' = Append(calls, router.call)
    /\ Idle
    /\ UNCHANGED <<far, inbox, commands, engine, app, pending, live, tokens>>

\* A CANCEL takes the INVITE out of the registry, if it is there.
RemovePending ==
    /\ router.step = "removing"
    /\ IF router.call \in pending
       THEN /\ pending' = pending \ {router.call}
            /\ Turn("answering")
       ELSE Idle /\ UNCHANGED pending
    /\ UNCHANGED <<far, inbox, calls, commands, engine, app, live, tokens>>

\* Fault: the application is told, the peer is not.
AnswerCancelled_Silent ==
    /\ router.step = "answering"
    /\ Turn("notifying")
    /\ UNCHANGED <<far, inbox, calls, commands, engine, app, pending, live, tokens>>

\* It answers the INVITE 487 ...
AnswerCancelled ==
    /\ router.step = "answering"
    /\ Answer(router.call, "487")
    /\ Turn("notifying")
    /\ UNCHANGED <<far, inbox, calls, engine, app, pending, live, tokens>>

Notified(c) == cancelled \cup {c}

\* ... and fires the token.
NotifyCancelled ==
    /\ router.step = "notifying"
    /\ cancelled' = Notified(router.call)
    /\ Idle
    /\ UNCHANGED <<far, inbox, calls, commands, engine, app, pending, live,
                   terminated>>

\* A BYE fires the token of the call it names, if there is one.
EndCall ==
    /\ router.step = "ending"
    /\ terminated' = terminated \cup ({router.call} \cap live)
    /\ Idle
    /\ UNCHANGED <<far, inbox, calls, commands, engine, app, pending, live,
                   cancelled>>

-----------------------------------------------------------------------------
(* The application. *)

Becomes(c, stage) == app' = [app EXCEPT ![c] = stage]

\* next_incoming_call: an INVITE whose offer does not parse is skipped.  Between
\* the receive and the registration a CANCEL finds what it finds while the
\* INVITE is still queued, so the two are one step.
NextIncomingCall ==
    /\ calls # <<>>
    /\ calls' = Tail(calls)
    /\ LET c == Head(calls)
       IN  \/ Becomes(c, "skipped") /\ UNCHANGED pending
           \/ Becomes(c, "offered") /\ pending' = pending \cup {c}
    /\ UNCHANGED <<far, inbox, router, commands, engine, live, tokens>>

\* ring; once is enough, since the engine replays it.
Ring(c) ==
    /\ app[c] = "offered"
    /\ "180" \notin wire[c] \cup {commands[i].status : i \in DOMAIN commands}
    /\ Answer(c, "180")
    /\ UNCHANGED <<far, inbox, router, calls, engine, app, pending, live, tokens>>

\* The first statement of accept and of reject.
Decide(c, stage) ==
    /\ app[c] = "offered"
    /\ pending' = pending \ {c}
    /\ Becomes(c, stage)

Accept(c) ==
    /\ Decide(c, "accepting")
    /\ UNCHANGED <<far, inbox, router, calls, commands, engine, live, tokens>>

\* The rest of accept up to its answer: 488 when no codec is in common.
AnswerOffer(c) ==
    /\ app[c] = "accepting"
    /\ \/ Answer(c, "200") /\ Becomes(c, "answered")
       \/ Answer(c, "488") /\ Becomes(c, "closed")
    /\ UNCHANGED <<far, inbox, router, calls, engine, pending, live, tokens>>

\* No RTP socket, or a response that cannot be built: accept returns an error.
AcceptFails(c) ==
    /\ app[c] = "accepting"
    /\ Becomes(c, "abandoned")
    /\ UNCHANGED <<far, inbox, router, calls, commands, engine, pending, live,
                   tokens>>

\* Call::new registers the call for the peer's BYE.
Establish(c) ==
    /\ app[c] = "answered"
    /\ live' = live \cup {c}
    /\ Becomes(c, "up")
    /\ UNCHANGED <<far, inbox, router, calls, commands, engine, pending, tokens>>

\* The 200 is out, but the INVITE lacks what a dialog needs.
EstablishFails(c) ==
    /\ app[c] = "answered"
    /\ Becomes(c, "closed")
    /\ UNCHANGED <<far, inbox, router, calls, commands, engine, pending, live,
                   tokens>>

Reject(c) ==
    /\ Decide(c, "rejecting")
    /\ UNCHANGED <<far, inbox, router, calls, commands, engine, live, tokens>>

\* A status below 300 is refused with an error, after the registry let go.
Refuse(c) ==
    /\ app[c] = "rejecting"
    /\ \/ Answer(c, "486") /\ Becomes(c, "closed")
       \/ UNCHANGED commands /\ Becomes(c, "abandoned")
    /\ UNCHANGED <<far, inbox, router, calls, engine, pending, live, tokens>>

\* An IncomingCall dropped undecided stays in the registry.
DropIncoming(c) ==
    /\ app[c] = "offered"
    /\ Becomes(c, "dropped")
    /\ UNCHANGED <<far, inbox, router, calls, commands, engine, pending, live,
                   tokens>>

\* Drop of a Call.
DropCall(c) ==
    /\ app[c] = "up"
    /\ live' = live \ {c}
    /\ Becomes(c, "closed")
    /\ UNCHANGED <<far, inbox, router, calls, commands, engine, pending, tokens>>

-----------------------------------------------------------------------------
Route ==
    \/ Take
    \/ QueueCall
    \/ RemovePending
    \/ AnswerCancelled
    \/ NotifyCancelled
    \/ EndCall

Next ==
    \/ \E c \in Call : Place(c)
    \/ \E c \in Call : \E status \in wire[c] : Hear(c, status)
    \/ \E c \in Call : GiveUp(c)
    \/ \E c \in Call : HangUp(c)
    \/ \E m \in net : Arrive(m)
    \/ Execute
    \/ Route
    \/ NextIncomingCall
    \/ \E c \in Call : Ring(c)
    \/ \E c \in Call : Accept(c)
    \/ \E c \in Call : AnswerOffer(c)
    \/ \E c \in Call : AcceptFails(c)
    \/ \E c \in Call : Establish(c)
    \/ \E c \in Call : EstablishFails(c)
    \/ \E c \in Call : Reject(c)
    \/ \E c \in Call : Refuse(c)
    \/ \E c \in Call : DropIncoming(c)
    \/ \E c \in Call : DropCall(c)

Spec == Init /\ [][Next]_vars

\* The router and the engine run, accept and reject run to their end once
\* called, and the application keeps asking for the next call.  Nothing
\* makes it decide a call, or makes the peer or the network act.
Fairness ==
    /\ WF_vars(Route)
    /\ WF_vars(Execute)
    /\ WF_vars(NextIncomingCall)
    /\ \A c \in Call : WF_vars(AnswerOffer(c) \/ AcceptFails(c) \/ Establish(c)
                                \/ EstablishFails(c) \/ Refuse(c))

FairSpec == Spec /\ Fairness

-----------------------------------------------------------------------------
(* Correctness. *)

TypeOK ==
    /\ peer \in [Call -> Peer]
    /\ net \subseteq Request
    /\ inbox \in Seq(Request)
    /\ router \in Router
    /\ calls \in Seq(Call) /\ Len(calls) <= Room
    /\ commands \in Seq(Command)
    /\ proceeding \subseteq Call
    /\ wire \in [Call -> SUBSET (Provisional \cup Final)]
    /\ app \in [Call -> App]
    /\ pending \subseteq Call
    /\ live \subseteq Call
    /\ cancelled \subseteq Call
    /\ terminated \subseteq Call

Answered(c) == wire[c] \cap Final # {}

\* No answer to the call is left in the command queue.
Settled(c) == \A i \in DOMAIN commands : commands[i].call # c

\* The router's 487 and the application's own final response race; the peer
\* hears one of them.
OneFinal ==
    \A c \in Call : \A s, t \in wire[c] \cap Final : s = t

\* A fired token tells the truth to an application that has not decided: the
\* peer has been, or is being, told 487 and nothing else.
CancelledTold ==
    \A c \in cancelled :
        app[c] \in {"offered", "dropped"} /\ Settled(c) => wire[c] \cap Final = {"487"}

\* A CANCEL that arrives while its INVITE is in the registry ends it, unless
\* the application's own decision does.
CancelResolves ==
    \A c \in Call :
        c \in pending /\ Contains(inbox, [method |-> "CANCEL", call |-> c])
            ~> Answered(c) \/ app[c] = "abandoned"

\* The peer's request has not been handled to its end.
Underway(c, method) ==
    \/ [method |-> method, call |-> c] \in net
    \/ Contains(inbox, [method |-> method, call |-> c])
    \/ router.step \in Steps(method) /\ router.call = c

\* endpoint.rs, on the registry: "Inbound INVITEs awaiting an accept/reject
\* decision, so a racing CANCEL can terminate them."  An undecided call whose
\* CANCEL has been handled is cancelled.
CancelHeard ==
    \A c \in Call :
        /\ peer[c] = "cancelling" /\ ~Underway(c, "CANCEL")
        /\ app[c] \in {"unseen", "offered"}
        => c \in cancelled

\* caller.rs: "Register for the peer-BYE termination signal up front, so a
\* remote hangup is observable via Call::terminated".  A Call whose BYE has
\* been handled is terminated.
ByeHeard ==
    \A c \in Call :
        peer[c] = "over" /\ ~Underway(c, "BYE") /\ app[c] = "up"
            => c \in terminated

=============================================================================
