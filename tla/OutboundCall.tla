---------------------------- MODULE OutboundCall ----------------------------
(***************************************************************************)
(* One outbound call: Caller::dial and the INVITE flow under it            *)
(* (Ua::call_cancellable), from the first INVITE to the Call or the error, *)
(* with its cancellation token and its progress channel.                   *)
(*                                                                         *)
(* The engine appears as the client INVITE machine and the flow's channel  *)
(* (Transactions and Engine have the details).  The network loses, copies  *)
(* and reorders.  The peer, with whatever proxies are before it, is        *)
(* external.                                                               *)
(***************************************************************************)
EXTENDS Naturals, Sequences

CONSTANTS
    FlowRoom,     \* capacity of the flow's event channel (16 in the code)
    ProgressRoom  \* capacity of the progress channel (the application's)

ASSUME OutboundAssumption ==
    /\ FlowRoom \in Nat \ {0}
    /\ ProgressRoom \in Nat \ {0}

VARIABLES
    step,      \* the dialling task
    attempt,   \* which INVITE it is at, which is also that INVITE's CSeq
    flags,     \* of await_final_cancellable, anew for each INVITE
    outcome,   \* of the dial
    token,     \* whether the cancellation token has fired
    progress,  \* statuses in the progress channel
    listener,  \* whether the application asked for progress and still listens
    running,   \* whether the engine runs
    tx,        \* each INVITE's client transaction
    flow,      \* events for the current INVITE, in order
    cancels,   \* CANCELs sent for each INVITE
    ack,       \* the CSeq of the ACK sent for a 2xx, or 0
    peer,      \* what the peer has made of each INVITE
    wire       \* its responses to each INVITE

vars == <<step, attempt, flags, outcome, token, progress, listener, running,
          tx, flow, cancels, ack, peer, wire>>

task    == <<step, attempt, flags, outcome>>
channel == <<progress, listener>>
engine  == <<running, tx, flow>>
sent    == <<cancels, ack>>
far     == <<peer, wire>>

\* An INVITE, and one more in answer to a challenge.
Attempt == 1 .. 2

Provisional == {"100", "180"}

\* A 2xx may lack what a dialog needs, or a usable SDP answer.
Success == {"2xx", "2xx bad SDP", "2xx no dialog"}
Failure == {"challenge", "487", "refused"}
Status  == Provisional \cup Success \cup Failure
Event   == Status \cup {"timeout"}

Outcome == {"none", "Answered", "BadSdp", "Rejected", "Unauthorized",
            "TimedOut", "EngineStopped"}

Flags == [requested : BOOLEAN, sent : BOOLEAN, seen : BOOLEAN]

NoFlags == [requested |-> FALSE, sent |-> FALSE, seen |-> FALSE]

Init ==
    /\ step = "starting"
    /\ attempt = 1
    /\ flags = NoFlags
    /\ outcome = "none"
    /\ token = FALSE
    /\ progress = 0
    /\ listener \in BOOLEAN
    /\ running = TRUE
    /\ tx = [a \in Attempt |-> "none"]
    /\ flow = <<>>
    /\ cancels = [a \in Attempt |-> 0]
    /\ ack = 0
    /\ peer = [a \in Attempt |-> "unheard"]
    /\ wire = [a \in Attempt |-> {}]

-----------------------------------------------------------------------------
(* The dialling task. *)

Finish(how) == step' = "over" /\ outcome' = how

\* Fault: the flags outlive the INVITE they are about.
FirstFlags_Kept == flags

FirstFlags == NoFlags

\* The INVITE is handed to the engine, unless that has stopped.
StartInvite ==
    /\ step = "starting"
    /\ IF running
       THEN /\ tx' = [tx EXCEPT ![attempt] = "calling"]
            /\ step' = "awaiting"
            /\ UNCHANGED outcome
       ELSE Finish("EngineStopped") /\ UNCHANGED tx
    /\ flags' = FirstFlags
    /\ flow' = <<>>
    /\ UNCHANGED <<attempt, token, channel, running, sent, far>>

\* A CANCEL goes out once it is asked for and a provisional has been seen.
CancelDue(f) == f.requested /\ f.seen /\ ~f.sent

\* The flags become f, and the CANCEL that is then due is sent.
Note(f) ==
    /\ flags' = [f EXCEPT !.sent = @ \/ CancelDue(f)]
    /\ cancels' = IF CancelDue(f) /\ running
                  THEN [cancels EXCEPT ![attempt] = @ + 1] ELSE cancels

\* Fault: a provisional is only reported; a CANCEL asked for before is forgotten.
OnProvisional_NoCancel ==
    /\ flags' = [flags EXCEPT !.seen = TRUE]
    /\ UNCHANGED cancels

OnProvisional == Note([flags EXCEPT !.seen = TRUE])

OnCancelled == Note([flags EXCEPT !.requested = TRUE])

NextEvent(events) ==
    /\ step = "awaiting"
    /\ flow # <<>>
    /\ Head(flow) \in events
    /\ flow' = Tail(flow)

HearProvisional ==
    /\ NextEvent(Provisional)
    /\ step' = "informing"
    /\ UNCHANGED <<attempt, flags, outcome, token, channel, running, tx, sent,
                   far>>

\* The progress send waits for room; if nobody listens there is
\* nothing to wait for.
Informs == progress < ProgressRoom \/ ~listener

\* Nothing else is watched while the status is being sent.
Inform ==
    /\ step = "informing"
    /\ Informs
    /\ progress' = IF listener THEN progress + 1 ELSE progress
    /\ OnProvisional
    /\ step' = "awaiting"
    /\ UNCHANGED <<attempt, outcome, token, listener, engine, ack, far>>

NoticeCancel ==
    /\ step = "awaiting"
    /\ token
    /\ ~flags.requested
    /\ OnCancelled
    /\ UNCHANGED <<step, attempt, outcome, token, channel, engine, ack, far>>

\* Fault: the ACK is sent before it is known whether there is a dialog.
Confirms_Any(status) == status \in Success

\* A 2xx that makes a dialog is acknowledged, before its SDP is looked at.
Confirms(status) == status \in Success \ {"2xx no dialog"}

Verdict(status) ==
    CASE status = "2xx"           -> "Answered"
      [] status = "2xx bad SDP"   -> "BadSdp"
      [] status = "challenge"     -> "Unauthorized"
      [] status = "timeout"       -> "TimedOut"
      [] OTHER                    -> "Rejected"

\* A final response, or the timeout, ends the dial.
HearFinal ==
    /\ NextEvent(Event \ Provisional)
    /\ LET status == Head(flow)
       IN  /\ ack' = IF Confirms(status) /\ running THEN attempt ELSE ack
           /\ Finish(Verdict(status))
    /\ UNCHANGED <<attempt, flags, token, channel, running, tx, cancels, far>>

\* The first challenge is answered with a new INVITE, if it can be built (when
\* it cannot, HearFinal ends the dial).
Retry ==
    /\ NextEvent({"challenge"})
    /\ attempt = 1
    /\ attempt' = 2
    /\ step' = "starting"
    /\ UNCHANGED <<flags, outcome, token, channel, running, tx, sent, far>>

\* The engine stopped: the flow's channel is closed once it is empty.
FlowClosed ==
    /\ step = "awaiting"
    /\ ~running
    /\ flow = <<>>
    /\ Finish("TimedOut")
    /\ UNCHANGED <<attempt, flags, token, channel, engine, sent, far>>

-----------------------------------------------------------------------------
(* The application. *)

FireToken ==
    /\ ~token
    /\ token' = TRUE
    /\ UNCHANGED <<task, channel, engine, sent, far>>

TakeProgress ==
    /\ listener
    /\ progress > 0
    /\ progress' = progress - 1
    /\ UNCHANGED <<task, token, listener, engine, sent, far>>

StopListening ==
    /\ listener
    /\ listener' = FALSE
    /\ progress' = 0
    /\ UNCHANGED <<task, token, engine, sent, far>>

Shutdown ==
    /\ running
    /\ running' = FALSE
    /\ UNCHANGED <<task, token, channel, tx, flow, sent, far>>

-----------------------------------------------------------------------------
(* The engine and the router. *)

Open(a) == tx[a] \in {"calling", "proceeding"}

\* An event reaches the flow when its channel has room; it ends the transaction
\* unless it is a provisional.
Deliver(event) ==
    /\ running
    /\ Open(attempt)
    /\ Len(flow) < FlowRoom
    /\ flow' = Append(flow, event)
    /\ tx' = [tx EXCEPT ![attempt] =
                 IF event \in Provisional THEN "proceeding" ELSE "closed"]
    /\ UNCHANGED <<task, token, channel, running, sent, far>>

Receive == \E status \in wire[attempt] : Deliver(status)

\* Timer B stops with the first provisional.
TimerB == tx[attempt] = "calling" /\ Deliver("timeout")

-----------------------------------------------------------------------------
(* The peer, external. *)

Responds(a, state, status) ==
    /\ tx[a] # "none"
    /\ peer' = [peer EXCEPT ![a] = state]
    /\ wire' = [wire EXCEPT ![a] = @ \cup {status}]
    /\ UNCHANGED <<task, token, channel, engine, sent>>

Undecided(a) == peer[a] \in {"unheard", "ringing"}

PeerRings(a) ==
    Undecided(a) /\ \E s \in Provisional : Responds(a, "ringing", s)

PeerAnswers(a) ==
    Undecided(a) /\ \E s \in Success : Responds(a, "answered", s)

PeerRefuses(a) ==
    /\ Undecided(a)
    /\ \E s \in {"challenge", "refused"} : Responds(a, "refused", s)

\* It has the INVITE and has not answered: the INVITE ends with 487.
PeerCancels(a) ==
    cancels[a] > 0 /\ peer[a] = "ringing" /\ Responds(a, "refused", "487")

Becomes(a, state) ==
    /\ peer' = [peer EXCEPT ![a] = state]
    /\ UNCHANGED <<task, token, channel, engine, sent, wire>>

PeerConfirmed(a) == ack = a /\ peer[a] = "answered" /\ Becomes(a, "up")

\* No ACK came: it gives the call up (RFC 3261 section 13.3.1.4).
PeerDrops(a) == peer[a] = "answered" /\ Becomes(a, "dropped")

-----------------------------------------------------------------------------
Next ==
    \/ StartInvite \/ HearProvisional \/ Inform \/ NoticeCancel
    \/ HearFinal \/ Retry \/ FlowClosed
    \/ FireToken \/ TakeProgress \/ StopListening \/ Shutdown
    \/ Receive \/ TimerB
    \/ \E a \in Attempt :
           \/ PeerRings(a) \/ PeerAnswers(a) \/ PeerRefuses(a)
           \/ PeerCancels(a) \/ PeerConfirmed(a) \/ PeerDrops(a)

Spec == Init /\ [][Next]_vars

\* The dialling task runs; the application reads its progress; timer B fires;
\* the peer heeds a CANCEL, and a final response it repeats gets through.
\* Nothing obliges it to answer otherwise.
ReceiveFinal ==
    \E status \in wire[attempt] \ Provisional : Deliver(status)

Fairness ==
    /\ WF_vars(StartInvite) /\ WF_vars(HearProvisional) /\ WF_vars(Inform)
    /\ WF_vars(HearFinal \/ Retry) /\ WF_vars(FlowClosed)
    /\ SF_vars(NoticeCancel)
    /\ WF_vars(TakeProgress)
    /\ WF_vars(TimerB)
    /\ SF_vars(ReceiveFinal)
    /\ \A a \in Attempt : WF_vars(PeerCancels(a))

FairSpec == Spec /\ Fairness

-----------------------------------------------------------------------------
(* Properties *)

TypeOK ==
    /\ step \in {"starting", "awaiting", "informing", "over"}
    /\ attempt \in Attempt
    /\ flags \in Flags
    /\ outcome \in Outcome
    /\ {token, listener, running} \subseteq BOOLEAN
    /\ progress \in 0 .. ProgressRoom
    /\ tx \in [Attempt -> {"none", "calling", "proceeding", "closed"}]
    /\ flow \in Seq(Event) /\ Len(flow) <= FlowRoom
    /\ cancels \in [Attempt -> Nat]
    /\ ack \in {0} \cup Attempt
    /\ peer \in [Attempt -> {"unheard", "ringing", "answered", "refused", "up",
                             "dropped"}]
    /\ wire \in [Attempt -> SUBSET Status]

\* A CANCEL is sent at most once for an INVITE, and only after the peer has sent
\* a provisional response to that INVITE and not just to an earlier one
\* (RFC 3261 section 9.1).
CancelFits ==
    \A a \in Attempt :
        cancels[a] > 0 => cancels[a] = 1 /\ wire[a] \cap Provisional # {}

\* A call the peer has had confirmed is in the caller's hands when the dial is
\* over, unless its SDP was of no use; and the ACK has its INVITE's number.
ConfirmedIsKept ==
    /\ ack # 0 => wire[ack] \cap Success # {}
    /\ ack # 0 /\ step = "over" => outcome \in {"Answered", "BadSdp"}
    /\ outcome = "Answered" /\ running => ack = attempt

\* A dial that is cancelled ends, at whatever point the token fires: before the
\* first provisional, while a status is being reported, or between a challenge
\* and its retry.
CancelEnds == token ~> step = "over"

=============================================================================
