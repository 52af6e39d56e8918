------------------------------- MODULE Session -------------------------------
(***************************************************************************)
(* An established call: the application's operations on it (hold, INFO,    *)
(* REFER, hangup: caller.rs) and the session timer's loop                  *)
(* (session_timer.rs), which send their requests on one Dialog behind one  *)
(* mutex and keep the mutex until the request has its final response or    *)
(* has failed.  tokio's mutex serves its waiters in order of arrival.      *)
(*                                                                         *)
(* The engine appears as a client transaction sees it (Engine has the      *)
(* details): a request may time out, except that a re-INVITE which has had *)
(* a provisional response waits for its peer.  The network loses, copies   *)
(* and reorders.  The far end is external; it obeys RFC 3261 section       *)
(* 12.2.2 and ignores a request older than one it has seen.  It, or a proxy *)
(* before it, may refuse any request.                                      *)
(***************************************************************************)
EXTENDS Naturals, Sequences, SessionTimer

CONSTANTS
    Setups,       \* how the call came about: see Setup
    Grants,       \* the intervals the far end may grant in answer to a refresh
    MaxSeq        \* bound on the CSeqs used, a last BYE excepted

Party == {"app", "timer"}

\* What the loop's refreshes carry: no offer, or the SDP the call was set up
\* with, as the doc of session_timer_loop prescribes.
Body == {"none", "setup"}

\* The caller heard `header` in the 2xx, or the callee found `header`, Min-SE
\* and `supports` in the INVITE.
Setup == [role : Refresher, header : Header(Nat), minSE : Nat,
          supports : BOOLEAN, body : Body]

ASSUME SessionAssumption ==
    /\ Setups \subseteq Setup
    /\ Grants \subseteq Nat
    /\ MaxSeq \in Nat

VARIABLES
    mutex,       \* who holds the dialog (the head) and who waits for it
    seq,         \* Dialog's local_seq
    task,        \* each party: its step, and the request it is busy with
    timer,       \* the loop's interval and role
    body,        \* its refresh_body
    outcome,     \* how the loop ended
    cancelled,   \* whether the loop's cancellation token has fired
    held,        \* Call's held flag
    hungUp,      \* whether a hangup has returned Ok
    doubt,       \* whether a hold or resume ended without an answer
    running,     \* whether the engine runs
    sent,        \* the requests sent in the dialog
    ack,         \* the CSeq of the last ACK sent, or 0
    replies,     \* the far end's responses to requests not answered yet
    far          \* the far end

vars == <<mutex, seq, task, timer, body, outcome, cancelled, held, hungUp, doubt,
          running, sent, ack, replies, far>>

dialog == <<mutex, seq>>
loop   == <<timer, body, outcome>>
call   == <<held, hungUp, doubt>>
net    == <<sent, ack, replies>>

\* "info" is send_dtmf_info and both transfers: requests that change nothing.
AppOp  == {"hold", "resume", "info", "hangup"}
LoopOp == {"refresh", "bye"}
Op     == AppOp \cup LoopOp

IsInvite(op) == op \in {"hold", "resume", "refresh"}
IsBye(op)    == op \in {"hangup", "bye"}

\* No party waits for the mutex twice.
Queues == {<<>>, <<"app">>, <<"timer">>, <<"app", "timer">>,
           <<"timer", "app">>}

Request == [by : Party, op : Op, seq : Nat]

\* A 2xx to a refresh may grant an interval; 0 grants none.
Response == [seq : Nat, class : {"1xx", "2xx", "refused"}, grant : Nat]

Task == [step : {"free", "waiting", "awaiting", "ended"},
         op   : Op \cup {"none"},
         seq  : Nat,      \* of its request
         rung : BOOLEAN]  \* whether a provisional response came

Free  == [step |-> "free",  op |-> "none", seq |-> 0, rung |-> FALSE]
Ended == [Free EXCEPT !.step = "ended"]

Awaiting(p) == task[p].step = "awaiting"

Waiting(op) == [Free EXCEPT !.step = "waiting", !.op = op]

\* What we run after the call was set up, and what the far end, which obeys the
\* same RFC, makes of the same 2xx.  A caller that does not support timers (a
\* proxy asked) runs none.
Ours(s) ==
    IF s.role = "uac" THEN NegotiateUac(s.header)
    ELSE UasTimer(NegotiateUas(s.header, s.minSE, s.supports))

Theirs(s) ==
    IF s.role = "uac" THEN UasTimer(s.header)
    ELSE IF s.supports
         THEN NegotiateUac(NegotiateUas(s.header, s.minSE, TRUE))
         ELSE NoTimer

Init ==
    /\ mutex = <<>>
    /\ seq = 0
    /\ \E s \in Setups :
           /\ timer = Ours(s)
           /\ body = s.body
           /\ task = [p \in Party |->
                          IF p = "timer" /\ Ours(s) = NoTimer THEN Ended
                                                              ELSE Free]
           /\ far = [up |-> TRUE, seen |-> 0, offer |-> "setup", ringing |-> 0,
                     timer |-> Theirs(s)]
    /\ outcome = "none"
    /\ cancelled = FALSE
    /\ held = FALSE
    /\ hungUp = FALSE
    /\ doubt = FALSE
    /\ running = TRUE
    /\ sent = {}
    /\ ack = 0
    /\ replies = {}

-----------------------------------------------------------------------------
(* One request on the dialog. *)

\* Fault: the waiter does not wait.
Turn_Any(p) == mutex # <<>>

Turn(p) == mutex # <<>> /\ Head(mutex) = p

NextSeq == seq + 1

Set(p, t) == task' = [task EXCEPT ![p] = t]

Queue(p, op) ==
    /\ Set(p, Waiting(op))
    /\ mutex' = Append(mutex, p)

CanAsk == seq + Len(mutex) < MaxSeq

\* p has the mutex: the dialog numbers the request and the engine sends it.
Start(p) ==
    /\ task[p].step = "waiting"
    /\ Turn(p)
    /\ running
    /\ seq' = NextSeq
    /\ sent' = sent \cup {[by |-> p, op |-> task[p].op, seq |-> NextSeq]}
    /\ Set(p, [task[p] EXCEPT !.step = "awaiting", !.seq = NextSeq])
    /\ UNCHANGED <<mutex, loop, cancelled, call, running, ack, replies, far>>

HearProvisional(p) ==
    /\ Awaiting(p)
    /\ \E r \in replies : r.seq = task[p].seq /\ r.class = "1xx"
    /\ Set(p, [task[p] EXCEPT !.rung = TRUE])
    /\ UNCHANGED <<dialog, loop, cancelled, call, running, net, far>>

-----------------------------------------------------------------------------
(* What a party does with the result of its request, a final response or   *)
(* "none", once it has let go of the mutex.                                *)

\* Fault: the hold state follows the request, not its answer.
Accepted_Any(op, result) == op \in {"hold", "resume"}

Accepted(op, result) == op \in {"hold", "resume"} /\ result = "2xx"

\* Fault: any answer to the BYE is taken for consent.
Gone_Answered(op, result) == op = "hangup" /\ result # "none"

Gone(op, result) == op = "hangup" /\ result = "2xx"

AppReturns(result) ==
    LET op == task["app"].op
    IN  /\ held' = IF Accepted(op, result) THEN op = "hold" ELSE held
        /\ hungUp' = (hungUp \/ Gone(op, result))
        /\ doubt' = CASE Accepted(op, result) -> FALSE
                      [] op \in {"hold", "resume"} /\ result = "none" -> TRUE
                      [] OTHER -> doubt
        /\ Set("app", Free)
        /\ mutex' = Tail(mutex)
        /\ UNCHANGED loop

End(how) ==
    /\ outcome' = how
    /\ Set("timer", Ended)
    /\ mutex' = Tail(mutex)
    /\ UNCHANGED <<timer, body>>

\* Fault: the loop keeps the interval it started with.
Adopt_Never(interval, grant) == interval

\* A refresh may be granted another interval, floored.
Adopt(interval, grant) ==
    IF grant = 0 THEN interval ELSE AtLeastFloor(grant)

\* Fault: the refresh's guard is alive when send_bye locks again.
Relocked_Held == Append(mutex, "timer")

Relocked == Append(Tail(mutex), "timer")

\* What the loop does with it.  A refresh never fails in any other way: the
\* Err arm of the loop is for other implementations of SessionDialogOps.
LoopGoesOn(result, grant) ==
    IF task["timer"].op = "bye"
    THEN End(IF timer.refreshes THEN "RefreshFailed" ELSE "Expired")
    ELSE CASE result = "2xx" ->
                 /\ timer' = [timer EXCEPT !.interval = Adopt(@, grant)]
                 /\ Set("timer", Free)
                 /\ mutex' = Tail(mutex)
                 /\ UNCHANGED <<body, outcome>>
           [] result = "refused" ->
                 /\ Set("timer", Waiting("bye"))
                 /\ mutex' = Relocked
                 /\ UNCHANGED loop
           [] result = "none" -> End("DialogGone")

\* The engine drops what comes for a transaction that has ended.
Return(p, result, grant) ==
    /\ IF p = "app" THEN AppReturns(result)
       ELSE LoopGoesOn(result, grant) /\ UNCHANGED call
    /\ replies' = {r \in replies : r.seq # task[p].seq}
    /\ UNCHANGED <<cancelled, running, sent, far>>

AckSeq(p) == task[p].seq

\* A 2xx to a re-INVITE is acknowledged before the mutex is released.
HearFinal(p) ==
    /\ Awaiting(p)
    /\ \E r \in replies :
           /\ r.seq = task[p].seq /\ r.class # "1xx"
           /\ ack' = IF IsInvite(task[p].op) /\ r.class = "2xx"
                     THEN AckSeq(p) ELSE ack
           /\ Return(p, r.class, r.grant)
    /\ UNCHANGED seq

\* Fault: an INVITE has no timer once it has been sent.
MayTimeOut_NonInvite(t) == ~IsInvite(t.op)

\* Timer B stops with the first provisional response; Timer F does not.
MayTimeOut(t) == ~IsInvite(t.op) \/ ~t.rung

\* The transaction timed out, or the engine stopped under it.
NoAnswer(p) ==
    /\ Awaiting(p)
    /\ MayTimeOut(task[p]) \/ ~running
    /\ Return(p, "none", 0)
    /\ UNCHANGED <<seq, ack>>

\* The engine had stopped before the request could be handed to it.
StartFails(p) ==
    /\ task[p].step = "waiting"
    /\ Turn(p)
    /\ ~running
    /\ seq' = NextSeq
    /\ Return(p, "none", 0)
    /\ UNCHANGED ack

Stop ==
    /\ running
    /\ running' = FALSE
    /\ UNCHANGED <<dialog, task, loop, cancelled, call, net, far>>

-----------------------------------------------------------------------------
(* The application and the loop. *)

Ask(op) ==
    /\ task["app"].step = "free"
    /\ CanAsk
    /\ Queue("app", op)
    /\ UNCHANGED <<seq, loop, cancelled, call, running, net, far>>

\* The token has no other listener, so firing it later changes nothing.
Cancel ==
    /\ ~cancelled
    /\ task["timer"].step # "ended"
    /\ cancelled' = TRUE
    /\ UNCHANGED <<dialog, task, loop, call, running, net, far>>

\* The sleep is over: the refresher refreshes, the watchdog gives up.
Wake ==
    /\ task["timer"].step = "free"
    /\ CanAsk
    /\ Queue("timer", IF timer.refreshes THEN "refresh" ELSE "bye")
    /\ UNCHANGED <<seq, loop, cancelled, call, running, net, far>>

\* Fault: the sleep is not interrupted.
Interrupts_Not == FALSE

Interrupts == cancelled

StandDown ==
    /\ task["timer"].step = "free"
    /\ Interrupts
    /\ outcome' = "Cancelled"
    /\ Set("timer", Ended)
    /\ UNCHANGED <<dialog, timer, body, cancelled, call, running, net, far>>

-----------------------------------------------------------------------------
(* The far end, external. *)

\* Its responses reach only a request still awaiting them: the engine drops the
\* others.
Reply(r, class, grant) ==
    replies' = IF running /\ \E p \in Party : Awaiting(p) /\ task[p].seq = r.seq
               THEN replies \cup {[seq |-> r.seq, class |-> class,
                                   grant |-> grant]}
               ELSE replies

\* Whose offer the far end goes by once it has taken a re-INVITE.  That of a
\* hold is sendonly; all others, the one a refresh repeats included, sendrecv.
OfferAfter(op) == IF op = "refresh" /\ body = "none" THEN far.offer ELSE op

OnHold == far.offer = "hold"

\* It takes a re-INVITE's offer, and may grant a refresh another interval.
Take(r, state) ==
    \E grant \in IF r.op = "refresh" THEN Grants \cup {0} ELSE {0} :
        /\ Reply(r, "2xx", grant)
        /\ far' = [state EXCEPT
                     !.offer = OfferAfter(r.op),
                     !.ringing = 0,
                     !.timer.interval = IF grant = 0 THEN @ ELSE grant]

ours == <<dialog, task, loop, cancelled, call, running, sent, ack>>

FarHears(r) ==
    /\ r.seq > far.seen
    /\ LET state == [far EXCEPT !.seen = r.seq]
       IN  \/ /\ Reply(r, "refused", 0)
              /\ far' = state
           \/ /\ far.up /\ IsBye(r.op)
              /\ Reply(r, "2xx", 0)
              /\ far' = [state EXCEPT !.up = FALSE, !.ringing = 0]
           \/ /\ far.up /\ r.op = "info"
              /\ Reply(r, "2xx", 0)
              /\ far' = state
           \/ /\ far.up /\ IsInvite(r.op) /\ far.ringing = 0
              /\ \/ Take(r, state)
                 \/ /\ Reply(r, "1xx", 0)
                    /\ far' = [state EXCEPT !.ringing = r.seq]
    /\ UNCHANGED ours

\* A re-INVITE it was slow to answer.
FarDecides ==
    /\ far.ringing # 0
    /\ \E r \in sent :
           /\ r.seq = far.ringing
           /\ \/ far.up /\ Take(r, far)
              \/ /\ Reply(r, "refused", 0)
                 /\ far' = [far EXCEPT !.ringing = 0]
    /\ UNCHANGED ours

FarHangsUp ==
    /\ far.up
    /\ far' = [far EXCEPT !.up = FALSE]
    /\ UNCHANGED <<ours, replies>>

-----------------------------------------------------------------------------
Next ==
    \/ \E p \in Party :
           \/ Start(p) \/ StartFails(p)
           \/ HearProvisional(p) \/ HearFinal(p) \/ NoAnswer(p)
    \/ \E op \in AppOp : Ask(op)
    \/ Stop \/ Cancel \/ Wake \/ StandDown
    \/ \E r \in sent : FarHears(r)
    \/ FarDecides \/ FarHangsUp

Spec == Init /\ [][Next]_vars

\* A task that can run does, a request's answer or timeout comes, and the far
\* end decides on a re-INVITE it has rung for.  Nothing else has to happen.
Fairness ==
    /\ \A p \in Party :
           /\ WF_vars(Start(p)) /\ WF_vars(StartFails(p))
           /\ WF_vars(HearFinal(p)) /\ WF_vars(NoAnswer(p))
    /\ WF_vars(StandDown)
    /\ WF_vars(FarDecides)

FairSpec == Spec /\ Fairness

-----------------------------------------------------------------------------
(* Properties *)

TypeOK ==
    /\ mutex \in Queues
    /\ seq \in Nat
    /\ task \in [Party -> Task]
    /\ timer \in [interval : Nat, refreshes : BOOLEAN]
    /\ body \in Body
    /\ outcome \in {"none", "Cancelled", "RefreshFailed", "Expired",
                    "DialogGone"}
    /\ {cancelled, held, hungUp, doubt, running} \subseteq BOOLEAN
    /\ sent \subseteq Request
    /\ ack \in Nat
    /\ replies \subseteq Response
    /\ far \in [up : BOOLEAN, seen : Nat, ringing : Nat,
                offer : {"setup", "hold", "resume", "refresh"},
                timer : [interval : Nat, refreshes : BOOLEAN]]

\* While a party awaits its answer nobody sends another request on the dialog,
\* so the far end has no newer one to refuse it for, and no two requests share
\* a CSeq.
AwaitedIsNewest ==
    /\ \A p \in Party : Awaiting(p) => \A r \in sent : r.seq <= task[p].seq
    /\ \A r1, r2 \in sent : r1.seq = r2.seq => r1 = r2

\* Between two operations `held` is what the far end does, unless a hold or
\* resume was left without an answer.  The exception: a refresh that carries
\* the set-up's SDP, which session_timer.rs calls a no-op, is no no-op on a
\* held call.  From then until the next hold or resume the far end plays on,
\* and no code tells `held`.
HoldAgrees ==
    task["app"].step = "free" /\ ~doubt =>
        \/ held = OnHold
        \/ body = "setup" /\ far.offer = "refresh" /\ held

\* A hangup that returns Ok leaves no call at the far end.
HungUpIsDown == hungUp => ~far.up

\* Exactly one side refreshes, and before the other gives the session up: also
\* after the far end has granted another interval.
RefreshInTime ==
    far.timer # NoTimer /\ task["timer"].step = "free" =>
        /\ timer.refreshes # far.timer.refreshes
        /\ LET first == IF timer.refreshes THEN timer ELSE far.timer
               other == IF timer.refreshes THEN far.timer ELSE timer
           IN  RefreshAfter(first.interval) < ExpiryAfter(other.interval)

\* An operation of the application, and the loop's, comes to an end.
Busy(p) == task[p].step \in {"waiting", "awaiting"}
RequestsEnd == \A p \in Party : Busy(p) ~> ~Busy(p)

\* A loop told to stop stops.
LoopStops == cancelled ~> task["timer"].step = "ended"

\* session_timer.rs: the loop "never returns early without standing the session
\* down"; DialogGone: "it already terminated through another path".
StandsDown ==
    outcome \notin {"none", "Cancelled"} =>
        \/ \E r \in sent : r.by = "timer" /\ IsBye(r.op)
        \/ ~far.up
        \/ ~running

=============================================================================
