------------------------------ MODULE Registrar ------------------------------
(***************************************************************************)
(* registrar.rs over the REGISTER flows of stack/ua.rs: a registration     *)
(* whose state (the last CSeq, the registrar's minimum lifetime, what was  *)
(* granted) is shared by every task that registers, queries or             *)
(* unregisters with it.  The state's mutex is held for one step at a time, *)
(* never while a REGISTER is on the wire, so the steps of the tasks        *)
(* interleave.                                                             *)
(*                                                                         *)
(* The far end is external: a registrar that may challenge, refuse a       *)
(* lifetime below its minimum, grant or fail; requests reach it in any     *)
(* order, late or never, and its answers may be too late for the client.   *)
(* It names the lifetime it grants in `Expires` or in the Contact it       *)
(* returns, as RFC 3261 section 10.3 lets it.                              *)
(***************************************************************************)
EXTENDS Naturals, Sequences

CONSTANTS
    Task,        \* the tasks that use the registrar
    Keepalive,   \* the one that runs keepalive_loop
    Overlap,     \* whether a task may start while another is busy
    Configured,  \* the lifetime the application asked for
    Floor,       \* the minimum lifetimes the far end may insist on
    Lifetime,    \* the lifetimes it may grant
    None,        \* Option::None
    MaxOps       \* bound: operations started by each task

ASSUME RegistrarAssumption ==
    /\ Overlap \in BOOLEAN
    /\ Configured \in Nat
    /\ Floor \subseteq Nat
    /\ Lifetime \subseteq Nat
    /\ None \notin Nat
    /\ MaxOps \in [Task -> Nat]

VARIABLES
    state,      \* State: cseq, min_expires, negotiated_expires
    task,       \* what each task is doing
    cancelled,  \* the keepalive's cancellation token
    up,         \* whether the engine runs
    sent,       \* the REGISTERs put on the wire, in order
    flight,     \* those the far end has not handled
    answers,    \* the final responses on their way to a waiting task
    far,        \* its binding, the highest CSeq it accepted, what that REGISTER
                \* asked for and whether `Expires` named what it was granted
    ops,        \* how many operations each task has started
    settled,    \* history: the last operation to end, and how
    refusals    \* history: registrations refused for a floor already known

vars == <<state, task, cancelled, up, sent, flight, answers, far, ops, settled,
          refusals>>

local  == <<cancelled, up, ops, settled, refusals>>
remote == <<sent, flight, answers, far>>

Op == {"register", "unregister", "probe"}

Outcome == {"Pending", "Registered", "Unauthorized", "IntervalTooBrief", "Failed",
            "TimedOut", "EngineStopped"}

Step == {"idle", "sleeping", "stopped",
         "attempting", "sending", "awaiting", "carrying", "settling"}

\* `cseq` is the number of the REGISTER last built, `id` its place in `sent`,
\* `tries` counts those sent for one operation.
Activity ==
    [op : Op, step : Step, requested : Nat, retried : BOOLEAN,
     challenged : BOOLEAN, cseq : Nat, id : Nat, outcome : Outcome,
     value : Nat, tries : Nat]

Idle == [op |-> "probe", step |-> "idle", requested |-> 0, retried |-> FALSE,
         challenged |-> FALSE, cseq |-> 0, id |-> 0, outcome |-> "Pending",
         value |-> 0, tries |-> 0]

Busy(t) == task[t].step \notin {"idle", "sleeping", "stopped"}
Quiet   == \A t \in Task : ~Busy(t)

Greatest(a, b) == IF a >= b THEN a ELSE b

Init ==
    /\ state = [cseq |-> 0, floor |-> None, negotiated |-> None]
    /\ task = [t \in Task |-> Idle]
    /\ cancelled = FALSE
    /\ up = TRUE
    /\ sent = <<>>
    /\ flight = {}
    /\ answers = {}
    /\ far = [binding |-> 0, seen |-> 0, asked |-> 0, named |-> TRUE]
    /\ ops = [t \in Task |-> 0]
    /\ settled = [op |-> "probe", outcome |-> "Pending"]
    /\ refusals = 0

-----------------------------------------------------------------------------
(* The operations of Registrar, and their attempts. *)

\* Fault: the floor is not remembered.
RequestedExpires_Forgets(floor) == Configured

\* requested_expires: the configured lifetime, raised to a known floor.
RequestedExpires(floor) ==
    IF floor = None THEN Configured ELSE Greatest(Configured, floor)

\* Fault: an unregister is retried at the minimum like any registration.
MayRetry_Unregister(requested, min, retried) == ~retried /\ min > requested

\* retry_expires is Some.
MayRetry(requested, min, retried) ==
    ~retried /\ requested # 0 /\ min > requested

Asked(op) ==
    CASE op = "register"   -> RequestedExpires(state.floor)
      [] op = "unregister" -> 0
      [] op = "probe"      -> Configured

\* register, unregister and probe; the keepalive only registers.
Begin(t, op) ==
    /\ ops[t] < MaxOps[t]
    /\ IF t = Keepalive
       THEN op = "register" /\ task[t].step \in {"idle", "sleeping"}
       ELSE task[t].step = "idle"
    /\ Overlap \/ Quiet
    /\ task' = [task EXCEPT ![t] = [Idle EXCEPT !.op = op, !.step = "attempting",
                                                !.requested = Asked(op)]]
    /\ ops' = [ops EXCEPT ![t] = @ + 1]
    /\ UNCHANGED <<state, cancelled, up, settled, refusals, remote>>

\* The first lock of attempt and of probe.
TakeCSeq(t) ==
    /\ task[t].step = "attempting"
    /\ state' = [state EXCEPT !.cseq = @ + 1]
    /\ task' = [task EXCEPT ![t] = [@ EXCEPT !.step = "sending",
                                             !.cseq = state.cseq + 1,
                                             !.challenged = FALSE]]
    /\ UNCHANGED <<local, remote>>

\* The end of an operation: the keepalive sleeps, unless its token has fired.
Rest(t) ==
    CASE t # Keepalive              -> "idle"
      [] t = Keepalive /\ cancelled -> "stopped"
      [] OTHER                      -> "sleeping"

\* Where a flow of ua.rs returns to; a query's result is not recorded.
Return(t) == IF task[t].op = "probe" THEN "idle" ELSE "carrying"

Report(t, outcome, value) ==
    task' = [task EXCEPT ![t] = [@ EXCEPT !.step = Return(t), !.outcome = outcome,
                                          !.value = value]]

\* build_register, or build_register_query for a probe, which then has neither
\* Contact nor lifetime; its credentials are build_retry's.
Built(t) == [task |-> t, op |-> task[t].op, cseq |-> task[t].cseq,
             expires |-> task[t].requested, credentials |-> task[t].challenged]

\* start_client, which fails once the engine has stopped.
Send(t) ==
    /\ task[t].step = "sending"
    /\ \/ /\ up
          /\ sent' = Append(sent, Built(t))
          /\ flight' = flight \cup {Len(sent) + 1}
          /\ task' = [task EXCEPT ![t] = [@ EXCEPT !.step = "awaiting",
                                                   !.id = Len(sent) + 1,
                                                   !.tries = task[t].tries + 1]]
          /\ UNCHANGED <<answers, far>>
       \/ /\ ~up
          /\ Report(t, "EngineStopped", 0)
          /\ UNCHANGED remote
    /\ UNCHANGED <<state, local>>

\* build_retry: the same request at the next CSeq, with credentials.
Retry(t) ==
    task' = [task EXCEPT ![t] = [@ EXCEPT !.step = "sending",
                                          !.cseq = task[t].cseq + 1,
                                          !.challenged = TRUE]]

\* The transaction is over: a later response to it is dropped.
Forget(t) ==
    /\ answers' = {a \in answers : a.id # task[t].id}
    /\ UNCHANGED <<sent, flight, far>>

\* The final response of the REGISTER the task waits for.
Receive(t, a) ==
    /\ task[t].step = "awaiting"
    /\ a.id = task[t].id
    /\ CASE a.status = "challenge" /\ task[t].op # "probe"
                                   /\ ~task[t].challenged -> Retry(t)
         [] a.status = "ok" -> Report(t, "Registered", a.expires)
         [] a.status = "brief" -> Report(t, "IntervalTooBrief", a.expires)
         [] a.status = "failed" -> Report(t, "Failed", 0)
         [] OTHER -> Report(t, "Unauthorized", 0)
    /\ Forget(t)
    /\ UNCHANGED <<state, local>>

\* The transaction timed out.
TimeOut(t) ==
    /\ up
    /\ task[t].step = "awaiting"
    /\ Report(t, "TimedOut", 0)
    /\ Forget(t)
    /\ UNCHANGED <<state, local>>

\* Fault: the flow's channel outlives the engine.
Disconnected_Unnoticed(t) == FALSE /\ UNCHANGED vars

\* await_final finds its channel closed, the engine having stopped: reported
\* as a timeout all the same.
Disconnected(t) ==
    /\ ~up
    /\ task[t].step = "awaiting"
    /\ Report(t, "TimedOut", 0)
    /\ Forget(t)
    /\ UNCHANGED <<state, local>>

\* Fault: the number the challenge's retry took is not carried forward.
Carried_Own(own, wire) == own

\* The second lock of attempt: the wire's number is carried forward.
Carried(own, wire) == Greatest(own, wire)

Carry(t) ==
    /\ task[t].step = "carrying"
    /\ state' = [state EXCEPT !.cseq = Carried(@, task[t].cseq)]
    /\ task' = [task EXCEPT ![t].step = "settling"]
    /\ UNCHANGED <<local, remote>>

\* The registration ends: what the state keeps of its outcome.
Conclude(t) ==
    /\ task' = [task EXCEPT ![t].step = Rest(t)]
    /\ settled' = [op |-> task[t].op, outcome |-> task[t].outcome]

\* Fault: what was asked for is taken for granted.
Granted_AsAsked(t) == task[t].requested

\* granted_expires, falling back on what was asked for.
Granted(t) == IF task[t].value = 0 THEN task[t].requested ELSE task[t].value

KnownFloor(min) == state.floor # None /\ min <= state.floor

\* register_with's match on the outcome, under its own lock.
Settle(t) ==
    /\ task[t].step = "settling"
    /\ LET outcome == task[t].outcome
           min     == task[t].value
       IN  \/ /\ outcome = "Registered"
              /\ state' = [state EXCEPT !.negotiated = Granted(t)]
              /\ Conclude(t)
              /\ UNCHANGED refusals
           \/ /\ outcome = "IntervalTooBrief"
              /\ state' = [state EXCEPT !.floor = min]
              /\ IF MayRetry(task[t].requested, min, task[t].retried)
                 THEN /\ task' = [task EXCEPT ![t] =
                                   [@ EXCEPT !.step = "attempting",
                                             !.requested = min,
                                             !.retried = TRUE]]
                      /\ UNCHANGED settled
                 ELSE Conclude(t)
              /\ refusals' = IF task[t].op = "register" /\ KnownFloor(min)
                             THEN refusals + 1
                             ELSE refusals
           \/ /\ outcome \notin {"Registered", "IntervalTooBrief"}
              /\ Conclude(t)
              /\ UNCHANGED <<state, refusals>>
    /\ UNCHANGED <<cancelled, up, ops, remote>>

\* The application cancels the keepalive; a sleeping loop then ends.
Cancel ==
    /\ ~cancelled
    /\ cancelled' = TRUE
    /\ UNCHANGED <<state, task, up, ops, settled, refusals, remote>>

\* Fault: the sleep is not interrupted by the token.
StopKeepalive_Deaf == FALSE /\ UNCHANGED vars

StopKeepalive ==
    /\ cancelled
    /\ task[Keepalive].step = "sleeping"
    /\ task' = [task EXCEPT ![Keepalive].step = "stopped"]
    /\ UNCHANGED <<state, local, remote>>

\* The endpoint is shut down, or its stream connection is lost.
StopEngine ==
    /\ up
    /\ up' = FALSE
    /\ UNCHANGED <<state, task, cancelled, ops, settled, refusals, remote>>

-----------------------------------------------------------------------------
(* The far end, external.  It answers a request it has not seen before, and *)
(* accepts a binding only with a CSeq above the last one it accepted.       *)

Reply(n, status, expires) ==
    /\ flight' = flight \ {n}
    /\ answers' = answers \cup
           {[id |-> n, status |-> status, expires |-> expires] :
               t \in {u \in Task : task[u].step = "awaiting" /\ task[u].id = n}}
    /\ UNCHANGED <<state, task, local, sent>>

Refuse(n) ==
    /\ \E status \in {"challenge", "unanswerable", "failed"} : Reply(n, status, 0)
    /\ UNCHANGED far

AnswerQuery(n) ==
    /\ sent[n].op = "probe"
    /\ Reply(n, "ok", 0)
    /\ UNCHANGED far

TooBrief(n, min) ==
    /\ sent[n].op # "probe"
    /\ sent[n].expires < min
    /\ Reply(n, "brief", min)
    /\ UNCHANGED far

\* The 200 names the lifetime in `Expires`, or only in the `expires` parameter
\* of its Contact, which the client does not read.
Bind(n, granted, named) ==
    /\ sent[n].op # "probe"
    /\ sent[n].cseq > far.seen
    /\ granted <= sent[n].expires
    /\ granted = 0 => sent[n].expires = 0
    /\ far' = [binding |-> granted, seen |-> sent[n].cseq,
               asked |-> sent[n].expires, named |-> named]
    /\ Reply(n, "ok", IF named THEN granted ELSE 0)

Next ==
    \/ \E t \in Task, op \in Op : Begin(t, op)
    \/ \E t \in Task : TakeCSeq(t)
    \/ \E t \in Task : Send(t)
    \/ \E t \in Task : \E a \in answers : Receive(t, a)
    \/ \E t \in Task : TimeOut(t)
    \/ \E t \in Task : Disconnected(t)
    \/ \E t \in Task : Carry(t)
    \/ \E t \in Task : Settle(t)
    \/ Cancel
    \/ StopKeepalive
    \/ StopEngine
    \/ \E n \in flight : Refuse(n)
    \/ \E n \in flight : AnswerQuery(n)
    \/ \E n \in flight, min \in Floor : TooBrief(n, min)
    \/ \E n \in flight, granted \in Lifetime \cup {0}, named \in BOOLEAN :
           Bind(n, granted, named)

Spec == Init /\ [][Next]_vars

\* A task runs when it can, and no transaction waits for ever (Engine's
\* EveryWaitEnds: Timer F ends every REGISTER).
Runs(t) ==
    \/ TakeCSeq(t)
    \/ Send(t)
    \/ \E a \in answers : Receive(t, a)
    \/ TimeOut(t)
    \/ Disconnected(t)
    \/ Carry(t)
    \/ Settle(t)

Fairness ==
    /\ \A t \in Task : WF_vars(Runs(t))
    /\ WF_vars(StopKeepalive)

FairSpec == Spec /\ Fairness

-----------------------------------------------------------------------------
(* Correctness. *)

TypeOK ==
    /\ state \in [cseq : Nat, floor : Nat \cup {None},
                  negotiated : Nat \cup {None}]
    /\ task \in [Task -> Activity]
    /\ cancelled \in BOOLEAN
    /\ up \in BOOLEAN
    /\ sent \in Seq([task : Task, op : Op, cseq : Nat, expires : Nat,
                     credentials : BOOLEAN])
    /\ flight \subseteq DOMAIN sent
    /\ answers \subseteq [id : Nat, expires : Nat,
                          status : {"ok", "challenge", "unanswerable", "brief",
                                    "failed"}]
    /\ far \in [binding : Nat, seen : Nat, asked : Nat, named : BOOLEAN]
    /\ ops \in [Task -> Nat]
    /\ settled \in [op : Op, outcome : Outcome]
    /\ refusals \in Nat

\* registrar.rs, on the CSeq of a refresh: "RFC 3261 section 10.2 forbids
\* reusing a CSeq within one Call-ID".  Each REGISTER, challenge retries and
\* queries included, carries a larger number than all before it.
FreshCSeq ==
    \A i, j \in DOMAIN sent : i < j => sent[i].cseq < sent[j].cseq

\* After a registration that succeeded, with nothing under way, the state holds
\* the lifetime the registrar keeps the binding for, whatever arrived late or
\* was lost: registration.rs calls it "the server granted this lifetime".  The
\* exception: granted_expires reads `Expires` alone, so a lifetime named only
\* in the Contact is taken to be the one asked for, and may be shorter.
InSync ==
    Quiet /\ settled.outcome = "Registered" =>
        state.negotiated = IF far.named THEN far.binding ELSE far.asked

\* An unregister that succeeded leaves no binding: no retry of it, and no late
\* REGISTER, brings one back.
UnregisterSticks ==
    Quiet /\ settled = [op |-> "unregister", outcome |-> "Registered"]
        => far.binding = 0

\* One operation sends at most four REGISTERs, two lifetimes with each
\* challenged once ("rather than spinning us"), and none is refused for a
\* minimum the state had learnt before: "that floor is remembered so later
\* refreshes ask for it outright".
RetriesBounded == refusals = 0 /\ \A t \in Task : task[t].tries <= 4

\* Every operation ends, whatever the far end does.
OperationsEnd == \A t \in Task : Busy(t) ~> ~Busy(t)

\* A keepalive loop that runs ends once its token has fired.
KeepaliveStops ==
    cancelled /\ task[Keepalive].step # "idle"
        ~> task[Keepalive].step = "stopped"

=============================================================================
