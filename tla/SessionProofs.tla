---------------------------- MODULE SessionProofs ----------------------------
(***************************************************************************)
(* Proofs about SessionTimer and Session.                                  *)
(***************************************************************************)
EXTENDS Session, SequenceTheorems, TLAPS

(* The negotiated timer. *)

\* The refresher acts before the other side gives up, whatever the interval.
THEOREM RefreshBeforeExpiry ==
    ASSUME NEW interval \in Nat, interval >= Floor
    PROVE  RefreshAfter(interval) < ExpiryAfter(interval)
BY DEF Floor, Headroom, RefreshAfter, ExpiryAfter, Smaller

\* The two sides of the 2xx as it was sent: one refreshes, and they agree on
\* the interval.
Complementary(a, b) ==
    a.refreshes # b.refreshes /\ a.interval = b.interval

\* What the callee offers in its 2xx is read by a caller that supports timers
\* as the callee reads it, with the roles exchanged, and is never below the
\* floor.
THEOREM CalleeNegotiates ==
    ASSUME NEW header \in Header(Nat), NEW minSE \in Nat, header # NoHeader,
           NEW supports \in BOOLEAN
    PROVE  LET echo == NegotiateUas(header, minSE, supports)
           IN  /\ Complementary(UasTimer(echo), NegotiateUac(echo))
               /\ UasTimer(echo).interval >= Floor
<1> DEFINE echo == NegotiateUas(header, minSE, supports)
<1>1. /\ echo.interval \in Nat /\ echo.interval >= Floor
      /\ echo.refresher \in Refresher
  BY DEF NegotiateUas, Header, Refresher, Larger, AtLeastFloor, Floor
<1>2. echo # NoHeader
  BY <1>1 DEF NoHeader, Floor
<1> HIDE DEF echo
<1>3. /\ UasTimer(echo) = [interval |-> echo.interval,
                           refreshes |-> echo.refresher = "uas"]
      /\ NegotiateUac(echo) = [interval |-> echo.interval,
                               refreshes |-> echo.refresher # "uas"]
  BY <1>1, <1>2 DEF UasTimer, NegotiateUac, AtLeastFloor, Larger, Floor
<1> QED BY <1>1, <1>3 DEF Complementary, echo

-----------------------------------------------------------------------------
(* Types, and the order of the waiters.                                    *)
(*                                                                         *)
(* TypeOK is not inductive: a party that queued twice, or let go of a mutex *)
(* another holds, would leave Queues.  Lock ties the queue to the parties' *)
(* steps.                                                                  *)

OpsOf(p) == IF p = "app" THEN AppOp ELSE LoopOp

Lock ==
    /\ \/ mutex = <<>> /\ ~Busy("app") /\ ~Busy("timer")
       \/ mutex = <<"app">> /\ Busy("app") /\ ~Busy("timer")
       \/ mutex = <<"timer">> /\ ~Busy("app") /\ Busy("timer")
       \/ mutex = <<"app", "timer">> /\ Busy("app") /\ Busy("timer")
       \/ mutex = <<"timer", "app">> /\ Busy("app") /\ Busy("timer")
    /\ \A p \in Party : Awaiting(p) => Turn(p)
    /\ \A p \in Party : Busy(p) => task[p].op \in OpsOf(p)

Result == {"2xx", "refused", "none"}

Typed == TypeOK /\ Lock

LEMMA QueueAlgebra ==
    /\ Append(<<>>, "app") = <<"app">> /\ Append(<<>>, "timer") = <<"timer">>
    /\ Append(<<"timer">>, "app") = <<"timer", "app">>
    /\ Append(<<"app">>, "timer") = <<"app", "timer">>
    /\ Tail(<<"app">>) = <<>> /\ Tail(<<"timer">>) = <<>>
    /\ Tail(<<"app", "timer">>) = <<"timer">>
    /\ Tail(<<"timer", "app">>) = <<"app">>
    /\ Head(<<"app">>) = "app" /\ Head(<<"timer">>) = "timer"
    /\ Head(<<"app", "timer">>) = "app" /\ Head(<<"timer", "app">>) = "timer"
    /\ <<"app">> # <<>> /\ <<"timer">> # <<>>
    /\ <<"app", "timer">> # <<>> /\ <<"timer", "app">> # <<>>
<1>1. \A x \in Party : /\ Append(<<>>, x) = <<x>> /\ Tail(<<x>>) = <<>>
                       /\ Head(<<x>>) = x /\ <<x>> # <<>>
  BY DEF Party
<1>2. \A x, y \in Party : /\ Tail(<<x, y>>) = <<y>> /\ Head(<<x, y>>) = x
                          /\ <<x, y>> # <<>>
  BY DEF Party
<1>3. ASSUME NEW x \in Party, NEW y \in Party
      PROVE  Append(<<x>>, y) = <<x, y>>
  <2>1. /\ <<x>> \in Seq(Party) /\ Len(<<x>>) = 1
        /\ <<x, y>> \in Seq(Party) /\ Len(<<x, y>>) = 2
    OBVIOUS
  <2>2. /\ Append(<<x>>, y) \in Seq(Party) /\ Len(Append(<<x>>, y)) = 2
        /\ Append(<<x>>, y)[1] = x /\ Append(<<x>>, y)[2] = y
    BY <2>1, AppendProperties
  <2>3. \A i \in 1..2 : Append(<<x>>, y)[i] = <<x, y>>[i]
    BY <2>2
  <2> QED BY <2>1, <2>2, <2>3, SeqEqual
<1>4. "app" \in Party /\ "timer" \in Party
  BY DEF Party
<1> QED BY <1>1, <1>2, <1>3, <1>4

LEMMA TasksTyped ==
    /\ Free \in Task /\ Ended \in Task
    /\ \A op \in Op : Waiting(op) \in Task
BY DEF Free, Ended, Waiting, Task, Op

\* The others' tasks are left alone.
LEMMA SetStep ==
    ASSUME TypeOK, NEW p \in Party, NEW t \in Task, Set(p, t)
    PROVE  /\ task' \in [Party -> Task]
           /\ task'[p] = t
           /\ \A q \in Party : q # p => task'[q] = task[q]
BY DEF TypeOK, Set

LEMMA Parties == \A p \in Party : p = "app" \/ p = "timer"
BY DEF Party

LEMMA QueueStep ==
    ASSUME Typed, NEW p \in Party, NEW op \in OpsOf(p), task[p].step = "free",
           Queue(p, op)
    PROVE  /\ task' \in [Party -> Task] /\ mutex' \in Queues /\ Lock'
           /\ \A q \in Party : Awaiting(q)' => task'[q] = task[q]
<1>1. /\ task' \in [Party -> Task]
      /\ task'[p] = Waiting(op)
      /\ \A q \in Party : q # p => task'[q] = task[q]
  BY TasksTyped, SetStep DEF Queue, Typed, OpsOf, Op
<1>2. Waiting(op).step = "waiting" /\ Waiting(op).op = op
  BY DEF Waiting, Free
<1>3. \A q \in Party : Awaiting(q)' => q # p /\ task'[q] = task[q]
  BY <1>1, <1>2 DEF Awaiting
<1>4. ~Busy(p) /\ Busy(p)' /\ \A q \in Party : q # p => (Busy(q)' <=> Busy(q))
  BY <1>1, <1>2 DEF Busy
<1>5. mutex' = Append(mutex, p)
  BY DEF Queue
<1>9. \A q \in Party : Busy(q)' => task'[q].op \in OpsOf(q)
  BY <1>1, <1>2, <1>4 DEF Typed, Lock
<1>6. \A q \in Party : Awaiting(q) => mutex # <<>> /\ Head(mutex) = q
  BY DEF Typed, Lock, Turn
<1>7. CASE p = "app"
  <2>1. \/ mutex = <<>> /\ ~Busy("timer")
        \/ mutex = <<"timer">> /\ Busy("timer")
    BY <1>4, <1>7 DEF Typed, Lock
  <2>2. /\ Busy("app")' /\ (Busy("timer")' <=> Busy("timer"))
        /\ mutex' = Append(mutex, "app")
    BY <1>4, <1>5, <1>7 DEF Party
  <2>3. \/ mutex' = <<"app">> /\ ~Busy("timer")'
        \/ mutex' = <<"timer", "app">> /\ Busy("timer")'
    BY <2>1, <2>2, QueueAlgebra
  <2>4. ASSUME NEW q \in Party, Awaiting(q)' PROVE Turn(q)'
    <3>1. q = "timer" /\ Awaiting(q)
      BY <1>3, <1>7, <2>4, Parties DEF Awaiting
    <3>2. mutex = <<"timer">>
      BY <1>6, <2>1, <3>1
    <3>3. mutex' = <<"timer", "app">>
      BY <2>2, <3>2, QueueAlgebra
    <3> QED BY <3>1, <3>3, QueueAlgebra DEF Turn
  <2> QED BY <1>1, <1>3, <1>9, <2>2, <2>3, <2>4 DEF Lock, Queues
<1>8. CASE p = "timer"
  <2>1. \/ mutex = <<>> /\ ~Busy("app")
        \/ mutex = <<"app">> /\ Busy("app")
    BY <1>4, <1>8 DEF Typed, Lock
  <2>2. /\ Busy("timer")' /\ (Busy("app")' <=> Busy("app"))
        /\ mutex' = Append(mutex, "timer")
    BY <1>4, <1>5, <1>8 DEF Party
  <2>3. \/ mutex' = <<"timer">> /\ ~Busy("app")'
        \/ mutex' = <<"app", "timer">> /\ Busy("app")'
    BY <2>1, <2>2, QueueAlgebra
  <2>4. ASSUME NEW q \in Party, Awaiting(q)' PROVE Turn(q)'
    <3>1. q = "app" /\ Awaiting(q)
      BY <1>3, <1>8, <2>4, Parties DEF Awaiting
    <3>2. mutex = <<"app">>
      BY <1>6, <2>1, <3>1
    <3>3. mutex' = <<"app", "timer">>
      BY <2>2, <3>2, QueueAlgebra
    <3> QED BY <3>1, <3>3, QueueAlgebra DEF Turn
  <2> QED BY <1>1, <1>3, <1>9, <2>2, <2>3, <2>4 DEF Lock, Queues
<1> QED BY <1>7, <1>8, Parties

\* Who is at the head lets go of the mutex, or queues again behind the other.
LEMMA ReleaseStep ==
    ASSUME Typed, NEW p \in Party, Busy(p), Turn(p), NEW t \in Task, Set(p, t),
           \/ t.step \in {"free", "ended"} /\ mutex' = Tail(mutex)
           \/ /\ t.step = "waiting" /\ t.op = "bye" /\ p = "timer"
              /\ mutex' = Relocked
    PROVE  /\ task' \in [Party -> Task] /\ mutex' \in Queues /\ Lock'
           /\ task'[p] = t
           /\ \A q \in Party : q # p => task'[q] = task[q]
           /\ \A q \in Party : ~Awaiting(q)'
<1>1. /\ task' \in [Party -> Task]
      /\ task'[p] = t
      /\ \A q \in Party : q # p => task'[q] = task[q]
  BY SetStep DEF Typed
<1>2. \A q \in Party : ~Awaiting(q)'
  <2>1. ~Awaiting(p)'
    BY <1>1 DEF Awaiting
  <2>2. \A q \in Party : q # p => ~Awaiting(q)
    BY DEF Typed, Lock, Turn
  <2> QED BY <1>1, <2>1, <2>2 DEF Awaiting
<1>3. \A q \in Party : q # p => (Busy(q)' <=> Busy(q))
  BY <1>1 DEF Busy
<1>4. Busy(p)' <=> t.step = "waiting"
  BY <1>1 DEF Busy
<1>8. \A q \in Party : Busy(q)' => task'[q].op \in OpsOf(q)
  <2>1. Busy(p)' => task'[p].op \in OpsOf(p)
    BY <1>1, <1>4 DEF OpsOf, LoopOp
  <2> QED BY <1>1, <1>3, <2>1 DEF Typed, Lock
<1>5. Head(mutex) = p /\ mutex # <<>>
  BY DEF Turn
<1>6. CASE p = "app"
  <2>1. \/ mutex = <<"app">> /\ ~Busy("timer")
        \/ mutex = <<"app", "timer">> /\ Busy("timer")
    BY <1>5, <1>6, QueueAlgebra DEF Typed, Lock
  <2>2. /\ mutex' = Tail(mutex) /\ ~Busy("app")'
        /\ (Busy("timer")' <=> Busy("timer"))
    BY <1>3, <1>4, <1>6 DEF Party
  <2>3. \/ mutex' = <<>> /\ ~Busy("timer")'
        \/ mutex' = <<"timer">> /\ Busy("timer")'
    BY <2>1, <2>2, QueueAlgebra
  <2> QED BY <1>1, <1>2, <1>8, <2>2, <2>3 DEF Lock, Queues
<1>7. CASE p = "timer"
  <2>1. \/ mutex = <<"timer">> /\ ~Busy("app")
        \/ mutex = <<"timer", "app">> /\ Busy("app")
    BY <1>5, <1>7, QueueAlgebra DEF Typed, Lock
  <2>2. Busy("app")' <=> Busy("app")
    BY <1>3, <1>7 DEF Party
  <2>3. CASE t.step \in {"free", "ended"} /\ mutex' = Tail(mutex)
    <3>1. ~Busy("timer")'
      BY <1>4, <1>7, <2>3
    <3>2. \/ mutex' = <<>> /\ ~Busy("app")'
          \/ mutex' = <<"app">> /\ Busy("app")'
      BY <2>1, <2>2, <2>3, QueueAlgebra
    <3> QED BY <1>1, <1>2, <1>8, <3>1, <3>2 DEF Lock, Queues
  <2>4. CASE t.step = "waiting" /\ mutex' = Relocked
    <3>1. Busy("timer")'
      BY <1>4, <1>7, <2>4
    <3>2. mutex' = Append(Tail(mutex), "timer")
      BY <2>4 DEF Relocked
    <3>3. \/ mutex' = <<"timer">> /\ ~Busy("app")'
          \/ mutex' = <<"app", "timer">> /\ Busy("app")'
      BY <2>1, <2>2, <3>2, QueueAlgebra
    <3> QED BY <1>1, <1>2, <1>8, <3>1, <3>3 DEF Lock, Queues
  <2> QED BY <2>3, <2>4
<1> QED BY <1>6, <1>7, Parties

LEMMA FlagsTyped ==
    TypeOK => /\ cancelled \in BOOLEAN /\ held \in BOOLEAN /\ hungUp \in BOOLEAN
              /\ doubt \in BOOLEAN /\ running \in BOOLEAN
BY DEF TypeOK

TimerType == [interval : Nat, refreshes : BOOLEAN]

\* What a request's end changes, for either party.
LEMMA ReturnStep ==
    ASSUME Typed, NEW p \in Party, Busy(p), Turn(p),
           NEW result \in Result, NEW grant \in Nat, Return(p, result, grant)
    PROVE  /\ task' \in [Party -> Task] /\ mutex' \in Queues /\ Lock'
           /\ timer' \in TimerType
           /\ outcome' \in {"none", "Cancelled", "RefreshFailed", "Expired",
                            "DialogGone"}
           /\ held' \in BOOLEAN /\ hungUp' \in BOOLEAN /\ doubt' \in BOOLEAN
           /\ replies' \subseteq replies
           /\ UNCHANGED <<cancelled, running, sent, far>>
           /\ \A q \in Party : ~Awaiting(q)'
           /\ \A q \in Party : q # p => task'[q] = task[q]
<1>0. /\ timer \in TimerType /\ task \in [Party -> Task]
      /\ outcome \in {"none", "Cancelled", "RefreshFailed", "Expired",
                      "DialogGone"}
  BY DEF Typed, TypeOK, TimerType
<1>1. replies' \subseteq replies /\ UNCHANGED <<cancelled, running, sent, far>>
  BY DEF Return
<1>2. CASE p = "app"
  <2>1. AppReturns(result)
    BY <1>2 DEF Return
  <2>2. Set(p, Free) /\ mutex' = Tail(mutex) /\ UNCHANGED loop
    BY <1>2, <2>1 DEF AppReturns
  <2>3. held' \in BOOLEAN /\ hungUp' \in BOOLEAN /\ doubt' \in BOOLEAN
    <3>1. held \in BOOLEAN /\ hungUp \in BOOLEAN /\ doubt \in BOOLEAN
      BY FlagsTyped DEF Typed
    <3>2. held' \in BOOLEAN
      BY <2>1, <3>1 DEF AppReturns
    <3>3. hungUp' \in BOOLEAN
      BY <2>1, <3>1 DEF AppReturns
    <3>4. doubt' \in {FALSE, TRUE, doubt}
      BY <2>1 DEF AppReturns
    <3> QED BY <3>1, <3>2, <3>3, <3>4
  <2>4. Free \in Task /\ Free.step = "free"
    BY TasksTyped DEF Free
  <2>5. UNCHANGED <<timer, outcome>>
    BY <2>2 DEF loop
  <2> QED BY <1>0, <1>1, <2>2, <2>3, <2>4, <2>5, ReleaseStep
<1>3. CASE p = "timer"
  <2>1. LoopGoesOn(result, grant) /\ UNCHANGED call
    BY <1>3 DEF Return
  <2>2. held' \in BOOLEAN /\ hungUp' \in BOOLEAN /\ doubt' \in BOOLEAN
    BY <2>1, FlagsTyped DEF Typed, call
  <2>3. ASSUME NEW how \in {"RefreshFailed", "Expired", "DialogGone"}, End(how)
        PROVE  /\ Set("timer", Ended) /\ mutex' = Tail(mutex)
               /\ timer' = timer /\ outcome' = how
    BY <2>3 DEF End
  <2>4. Ended \in Task /\ Ended.step = "ended" /\ Free \in Task
        /\ Free.step = "free"
        /\ Waiting("bye") \in Task /\ Waiting("bye").step = "waiting"
        /\ Waiting("bye").op = "bye"
    BY TasksTyped DEF Free, Ended, Waiting, Op, LoopOp
  <2>5. CASE \E how \in {"RefreshFailed", "Expired", "DialogGone"} : End(how)
    BY <1>0, <1>1, <1>3, <2>2, <2>3, <2>4, <2>5, ReleaseStep
  <2>6. CASE /\ timer' = [timer EXCEPT !.interval = Adopt(@, grant)]
             /\ Set("timer", Free)
             /\ mutex' = Tail(mutex)
             /\ UNCHANGED outcome
    <3>1. Adopt(timer.interval, grant) \in Nat
      BY <1>0 DEF TimerType, Adopt, AtLeastFloor, Larger, Floor
    <3> DEFINE i == Adopt(timer.interval, grant)
    <3>2. timer' = [timer EXCEPT !.interval = i] /\ i \in Nat
      BY <1>0, <2>6, <3>1 DEF TimerType
    <3> HIDE DEF i
    <3>3. timer' \in TimerType
      BY <1>0, <3>2 DEF TimerType
    <3> QED BY <1>0, <1>1, <1>3, <2>2, <2>4, <2>6, <3>3, ReleaseStep
  <2>7. CASE /\ Set("timer", Waiting("bye"))
             /\ mutex' = Relocked
             /\ UNCHANGED loop
    <3>1. UNCHANGED <<timer, outcome>>
      BY <2>7 DEF loop
    <3> QED BY <1>0, <1>1, <1>3, <2>2, <2>4, <2>7, <3>1, ReleaseStep
  <2> QED BY <2>1, <2>5, <2>6, <2>7 DEF LoopGoesOn, Result
<1> QED BY <1>2, <1>3, Parties

LEMMA AwaitingBusy ==
    ASSUME Typed, NEW p \in Party, Awaiting(p)
    PROVE  Busy(p) /\ Turn(p) /\ task[p] \in Task /\ task[p].seq \in Nat
<1>1. task[p] \in Task
  BY DEF Typed, TypeOK
<1> QED BY <1>1 DEF Typed, Lock, Awaiting, Busy, Task

\* A step of one party's own, which keeps the queue.
LEMMA OwnStep ==
    ASSUME Typed, NEW p \in Party, Busy(p), Turn(p), mutex' = mutex,
           NEW t \in Task, Set(p, t), t.step = "awaiting", t.op = task[p].op
    PROVE  task' \in [Party -> Task] /\ Lock'
<1>1. /\ task' \in [Party -> Task]
      /\ task'[p] = t
      /\ \A q \in Party : q # p => task'[q] = task[q]
  BY SetStep DEF Typed
<1>2. \A q \in Party : Busy(q)' <=> Busy(q)
  BY <1>1 DEF Busy
<1>3. \A q \in Party : Awaiting(q)' => Turn(q)'
  BY <1>1 DEF Awaiting, Turn, Typed, Lock
<1>4. "app" \in Party /\ "timer" \in Party
  BY DEF Party
<1>5. \A q \in Party : task'[q].op = task[q].op
  BY <1>1
<1> QED BY <1>1, <1>2, <1>3, <1>4, <1>5 DEF Typed, Lock

LEMMA SameLock ==
    ASSUME Typed, task' = task, mutex' = mutex
    PROVE  Lock'
BY DEF Typed, Lock, Awaiting, Busy, Turn

LEMMA ReplyTyped ==
    ASSUME TypeOK, NEW r \in Request, NEW class \in {"1xx", "2xx", "refused"},
           NEW grant \in Nat, Reply(r, class, grant)
    PROVE  /\ replies' \subseteq Response
           /\ \A q \in replies' : q \in replies \/ q.seq = r.seq
<1>1. [seq |-> r.seq, class |-> class, grant |-> grant] \in Response
  BY DEF Request, Response
<1> QED BY <1>1 DEF Reply, TypeOK

OfferOf == {"setup", "hold", "resume", "refresh"}

FarType == [up : BOOLEAN, seen : Nat, ringing : Nat, offer : OfferOf,
            timer : TimerType]

LEMMA OfferTyped ==
    ASSUME TypeOK, NEW r \in Request, IsInvite(r.op)
    PROVE  OfferAfter(r.op) \in OfferOf
BY DEF OfferAfter, IsInvite, TypeOK, OfferOf

LEMMA TakeTyped ==
    ASSUME TypeOK, NEW r \in Request, IsInvite(r.op), NEW state \in FarType,
           Take(r, state)
    PROVE  /\ replies' \subseteq Response /\ far' \in FarType
           /\ \A q \in replies' : q \in replies \/ q.seq = r.seq
           /\ far'.seen = state.seen /\ far'.ringing = 0
<1>1. PICK grant \in (IF r.op = "refresh" THEN Grants \cup {0} ELSE {0}) :
        /\ Reply(r, "2xx", grant)
        /\ far' = [state EXCEPT
                     !.offer = OfferAfter(r.op),
                     !.ringing = 0,
                     !.timer.interval = IF grant = 0 THEN @ ELSE grant]
  BY DEF Take
<1>2. grant \in Nat
  BY SessionAssumption
<1> DEFINE i == IF grant = 0 THEN state.timer.interval ELSE grant
           h == OfferAfter(r.op)
<1>3. /\ i \in Nat /\ h \in OfferOf
      /\ far' = [state EXCEPT !.offer = h, !.ringing = 0, !.timer.interval = i]
  BY <1>1, <1>2, OfferTyped DEF FarType, TimerType
<1> HIDE DEF i, h
<1>4. far' \in FarType /\ far'.seen = state.seen /\ far'.ringing = 0
  BY <1>3 DEF FarType, TimerType
<1>5. /\ replies' \subseteq Response
      /\ \A q \in replies' : q \in replies \/ q.seq = r.seq
  BY <1>1, <1>2, ReplyTyped
<1> QED BY <1>4, <1>5

-----------------------------------------------------------------------------
(* The numbers.                                                            *)
(*                                                                         *)
(* What is awaited carries the dialog's number, so nothing newer was sent; *)
(* the next request takes the next number.  That the request the far end   *)
(* rings for is a re-INVITE follows only because no two share a number.    *)

Carries(p) ==
    /\ task[p].seq = seq
    /\ \E r \in sent : r.seq = seq /\ r.op = task[p].op

Numbered ==
    /\ \A p \in Party : Awaiting(p) => Carries(p)
    /\ \A r \in sent : r.seq > 0 /\ r.seq <= seq
    /\ \A r1, r2 \in sent : r1.seq = r2.seq => r1 = r2
    /\ far.ringing <= far.seen /\ far.seen <= seq
    /\ \A r \in sent : r.seq = far.ringing => IsInvite(r.op)
    /\ \A q \in replies : q.seq <= seq

Inv == Typed /\ Numbered

LEMMA ReturnKeepsBody ==
    ASSUME NEW p, NEW result \in Result, NEW grant, Return(p, result, grant)
    PROVE  body' = body
<1>1. CASE p = "app"
  BY <1>1 DEF Return, AppReturns, loop
<1>2. CASE p # "app"
  <2>1. LoopGoesOn(result, grant)
    BY <1>2 DEF Return
  <2>2. ASSUME NEW how, End(how) PROVE body' = body
    BY <2>2 DEF End
  <2> QED BY <2>1, <2>2 DEF LoopGoesOn, Result, loop
<1> QED BY <1>1, <1>2

\* The caller's choice of refresh body is made once.
LEMMA BodyFixed ==
    ASSUME replies \subseteq Response, [Next]_vars
    PROVE  body' = body
<1>1. ASSUME NEW p \in Party, Start(p) \/ HearProvisional(p) PROVE body' = body
  BY <1>1 DEF Start, HearProvisional, loop
<1>2. ASSUME NEW p \in Party, StartFails(p) \/ HearFinal(p) \/ NoAnswer(p)
      PROVE  body' = body
  <2>1. CASE StartFails(p) \/ NoAnswer(p)
    BY <2>1, ReturnKeepsBody DEF StartFails, NoAnswer, Result
  <2>2. CASE HearFinal(p)
    <3>1. PICK r \in replies : r.class # "1xx" /\ Return(p, r.class, r.grant)
      BY <2>2 DEF HearFinal
    <3>2. r.class \in Result
      BY <3>1 DEF Response, Result
    <3> QED BY <3>1, <3>2, ReturnKeepsBody
  <2> QED BY <1>2, <2>1, <2>2
<1>3. CASE \/ \E op \in AppOp : Ask(op)
           \/ Stop \/ Cancel \/ Wake \/ StandDown
  BY <1>3 DEF Ask, Stop, Cancel, Wake, StandDown, loop
<1>4. CASE (\E r \in sent : FarHears(r)) \/ FarDecides \/ FarHangsUp
  BY <1>4 DEF FarHears, FarDecides, FarHangsUp, ours, loop
<1>5. CASE UNCHANGED vars
  BY <1>5 DEF vars
<1> QED BY <1>1, <1>2, <1>3, <1>4, <1>5 DEF Next

LEMMA InvStep == Inv /\ [Next]_vars => Inv'
<1> SUFFICES ASSUME Inv, [Next]_vars PROVE Inv'
  OBVIOUS
<1>a. TypeOK /\ Lock /\ Typed /\ Numbered
  BY DEF Inv, Typed
<1>b. /\ task \in [Party -> Task] /\ seq \in Nat /\ sent \subseteq Request
      /\ replies \subseteq Response /\ far \in FarType /\ mutex \in Queues
      /\ timer \in TimerType /\ body' \in Body
  BY <1>a, BodyFixed DEF TypeOK, FarType, OfferOf, TimerType
<1>c. \A r \in sent : r \in Request /\ r.seq \in Nat /\ r.op \in Op
  BY <1>b DEF Request
\* The dialog and the far end stand still, and nobody starts to wait.
<1>d. ASSUME UNCHANGED <<sent, far>>, seq' \in Nat, seq' >= seq,
             replies' \subseteq replies,
             \A p \in Party : Awaiting(p)' => Carries(p)'
      PROVE  Numbered'
  <2>1. /\ far.seen \in Nat /\ far.ringing \in Nat
        /\ \A q \in replies : q.seq \in Nat
    BY <1>b DEF FarType, Response
  <2>2. \A r \in sent : r.seq <= seq'
    BY <1>a, <1>b, <1>c, <1>d DEF Numbered
  <2>3. \A q \in replies' : q.seq <= seq'
    BY <1>a, <1>b, <1>d, <2>1 DEF Numbered
  <2>4. far.seen <= seq'
    BY <1>a, <1>b, <1>d, <2>1 DEF Numbered
  <2> QED BY <1>a, <1>d, <2>2, <2>3, <2>4 DEF Numbered
<1>1. ASSUME NEW p \in Party, Start(p) PROVE Inv'
  <2> DEFINE n == seq + 1
             r == [by |-> p, op |-> task[p].op, seq |-> n]
             t == [task[p] EXCEPT !.step = "awaiting", !.seq = n]
  <2>1. /\ seq' = n /\ sent' = sent \cup {r} /\ Set(p, t)
        /\ mutex' = mutex
        /\ UNCHANGED <<loop, cancelled, call, running, ack, replies, far>>
        /\ task[p].step = "waiting" /\ Turn(p)
    BY <1>1 DEF Start, NextSeq
  <2>2. n \in Nat /\ n > seq /\ task[p] \in Task /\ r.seq = n
    BY <1>b
  <2>3. r \in Request
    <3>1. task[p].op \in Op
      BY <1>a, <2>1 DEF Lock, Busy, OpsOf, Op
    <3> QED BY <2>2, <3>1 DEF Request
  <2> HIDE DEF n
  <2>4. t \in Task /\ t.step = "awaiting" /\ t.seq = n /\ t.op = task[p].op
    BY <2>2 DEF Task
  <2> HIDE DEF r, t
  <2>5. Busy(p)
    BY <2>1 DEF Busy
  <2>6. task' \in [Party -> Task] /\ Lock'
    BY <1>a, <2>1, <2>4, <2>5, OwnStep
  <2>7. TypeOK'
    BY <1>a, <1>b, <2>1, <2>2, <2>3, <2>6 DEF TypeOK, loop, call
  <2>8. \A q \in Party : Awaiting(q)' => Carries(q)'
    <3>1. /\ task'[p] = t
          /\ \A q \in Party : q # p => task'[q] = task[q]
      BY <1>a, <2>1, <2>4, SetStep
    <3>2. \A q \in Party : q # p => ~Awaiting(q)
      BY <1>a, <2>1 DEF Lock, Turn
    <3>3. r.op = task[p].op /\ r \in sent'
      BY <2>1 DEF r
    <3> QED BY <2>1, <2>2, <2>4, <3>1, <3>2, <3>3 DEF Awaiting, Carries
  <2>9. Numbered'
    <3>1. /\ far.seen \in Nat /\ far.ringing \in Nat
          /\ \A q \in replies : q.seq \in Nat
      BY <1>b DEF FarType, Response
    <3>2. \A s \in sent : s.seq > 0 /\ s.seq < n
      BY <1>a, <1>b, <1>c, <2>2 DEF Numbered
    <3>3. /\ \A s \in sent' : s.seq > 0 /\ s.seq <= seq'
          /\ \A s1, s2 \in sent' : s1.seq = s2.seq => s1 = s2
      <4>1. \A s \in sent' : s = r \/ s \in sent
        BY <2>1
      <4>2. \A s \in sent' : s.seq > 0 /\ s.seq <= n
        BY <1>b, <1>c, <2>2, <3>2, <4>1
      <4>3. \A s \in sent : s.seq # r.seq
        BY <1>c, <2>2, <3>2
      <4>4. \A s1, s2 \in sent : s1.seq = s2.seq => s1 = s2
        BY <1>a DEF Numbered
      <4> QED BY <2>1, <4>1, <4>2, <4>3, <4>4
    <3>4. far.ringing < n /\ far.seen <= n
      BY <1>a, <1>b, <2>2, <3>1 DEF Numbered
    <3>5. \A s \in sent' : s.seq = far.ringing => IsInvite(s.op)
      BY <1>a, <2>1, <2>2, <3>1, <3>4 DEF Numbered
    <3>6. \A q \in replies : q.seq <= n
      BY <1>a, <1>b, <2>2, <3>1 DEF Numbered
    <3> QED BY <1>a, <2>1, <2>8, <3>3, <3>4, <3>5, <3>6 DEF Numbered
  <2> QED BY <2>6, <2>7, <2>9 DEF Inv, Typed
\* A request comes to its end.
<1>2. ASSUME NEW p \in Party, NEW result \in Result, NEW grant \in Nat,
             Busy(p), Turn(p), Return(p, result, grant),
             seq' \in Nat, seq' >= seq, ack' \in Nat
      PROVE  Inv'
  <2>1. /\ task' \in [Party -> Task] /\ mutex' \in Queues /\ Lock'
        /\ timer' \in TimerType
        /\ outcome' \in {"none", "Cancelled", "RefreshFailed", "Expired",
                         "DialogGone"}
        /\ held' \in BOOLEAN /\ hungUp' \in BOOLEAN /\ doubt' \in BOOLEAN
        /\ replies' \subseteq replies
        /\ UNCHANGED <<cancelled, running, sent, far>>
        /\ \A q \in Party : ~Awaiting(q)'
    BY <1>2, <1>a, ReturnStep
  <2>2. TypeOK'
    <3>1. {cancelled', held', hungUp', doubt', running'} \subseteq BOOLEAN
      BY <1>a, <2>1, FlagsTyped
    <3> QED BY <1>a, <1>b, <1>2, <2>1, <3>1 DEF TypeOK, TimerType
  <2>3. Numbered'
    BY <1>d, <1>2, <2>1
  <2> QED BY <2>1, <2>2, <2>3 DEF Inv, Typed
<1>3. ASSUME NEW p \in Party, StartFails(p) PROVE Inv'
  BY <1>a, <1>b, <1>2, <1>3 DEF StartFails, NextSeq, Busy, Result, TypeOK
<1>4. ASSUME NEW p \in Party, NoAnswer(p) PROVE Inv'
  BY <1>a, <1>b, <1>2, <1>4, AwaitingBusy DEF NoAnswer, Result, TypeOK
<1>5. ASSUME NEW p \in Party, HearFinal(p) PROVE Inv'
  <2>1. PICK r \in replies :
           /\ r.seq = task[p].seq /\ r.class # "1xx"
           /\ ack' = IF IsInvite(task[p].op) /\ r.class = "2xx"
                     THEN AckSeq(p) ELSE ack
           /\ Return(p, r.class, r.grant)
    BY <1>5 DEF HearFinal
  <2>2. r.class \in Result /\ r.grant \in Nat
    BY <1>b, <2>1 DEF Response, Result
  <2>3. Busy(p) /\ Turn(p) /\ task[p].seq \in Nat /\ seq' = seq
    BY <1>a, <1>5, AwaitingBusy DEF HearFinal
  <2>4. ack' \in Nat
    BY <1>a, <2>1, <2>3 DEF AckSeq, TypeOK
  <2> QED BY <1>b, <1>2, <2>1, <2>2, <2>3, <2>4
<1>6. ASSUME NEW p \in Party, HearProvisional(p) PROVE Inv'
  <2> DEFINE t == [task[p] EXCEPT !.rung = TRUE]
  <2>1. /\ Set(p, t) /\ Awaiting(p) /\ mutex' = mutex /\ seq' = seq
        /\ UNCHANGED <<loop, cancelled, call, running, net, far>>
    BY <1>6 DEF HearProvisional, dialog
  <2>2. task[p] \in Task /\ Busy(p) /\ Turn(p) /\ task[p].step = "awaiting"
    BY <1>a, <2>1, AwaitingBusy DEF Awaiting
  <2>3. t \in Task /\ t.step = "awaiting" /\ t.seq = task[p].seq
        /\ t.op = task[p].op
    BY <2>2 DEF Task
  <2> HIDE DEF t
  <2>4. task' \in [Party -> Task] /\ Lock'
    BY <1>a, <2>1, <2>2, <2>3, OwnStep
  <2>5. TypeOK'
    BY <1>a, <1>b, <2>1, <2>4 DEF TypeOK, loop, call, net
  <2>6. \A q \in Party : Awaiting(q)' => Carries(q)'
    <3>1. /\ task'[p] = t
          /\ \A q \in Party : q # p => task'[q] = task[q]
      BY <1>a, <2>1, <2>3, SetStep
    <3> QED BY <1>a, <2>1, <2>3, <3>1 DEF Awaiting, Numbered, Carries, net
  <2>7. Numbered'
    BY <1>b, <1>d, <2>1, <2>6 DEF net
  <2> QED BY <2>4, <2>5, <2>7 DEF Inv, Typed
<1>7. ASSUME NEW p \in Party, NEW op \in OpsOf(p), task[p].step = "free",
             Queue(p, op),
             UNCHANGED <<seq, loop, cancelled, call, running, net, far>>
      PROVE  Inv'
  <2>1. /\ task' \in [Party -> Task] /\ mutex' \in Queues /\ Lock'
        /\ \A q \in Party : Awaiting(q)' => task'[q] = task[q]
    BY <1>7, <1>a, QueueStep
  <2>2. TypeOK'
    BY <1>a, <1>7, <2>1 DEF TypeOK, loop, call, net
  <2>3. \A q \in Party : Awaiting(q)' => Carries(q)'
    BY <1>a, <1>7, <2>1 DEF Awaiting, Numbered, Carries, net
  <2>4. Numbered'
    BY <1>b, <1>d, <1>7, <2>3 DEF net
  <2> QED BY <2>1, <2>2, <2>4 DEF Inv, Typed
<1>8. ASSUME NEW op \in AppOp, Ask(op) PROVE Inv'
  BY <1>7, <1>8 DEF Ask, OpsOf, Party
<1>9. CASE Wake
  BY <1>7, <1>9 DEF Wake, OpsOf, LoopOp, Party
<1>10. CASE StandDown
  <2>1. /\ Set("timer", Ended) /\ mutex' = mutex /\ seq' = seq
        /\ outcome' = "Cancelled" /\ task["timer"].step = "free"
        /\ UNCHANGED <<timer, cancelled, call, running, net, far>>
    BY <1>10 DEF StandDown, dialog
  <2>2. /\ task' \in [Party -> Task] /\ task'["timer"] = Ended
        /\ task'["app"] = task["app"]
    BY <1>a, <2>1, SetStep, TasksTyped DEF Party
  <2>3. \A q \in Party : /\ Busy(q)' <=> Busy(q)
                         /\ Busy(q) => task'[q] = task[q]
                         /\ Awaiting(q)' => Awaiting(q) /\ task'[q] = task[q]
    <3>1. Ended.step = "ended"
      BY DEF Ended, Free
    <3>2. /\ ~Busy("timer") /\ ~Busy("timer")'
          /\ ~Awaiting("timer") /\ ~Awaiting("timer")'
      BY <2>1, <2>2, <3>1 DEF Busy, Awaiting
    <3>3. /\ Busy("app")' <=> Busy("app")
          /\ Awaiting("app")' <=> Awaiting("app")
      BY <2>2 DEF Busy, Awaiting
    <3> QED BY <2>2, <3>2, <3>3, Parties
  <2>4. Lock'
    <3>1. "app" \in Party /\ "timer" \in Party
      BY DEF Party
    <3> QED BY <1>a, <2>1, <2>3, <3>1 DEF Lock, Turn
  <2>5. TypeOK'
    BY <1>a, <1>b, <2>1, <2>2 DEF TypeOK, call, net
  <2>6. Numbered'
    <3>1. \A q \in Party : Awaiting(q)' => Carries(q)'
      BY <1>a, <2>1, <2>3 DEF Numbered, Carries, net
    <3> QED BY <1>b, <1>d, <2>1, <3>1 DEF net
  <2> QED BY <2>4, <2>5, <2>6 DEF Inv, Typed
<1>11. CASE Stop \/ Cancel \/ UNCHANGED vars
  <2>1. /\ task' = task /\ mutex' = mutex /\ seq' = seq
        /\ UNCHANGED <<timer, outcome, held, hungUp, doubt, sent, ack, replies,
                       far>>
        /\ cancelled' \in {cancelled, TRUE} /\ running' \in {running, FALSE}
    BY <1>11 DEF Stop, Cancel, vars, dialog, loop, call, net
  <2>2. {cancelled', held', hungUp', doubt', running'} \subseteq BOOLEAN
    BY <1>a, <2>1, FlagsTyped
  <2>3. TypeOK'
    BY <1>a, <1>b, <2>1, <2>2 DEF TypeOK
  <2>4. Lock'
    BY <1>a, <2>1, SameLock
  <2>5. Numbered'
    BY <1>a, <2>1 DEF Numbered, Awaiting, Carries
  <2> QED BY <2>3, <2>4, <2>5 DEF Inv, Typed
\* The far end acts: only its state and its responses change.
<1>12. ASSUME UNCHANGED ours, far' \in FarType, replies' \subseteq Response,
              \A q \in replies' : q.seq <= seq,
              far'.ringing <= far'.seen, far'.seen <= seq,
              \A r \in sent : r.seq = far'.ringing => IsInvite(r.op)
       PROVE  Inv'
  <2>1. /\ task' = task /\ mutex' = mutex /\ seq' = seq
        /\ UNCHANGED <<timer, outcome, cancelled, held, hungUp, doubt, running,
                       sent, ack>>
    BY <1>12 DEF ours, dialog, loop, call
  <2>2. TypeOK'
    BY <1>a, <1>b, <1>12, <2>1 DEF TypeOK, FarType, OfferOf, TimerType
  <2>3. Lock'
    BY <1>a, <2>1, SameLock
  <2>4. Numbered'
    BY <1>a, <1>12, <2>1 DEF Numbered, Awaiting, Carries
  <2> QED BY <2>2, <2>3, <2>4 DEF Inv, Typed
<1>13. ASSUME NEW r \in sent, FarHears(r) PROVE Inv'
  <2> DEFINE state == [far EXCEPT !.seen = r.seq]
  <2>1. /\ r \in Request /\ r.seq \in Nat /\ r.seq > 0 /\ r.seq <= seq
        /\ r.seq > far.seen /\ UNCHANGED ours
    BY <1>a, <1>c, <1>13 DEF Numbered, FarHears
  <2>2. /\ far.ringing \in Nat /\ far.seen \in Nat
        /\ \A q \in replies : q.seq <= seq
        /\ far.ringing <= far.seen
    BY <1>a, <1>b DEF FarType, Numbered
  <2>3. /\ state \in FarType /\ state.seen = r.seq /\ state.ringing = far.ringing
        /\ state.up = far.up
    BY <1>b, <2>1 DEF FarType
  <2>4. ASSUME NEW class \in {"1xx", "2xx", "refused"}, Reply(r, class, 0)
        PROVE  /\ replies' \subseteq Response
               /\ \A q \in replies' : q.seq <= seq
    BY <1>a, <2>1, <2>2, <2>4, ReplyTyped
  <2>5. \A s \in sent : s.seq = far.ringing => IsInvite(s.op)
    BY <1>a DEF Numbered
  <2>6. \A s \in sent : s.seq # 0
    BY <1>a, <1>c DEF Numbered
  <2>7. CASE \E class \in {"2xx", "refused"} : Reply(r, class, 0) /\ far' = state
    BY <1>12, <2>1, <2>2, <2>3, <2>4, <2>5, <2>7
  <2>8. CASE /\ Reply(r, "2xx", 0)
             /\ far' = [state EXCEPT !.up = FALSE, !.ringing = 0]
    <3> HIDE DEF state
    <3>1. far' \in FarType /\ far'.seen = r.seq /\ far'.ringing = 0
      BY <2>3, <2>8 DEF FarType
    <3> QED BY <1>12, <2>1, <2>4, <2>6, <2>8, <3>1
  <2>9. CASE IsInvite(r.op) /\ Take(r, state)
    <3> HIDE DEF state
    <3>1. /\ replies' \subseteq Response /\ far' \in FarType
          /\ \A q \in replies' : q \in replies \/ q.seq = r.seq
          /\ far'.seen = r.seq /\ far'.ringing = 0
      BY <1>a, <2>1, <2>3, <2>9, TakeTyped
    <3> QED BY <1>12, <2>1, <2>2, <2>6, <3>1
  <2>10. CASE /\ IsInvite(r.op)
              /\ Reply(r, "1xx", 0)
              /\ far' = [state EXCEPT !.ringing = r.seq]
    <3> HIDE DEF state
    <3>1. far' \in FarType /\ far'.seen = r.seq /\ far'.ringing = r.seq
      BY <2>1, <2>3, <2>10 DEF FarType
    <3>2. \A s \in sent : s.seq = r.seq => IsInvite(s.op)
      BY <1>a, <2>10 DEF Numbered
    <3> QED BY <1>12, <2>1, <2>4, <2>10, <3>1, <3>2
  <2> QED BY <1>13, <2>7, <2>8, <2>9, <2>10 DEF FarHears
<1>14. CASE FarDecides
  <2>1. PICK r \in sent :
           /\ r.seq = far.ringing
           /\ \/ far.up /\ Take(r, far)
              \/ /\ Reply(r, "refused", 0)
                 /\ far' = [far EXCEPT !.ringing = 0]
    BY <1>14 DEF FarDecides
  <2>2. /\ r \in Request /\ r.seq <= seq /\ IsInvite(r.op) /\ UNCHANGED ours
        /\ far.seen \in Nat /\ far.seen <= seq
        /\ \A q \in replies : q.seq <= seq
        /\ \A s \in sent : s.seq # 0
    BY <1>a, <1>b, <1>c, <1>14, <2>1 DEF Numbered, FarDecides, FarType
  <2>3. /\ replies' \subseteq Response /\ far' \in FarType
        /\ \A q \in replies' : q \in replies \/ q.seq = r.seq
        /\ far'.seen = far.seen /\ far'.ringing = 0
    <3>1. CASE Take(r, far)
      BY <1>a, <1>b, <2>2, <3>1, TakeTyped
    <3>2. CASE Reply(r, "refused", 0) /\ far' = [far EXCEPT !.ringing = 0]
      BY <1>a, <1>b, <2>2, <3>2, ReplyTyped DEF FarType
    <3> QED BY <2>1, <3>1, <3>2
  <2> QED BY <1>12, <2>2, <2>3
<1>15. CASE FarHangsUp
  <2>1. far' = [far EXCEPT !.up = FALSE] /\ UNCHANGED <<ours, replies>>
    BY <1>15 DEF FarHangsUp
  <2>2. far' \in FarType /\ far'.seen = far.seen /\ far'.ringing = far.ringing
    BY <1>b, <2>1 DEF FarType
  <2> QED BY <1>a, <1>b, <1>12, <2>1, <2>2 DEF Numbered
<1> QED BY <1>1, <1>3, <1>4, <1>5, <1>6, <1>8, <1>9, <1>10, <1>11, <1>13, <1>14,
           <1>15 DEF Next

LEMMA NegotiatedTyped ==
    ASSUME NEW s \in Setup
    PROVE  Ours(s) \in TimerType /\ Theirs(s) \in TimerType
<1>1. /\ s.header \in Header(Nat) /\ s.minSE \in Nat /\ s.supports \in BOOLEAN
  BY DEF Setup
<1>2. NoTimer \in TimerType
  BY DEF NoTimer, TimerType
<1>3. ASSUME NEW h \in Header(Nat)
      PROVE  NegotiateUac(h) \in TimerType /\ UasTimer(h) \in TimerType
  <2>1. h.interval \in Nat /\ AtLeastFloor(h.interval) \in Nat
    BY DEF Header, AtLeastFloor, Larger, Floor
  <2> QED BY <1>2, <2>1 DEF NegotiateUac, UasTimer, TimerType
<1>4. ASSUME NEW b \in BOOLEAN
      PROVE  NegotiateUas(s.header, s.minSE, b) \in Header(Nat)
  BY <1>1 DEF NegotiateUas, Header, Larger, AtLeastFloor, Floor, NoHeader,
              Refresher
<1> QED BY <1>1, <1>2, <1>3, <1>4 DEF Ours, Theirs

LEMMA InitInv == Init => Inv
<1> SUFFICES ASSUME Init PROVE Inv
  OBVIOUS
<1>1. PICK s \in Setups :
           /\ timer = Ours(s) /\ body = s.body
           /\ task = [p \in Party |->
                          IF p = "timer" /\ Ours(s) = NoTimer THEN Ended
                                                              ELSE Free]
           /\ far = [up |-> TRUE, seen |-> 0, offer |-> "setup", ringing |-> 0,
                     timer |-> Theirs(s)]
  BY DEF Init
<1>2. timer \in TimerType /\ far \in FarType /\ far.ringing = 0 /\ far.seen = 0
  BY <1>1, NegotiatedTyped, SessionAssumption DEF FarType, OfferOf
<1>3. task \in [Party -> Task]
      /\ \A p \in Party : task[p].step \in {"free", "ended"}
  BY <1>1, TasksTyped DEF Free, Ended
<1>4. "app" \in Party /\ "timer" \in Party
  BY DEF Party
<1>5. Lock
  BY <1>3, <1>4 DEF Init, Lock, Busy, Awaiting
<1>6. TypeOK
  BY <1>1, <1>2, <1>3, SessionAssumption
  DEF Init, TypeOK, FarType, OfferOf, TimerType, Queues, Setup
<1>7. Numbered
  BY <1>2, <1>3 DEF Init, Numbered, Awaiting
<1> QED BY <1>5, <1>6, <1>7 DEF Inv, Typed

\* A call in use keeps its types, for any number of requests.
THEOREM SessionTypes == Spec => []TypeOK
<1>1. Inv => TypeOK
  BY DEF Inv, Typed
<1> QED BY <1>1, InitInv, InvStep, PTL DEF Spec

\* No request overtakes the one that is awaited and no CSeq is used twice,
\* whoever sends: hold, INFO, transfer, hangup, refresh or the last BYE, with
\* answers, refusals, timeouts and a stopped engine in any order.
THEOREM RequestsTakeTurns == Spec => []AwaitedIsNewest
<1>1. Inv => AwaitedIsNewest
  BY DEF Inv, Numbered, Carries, AwaitedIsNewest
<1> QED BY <1>1, InitInv, InvStep, PTL DEF Spec

-----------------------------------------------------------------------------
(* The two timers.                                                         *)
(*                                                                         *)
(* A grant changes the far end's interval before we hear of it, and we may *)
(* never hear of it.  Sync follows a refresh from its sending to its       *)
(* answer: while the far end may still take it the intervals are the same, *)
(* once it has taken it the difference is the grant that is on its way, and *)
(* no earlier refresh can be taken any more.                               *)

\* A far end that asks for less than RFC 4028's minimum is refreshed at ours.
FarObeysFloor ==
    /\ \A g \in Grants : g >= Floor
    /\ \A s \in Setups :
           s.role = "uac" /\ s.header # NoHeader => s.header.interval >= Floor

\* The loop has not given up on the session.
InTouch ==
    \/ task["timer"].step = "free"
    \/ Busy("timer") /\ task["timer"].op = "refresh"

Same == far.timer = NoTimer \/ far.timer.interval = timer.interval

\* The far end may still take the request numbered s.
Open(s) == s > far.seen \/ (s # 0 /\ far.ringing = s)

Current(s) == Awaiting("timer") /\ task["timer"].seq = s

Granted(q) ==
    IF q.grant = 0 THEN Same
    ELSE far.timer.interval = q.grant /\ q.grant >= Floor

Sync ==
    InTouch =>
        /\ timer.interval >= Floor
        /\ timer.refreshes # far.timer.refreshes
        /\ \A r \in sent :
               r.op = "refresh" /\ ~Current(r.seq) => ~Open(r.seq)
        /\ ~Awaiting("timer") => Same
        /\ \A s \in Nat :
               Current(s) =>
                   /\ Open(s) => /\ Same
                                 /\ \A q \in replies :
                                        q.seq = s => q.class # "2xx"
                   /\ \A q \in replies :
                          q.seq = s /\ q.class = "2xx" => Granted(q)

LEMMA InitSync ==
    ASSUME FarObeysFloor, Init
    PROVE  Sync
<1> SUFFICES ASSUME InTouch PROVE Sync
  BY DEF Sync
<1>1. PICK s \in Setups :
           /\ timer = Ours(s)
           /\ task = [p \in Party |->
                          IF p = "timer" /\ Ours(s) = NoTimer THEN Ended
                                                              ELSE Free]
           /\ far = [up |-> TRUE, seen |-> 0, offer |-> "setup", ringing |-> 0,
                     timer |-> Theirs(s)]
  BY DEF Init
<1>2. Ours(s) # NoTimer /\ task["timer"].step = "free" /\ ~Awaiting("timer")
  BY <1>1 DEF InTouch, Ended, Free, Party, Awaiting, Busy
<1>3. /\ Ours(s).interval >= Floor
      /\ Ours(s).refreshes # Theirs(s).refreshes
      /\ Theirs(s) = NoTimer \/ Theirs(s).interval = Ours(s).interval
  <2>1. /\ s.header \in Header(Nat) /\ s.minSE \in Nat /\ s.supports \in BOOLEAN
        /\ s.role \in Refresher
    BY SessionAssumption DEF Setup
  <2>2. CASE s.role = "uac"
    <3>1. s.header # NoHeader /\ s.header.interval \in Nat
      BY <1>2, <2>1, <2>2 DEF Ours, NegotiateUac, Header
    <3>2. s.header.interval >= Floor
      BY <2>2, <3>1 DEF FarObeysFloor
    <3>3. /\ Ours(s) = [interval |-> s.header.interval,
                        refreshes |-> s.header.refresher # "uas"]
          /\ Theirs(s) = [interval |-> s.header.interval,
                          refreshes |-> s.header.refresher = "uas"]
      BY <2>2, <3>1, <3>2
         DEF Ours, Theirs, NegotiateUac, UasTimer, AtLeastFloor, Larger, Floor
    <3> QED BY <3>2, <3>3
  <2>3. CASE s.role # "uac"
    <3> DEFINE echo == NegotiateUas(s.header, s.minSE, s.supports)
    <3>1. Ours(s) = UasTimer(echo)
      BY <2>3 DEF Ours
    <3>2. s.header # NoHeader
      <4>1. s.header = NoHeader => echo = NoHeader
        BY DEF NegotiateUas
      <4> QED BY <1>2, <3>1, <4>1 DEF UasTimer
    <3>3. /\ Complementary(UasTimer(echo), NegotiateUac(echo))
          /\ UasTimer(echo).interval >= Floor
      BY <2>1, <3>2, CalleeNegotiates
    <3>4. CASE s.supports
      <4>1. Theirs(s) = NegotiateUac(echo)
        BY <2>1, <2>3, <3>4 DEF Theirs
      <4> QED BY <3>1, <3>3, <4>1 DEF Complementary
    <3>5. CASE ~s.supports
      <4>1. Theirs(s) = NoTimer
        BY <2>3, <3>5 DEF Theirs
      <4>2. echo # NoHeader
        BY <1>2, <3>1 DEF UasTimer
      <4>3. echo.refresher = "uas"
        BY <3>2, <3>5 DEF NegotiateUas
      <4>4. UasTimer(echo).refreshes = TRUE
        BY <4>2, <4>3 DEF UasTimer
      <4>5. Theirs(s).refreshes = FALSE
        BY <4>1 DEF NoTimer
      <4> HIDE DEF echo
      <4>6. Ours(s).refreshes = TRUE /\ Ours(s).interval >= Floor
        BY <3>1, <3>3, <4>4
      <4>7. Ours(s).refreshes # Theirs(s).refreshes
        BY <4>5, <4>6
      <4> QED BY <4>1, <4>6, <4>7
    <3> QED BY <3>4, <3>5
  <2> QED BY <2>2, <2>3
<1>4. sent = {} /\ far.timer = Theirs(s)
  BY <1>1 DEF Init
<1> QED BY <1>1, <1>2, <1>3, <1>4 DEF Sync, Same, Current

\* A step that leaves the refresh where it is.
LEMMA SyncKept ==
    ASSUME Sync, UNCHANGED <<timer, far, sent>>, replies' \subseteq replies,
           InTouch' => /\ InTouch
                       /\ Awaiting("timer")' <=> Awaiting("timer")
                       /\ Awaiting("timer") =>
                              task'["timer"].seq = task["timer"].seq
    PROVE  Sync'
BY DEF Sync, Same, Open, Current, Granted

\* The far end acts, without a grant.
LEMMA SyncFar ==
    ASSUME Inv, Sync, UNCHANGED <<timer, task, sent>>,
           far'.timer = far.timer,
           \A s \in Nat : Open(s)' => Open(s),
           \A q \in replies' : \/ q \in replies
                               \/ q.class # "2xx"
                               \/ ~Current(q.seq)
    PROVE  Sync'
<1> SUFFICES ASSUME InTouch' PROVE Sync'
  BY DEF Sync
<1>1. InTouch /\ (Awaiting("timer")' <=> Awaiting("timer"))
      /\ \A s : Current(s)' <=> Current(s)
  BY DEF InTouch, Busy, Awaiting, Current
<1>2. /\ Same' <=> Same
      /\ \A q : Granted(q)' <=> Granted(q)
  BY DEF Same, Granted
<1>3. \A r \in sent : r.seq \in Nat
  BY DEF Inv, Typed, TypeOK, Request
<1>4. \A r \in sent' : r.op = "refresh" /\ ~Current(r.seq)' => ~Open(r.seq)'
  BY <1>1, <1>3 DEF Sync
<1> QED BY <1>1, <1>2, <1>4 DEF Sync

\* The far end takes a refresh.
LEMMA SyncTake ==
    ASSUME FarObeysFloor, Inv, Sync, UNCHANGED <<timer, task, sent>>,
           NEW r \in sent, r.op = "refresh", Open(r.seq),
           NEW state \in FarType, state.timer = far.timer, state.seen >= r.seq,
           \A s \in Nat : s > state.seen => s > far.seen,
           Take(r, state)
    PROVE  Sync'
<1> SUFFICES ASSUME InTouch' PROVE Sync'
  BY DEF Sync
<1>1. InTouch /\ (Awaiting("timer")' <=> Awaiting("timer"))
      /\ \A s : Current(s)' <=> Current(s)
  BY DEF InTouch, Busy, Awaiting, Current
<1>2. /\ r \in Request /\ r.seq \in Nat /\ IsInvite(r.op)
      /\ far \in FarType /\ timer \in TimerType
      /\ \A s \in sent : s.seq \in Nat
  BY DEF Inv, Typed, TypeOK, Request, FarType, OfferOf, TimerType, IsInvite
<1>3. PICK grant \in Grants \cup {0} :
        /\ Reply(r, "2xx", grant)
        /\ far' = [state EXCEPT
                     !.offer = OfferAfter(r.op),
                     !.ringing = 0,
                     !.timer.interval = IF grant = 0 THEN @ ELSE grant]
  BY DEF Take
<1> DEFINE i == IF grant = 0 THEN far.timer.interval ELSE grant
<1>4. /\ far'.seen = state.seen /\ far'.ringing = 0
      /\ far'.timer = [far.timer EXCEPT !.interval = i]
  BY <1>3 DEF FarType, TimerType
<1>5. far'.timer.refreshes = far.timer.refreshes /\ far'.timer.interval = i
  BY <1>2, <1>4 DEF FarType, TimerType
<1>6. Current(r.seq) /\ Same
      /\ \A q \in replies : q.seq = r.seq => q.class # "2xx"
  BY <1>1, <1>2 DEF Sync
<1>7. ~Open(r.seq)' /\ \A s \in Nat : Open(s)' => Open(s)
  BY <1>2, <1>4 DEF Open, FarType
<1>8. \A q \in replies' :
        q \in replies \/ (q.seq = r.seq /\ q.grant = grant)
  BY <1>3 DEF Reply
<1>9. grant = 0 => Same'
  <2>1. grant = 0 => far'.timer = far.timer
    BY <1>2, <1>4 DEF FarType, TimerType
  <2> QED BY <1>6, <2>1 DEF Same
<1>10. grant # 0 => far'.timer.interval = grant /\ grant >= Floor
  BY <1>5 DEF FarObeysFloor
<1>11. \A q \in replies' : q.seq = r.seq /\ q.class = "2xx" => Granted(q)'
  BY <1>6, <1>8, <1>9, <1>10 DEF Granted
<1>12. \A s \in sent' : s.op = "refresh" /\ ~Current(s.seq)' => ~Open(s.seq)'
  BY <1>1, <1>2, <1>7 DEF Sync
<1>13. \A s : Current(s)' => s = r.seq
  BY <1>1, <1>6 DEF Current
<1>14. timer'.interval >= Floor /\ timer'.refreshes # far'.timer.refreshes
  BY <1>1, <1>5 DEF Sync
<1>15. Awaiting("timer")'
  BY <1>1, <1>6 DEF Current
<1> HIDE DEF i
<1> QED BY <1>7, <1>11, <1>12, <1>13, <1>14, <1>15 DEF Sync

LEMMA SyncStep ==
    ASSUME FarObeysFloor, Inv, Sync, [Next]_vars
    PROVE  Sync'
<1>a. TypeOK /\ Lock /\ Typed /\ Numbered
  BY DEF Inv, Typed
<1>b. /\ task \in [Party -> Task] /\ seq \in Nat /\ sent \subseteq Request
      /\ replies \subseteq Response /\ far \in FarType /\ timer \in TimerType
      /\ "app" \in Party /\ "timer" \in Party
      /\ far.seen \in Nat /\ far.ringing \in Nat
      /\ far.ringing <= far.seen /\ far.seen <= seq
  BY <1>a DEF TypeOK, FarType, OfferOf, TimerType, Party, Numbered
\* The loop is given up: Sync says nothing more.
<1>c. ASSUME \/ task'["timer"].step = "ended"
             \/ task'["timer"].step = "waiting" /\ task'["timer"].op = "bye"
      PROVE  Sync'
  BY <1>c DEF Sync, InTouch, Busy
<1>d. ASSUME UNCHANGED <<timer, far, sent>>, replies' \subseteq replies,
             task'["timer"] = task["timer"]
      PROVE  Sync'
  BY <1>d, SyncKept DEF InTouch, Busy, Awaiting
<1>1. ASSUME NEW p \in Party, Start(p) PROVE Sync'
  <2> DEFINE n == seq + 1
             r == [by |-> p, op |-> task[p].op, seq |-> n]
             t == [task[p] EXCEPT !.step = "awaiting", !.seq = n]
  <2>1. /\ sent' = sent \cup {r} /\ Set(p, t)
        /\ UNCHANGED <<timer, far, replies>>
        /\ task[p].step = "waiting" /\ Turn(p)
    BY <1>1 DEF Start, NextSeq, loop
  <2>2. n \in Nat /\ n > seq /\ r.op = task[p].op /\ r.seq = n /\ task[p] \in Task
    BY <1>b
  <2> HIDE DEF n, r
  <2>3. t \in Task /\ t.step = "awaiting" /\ t.seq = n /\ t.op = task[p].op
    BY <2>2 DEF Task
  <2> HIDE DEF t
  <2>4. task'[p] = t /\ \A q \in Party : q # p => task'[q] = task[q]
    BY <1>a, <2>1, <2>3, SetStep
  <2>5. ~Awaiting("timer") /\ \A s : ~Current(s)
    BY <1>a, <1>b, <2>1 DEF Lock, Turn, Awaiting, Current
  <2>6. task[p].op \in OpsOf(p)
    BY <1>a, <2>1 DEF Lock, Busy
  <2>7. InTouch' => InTouch
    BY <1>b, <2>1, <2>3, <2>4 DEF InTouch, Busy
  <2>8. Same' <=> Same
    BY <2>1 DEF Same
  <2>9. \A s \in Nat : Open(s)' <=> Open(s)
    BY <2>1 DEF Open
  <2>10. \A s \in sent : s.seq \in Nat /\ s.seq <= seq
    BY <1>a, <1>b DEF Request, Numbered
  <2>11. \A q \in replies : q.seq \in Nat /\ q.seq <= seq
    BY <1>a, <1>b DEF Response, Numbered
  <2>12. CASE p = "app"
    <3>1. r.op # "refresh"
      BY <2>2, <2>6, <2>12 DEF OpsOf, AppOp
    <3>2. ~Awaiting("timer")' /\ \A s : ~Current(s)'
      BY <1>b, <2>4, <2>5, <2>12 DEF Awaiting, Current
    <3> QED BY <2>1, <2>5, <2>7, <2>8, <2>9, <2>10, <3>1, <3>2 DEF Sync
  <2>13. CASE p = "timer"
    <3>1. Awaiting("timer")' /\ \A s : Current(s)' <=> s = n
      BY <2>3, <2>4, <2>13 DEF Awaiting, Current
    <3>2. \A s \in sent' :
             s.op = "refresh" /\ ~Current(s.seq)' => s \in sent
      BY <2>1, <2>2, <3>1
    <3>3. \A q \in replies' : q.seq # n
      BY <1>b, <2>1, <2>2, <2>11
    <3> QED BY <2>1, <2>5, <2>7, <2>8, <2>9, <2>10, <3>1, <3>2, <3>3 DEF Sync
  <2> QED BY <2>12, <2>13, Parties
<1>2. ASSUME NEW p \in Party, Busy(p), Turn(p), NEW result \in Result,
             NEW grant \in Nat, Return(p, result, grant),
             p = "timer" /\ result = "2xx" =>
                 /\ Awaiting(p)
                 /\ \E q \in replies : /\ q.seq = task[p].seq
                                       /\ q.class = "2xx" /\ q.grant = grant
      PROVE  Sync'
  <2>1. /\ replies' \subseteq replies
        /\ UNCHANGED <<sent, far>>
        /\ \A q \in Party : ~Awaiting(q)'
        /\ \A q \in Party : q # p => task'[q] = task[q]
    BY <1>2, <1>a, ReturnStep
  <2>2. CASE p = "app"
    <3>1. timer' = timer /\ task'["timer"] = task["timer"]
      BY <1>b, <1>2, <2>1, <2>2 DEF Return, AppReturns, loop
    <3> QED BY <1>d, <2>1, <3>1
  <2>3. CASE p = "timer"
    <3>1. LoopGoesOn(result, grant)
      BY <1>2, <2>3 DEF Return
    <3>2. ASSUME NEW how, End(how) PROVE Sync'
      <4>1. task'["timer"] = Ended
        BY <1>a, <1>b, <3>2, SetStep, TasksTyped DEF End
      <4> QED BY <1>c, <4>1 DEF Ended
    <3>3. CASE Set("timer", Waiting("bye"))
      <4>1. task'["timer"] = Waiting("bye")
        BY <1>a, <1>b, <3>3, SetStep, TasksTyped DEF Op, LoopOp
      <4> QED BY <1>c, <4>1 DEF Waiting, Free
    <3>4. CASE /\ result = "2xx" /\ task["timer"].op # "bye"
               /\ timer' = [timer EXCEPT !.interval = Adopt(@, grant)]
               /\ Set("timer", Free)
      <4> SUFFICES ASSUME InTouch' PROVE Sync'
        BY DEF Sync
      <4>1. /\ task["timer"].op = "refresh" /\ Awaiting("timer") /\ InTouch
            /\ task["timer"].seq \in Nat
        <5>1. task["timer"].op \in LoopOp
          BY <1>a, <1>b, <1>2, <2>3 DEF Lock, OpsOf
        <5>2. task["timer"].op = "refresh" /\ Awaiting("timer")
          BY <1>2, <2>3, <3>4, <5>1 DEF LoopOp
        <5> QED BY <1>b, <1>2, <2>3, <5>2 DEF InTouch, Task
      <4> DEFINE s == task["timer"].seq
      <4>2. Current(s)
        BY <4>1 DEF Current
      <4>3. PICK q \in replies : q.seq = s /\ q.class = "2xx" /\ q.grant = grant
        BY <1>2, <2>3, <3>4
      <4>4. ~Open(s) /\ Granted(q)
        BY <4>1, <4>2, <4>3 DEF Sync
      <4>5. timer' = [timer EXCEPT !.interval = Adopt(timer.interval, grant)]
        BY <3>4
      <4>6. timer'.interval = Adopt(timer.interval, grant)
            /\ timer'.refreshes = timer.refreshes
        BY <1>b, <4>5 DEF TimerType
      <4>7. timer.interval >= Floor /\ timer.interval \in Nat
        BY <1>b, <4>1 DEF Sync, TimerType
      <4>8. Same' /\ timer'.interval >= Floor
        <5>1. CASE grant = 0
          <6>1. timer'.interval = timer.interval /\ Same
            BY <4>3, <4>4, <4>6, <5>1 DEF Adopt, Granted
          <6> QED BY <2>1, <4>7, <6>1 DEF Same
        <5>2. CASE grant # 0
          <6>1. far.timer.interval = grant /\ grant >= Floor
            BY <4>3, <4>4, <5>2 DEF Granted
          <6>2. timer'.interval = grant
            BY <4>6, <5>2, <6>1 DEF Adopt, AtLeastFloor, Larger, Floor
          <6> QED BY <2>1, <6>1, <6>2 DEF Same
        <5> QED BY <5>1, <5>2
      <4>9. timer'.refreshes # far'.timer.refreshes
        BY <2>1, <4>1, <4>6 DEF Sync
      <4>10. \A r \in sent' : r.op = "refresh" => ~Open(r.seq)'
        <5>1. \A r \in sent : r.op = "refresh" => ~Open(r.seq)
          <6>1. \A r \in sent : Current(r.seq) => r.seq = s
            BY DEF Current
          <6> QED BY <4>1, <4>4, <6>1 DEF Sync
        <5> QED BY <2>1, <5>1 DEF Open
      <4>11. ~Awaiting("timer")' /\ \A k : ~Current(k)'
        BY <1>b, <2>1 DEF Current
      <4> QED BY <4>8, <4>9, <4>10, <4>11 DEF Sync
    <3> QED BY <1>2, <3>1, <3>2, <3>3, <3>4 DEF LoopGoesOn, Result
  <2> QED BY <2>2, <2>3, Parties
<1>3. ASSUME NEW p \in Party, StartFails(p) \/ NoAnswer(p) PROVE Sync'
  <2>1. Busy(p) /\ Turn(p) /\ Return(p, "none", 0)
    BY <1>a, <1>3, AwaitingBusy DEF StartFails, NoAnswer, Busy
  <2> QED BY <1>2, <2>1 DEF Result
<1>4. ASSUME NEW p \in Party, HearFinal(p) PROVE Sync'
  <2>1. PICK r \in replies :
           /\ r.seq = task[p].seq /\ r.class # "1xx"
           /\ Return(p, r.class, r.grant)
    BY <1>4 DEF HearFinal
  <2>2. r.class \in Result /\ r.grant \in Nat
    BY <1>b, <2>1 DEF Response, Result
  <2>3. Awaiting(p) /\ Busy(p) /\ Turn(p)
    BY <1>a, <1>4, AwaitingBusy DEF HearFinal
  <2> QED BY <1>2, <2>1, <2>2, <2>3
<1>5. ASSUME NEW p \in Party, HearProvisional(p) PROVE Sync'
  <2> DEFINE t == [task[p] EXCEPT !.rung = TRUE]
  <2>1. /\ Set(p, t) /\ Awaiting(p) /\ task[p] \in Task
        /\ UNCHANGED <<timer, sent, replies, far>>
    BY <1>b, <1>5 DEF HearProvisional, loop, net
  <2>2. t \in Task /\ t.step = task[p].step /\ t.seq = task[p].seq
        /\ t.op = task[p].op
    BY <2>1 DEF Task
  <2> HIDE DEF t
  <2>3. \A q \in Party : /\ task'[q].step = task[q].step
                         /\ task'[q].seq = task[q].seq
                         /\ task'[q].op = task[q].op
    BY <1>a, <2>1, <2>2, SetStep
  <2> QED BY <1>b, <2>1, <2>3, SyncKept DEF InTouch, Busy, Awaiting
<1>6. ASSUME NEW op \in AppOp, Ask(op) PROVE Sync'
  <2>1. /\ Set("app", Waiting(op)) /\ UNCHANGED <<timer, sent, replies, far>>
        /\ Waiting(op) \in Task
    BY <1>6, TasksTyped DEF Ask, Queue, loop, net, Op
  <2>2. task'["timer"] = task["timer"]
    BY <1>a, <1>b, <2>1, SetStep
  <2> QED BY <1>d, <2>1, <2>2
<1>7. CASE Wake
  <2> DEFINE op == IF timer.refreshes THEN "refresh" ELSE "bye"
  <2>1. /\ Set("timer", Waiting(op)) /\ UNCHANGED <<timer, sent, replies, far>>
        /\ task["timer"].step = "free" /\ Waiting(op) \in Task
    BY <1>7, TasksTyped DEF Wake, Queue, loop, net, Op, LoopOp
  <2>2. task'["timer"] = Waiting(op)
    BY <1>a, <1>b, <2>1, SetStep
  <2>3. /\ InTouch /\ ~Awaiting("timer") /\ ~Awaiting("timer")'
    BY <2>1, <2>2 DEF InTouch, Awaiting, Waiting, Free
  <2> QED BY <2>1, <2>3, SyncKept
<1>8. CASE StandDown
  <2>1. task'["timer"] = Ended
    BY <1>a, <1>b, <1>8, SetStep, TasksTyped DEF StandDown
  <2> QED BY <1>c, <2>1 DEF Ended
<1>9. CASE Stop \/ Cancel \/ UNCHANGED vars
  BY <1>9, <1>d DEF Stop, Cancel, vars, loop, net
\* The far end acts without a grant.
<1>10. ASSUME UNCHANGED ours, far'.timer = far.timer,
              \A s \in Nat : Open(s)' => Open(s),
              \A q \in replies' : \/ q \in replies
                                  \/ q.class # "2xx"
                                  \/ ~Current(q.seq)
       PROVE  Sync'
  BY <1>10, SyncFar DEF ours, loop
\* A request that is not a refresh is not the loop's while it is in touch.
<1>11. ASSUME NEW r \in sent, r.op # "refresh", InTouch
       PROVE  ~Current(r.seq)
  <2> SUFFICES ASSUME Current(r.seq) PROVE FALSE
    OBVIOUS
  <2>1. Awaiting("timer") /\ task["timer"].seq = r.seq
    BY DEF Current
  <2>2. PICK m \in sent : m.seq = r.seq /\ m.op = task["timer"].op
    BY <1>a, <1>b, <2>1 DEF Numbered, Carries
  <2>3. m = r
    BY <1>a, <2>2 DEF Numbered
  <2> QED BY <1>11, <2>1, <2>2, <2>3 DEF InTouch, Awaiting
<1>12. ASSUME NEW r \in sent, Reply(r, "2xx", 0), InTouch, r.op # "refresh"
       PROVE  \A q \in replies' : q \in replies \/ ~Current(q.seq)
  BY <1>11, <1>12 DEF Reply
<1>13. ~InTouch /\ UNCHANGED ours => Sync'
  BY DEF Sync, InTouch, Busy, ours
<1>14. ASSUME NEW r \in sent, NEW state \in FarType, r.op # "refresh",
              state.timer = far.timer, Take(r, state), InTouch
       PROVE  /\ far'.timer = far.timer
              /\ far'.seen = state.seen /\ far'.ringing = 0
              /\ \A q \in replies' : q \in replies \/ ~Current(q.seq)
  <2>1. /\ Reply(r, "2xx", 0)
        /\ far' = [state EXCEPT !.offer = OfferAfter(r.op), !.ringing = 0,
                                !.timer.interval = state.timer.interval]
    BY <1>14 DEF Take
  <2>2. far'.timer = state.timer /\ far'.seen = state.seen /\ far'.ringing = 0
    BY <1>14, <2>1 DEF FarType, TimerType
  <2> QED BY <1>12, <1>14, <2>1, <2>2
<1>15. ASSUME NEW r \in sent, FarHears(r) PROVE Sync'
  <2> DEFINE state == [far EXCEPT !.seen = r.seq]
  <2>1. r \in Request /\ r.seq \in Nat /\ r.seq > far.seen /\ UNCHANGED ours
    BY <1>b, <1>15 DEF FarHears, Request
  <2>2. /\ state \in FarType /\ state.seen = r.seq /\ state.ringing = far.ringing
        /\ state.timer = far.timer
    BY <1>b, <2>1 DEF FarType
  <2>3. Open(r.seq) /\ \A s \in Nat : s > r.seq => s > far.seen
    BY <1>b, <2>1 DEF Open
  <2> SUFFICES ASSUME InTouch PROVE Sync'
    BY <1>13, <2>1
  <2>4. CASE Reply(r, "refused", 0) /\ far' = state
    <3>1. \A s \in Nat : Open(s)' => Open(s)
      BY <1>b, <2>1, <2>2, <2>3, <2>4 DEF Open
    <3> QED BY <1>10, <2>1, <2>2, <2>4, <3>1 DEF Reply
  <2>5. CASE /\ IsBye(r.op) /\ Reply(r, "2xx", 0)
             /\ far' = [state EXCEPT !.up = FALSE, !.ringing = 0]
    <3> HIDE DEF state
    <3>1. far'.timer = far.timer /\ far'.seen = r.seq /\ far'.ringing = 0
      BY <2>2, <2>5 DEF FarType
    <3>2. \A s \in Nat : Open(s)' => Open(s)
      BY <2>3, <3>1 DEF Open
    <3> QED BY <1>10, <1>12, <2>1, <2>5, <3>1, <3>2 DEF IsBye
  <2>6. CASE r.op = "info" /\ Reply(r, "2xx", 0) /\ far' = state
    <3>1. \A s \in Nat : Open(s)' => Open(s)
      BY <1>b, <2>1, <2>2, <2>3, <2>6 DEF Open
    <3> QED BY <1>10, <1>12, <2>1, <2>2, <2>6, <3>1
  <2>7. CASE Take(r, state)
    <3> HIDE DEF state
    <3>1. CASE r.op = "refresh"
      BY <2>1, <2>2, <2>3, <2>7, <3>1, SyncTake DEF ours, loop
    <3>2. CASE r.op # "refresh"
      <4>1. /\ far'.timer = far.timer /\ far'.seen = r.seq /\ far'.ringing = 0
            /\ \A q \in replies' : q \in replies \/ ~Current(q.seq)
        BY <1>14, <2>2, <2>7, <3>2
      <4>2. \A s \in Nat : Open(s)' => Open(s)
        BY <2>3, <4>1 DEF Open
      <4> QED BY <1>10, <2>1, <4>1, <4>2
    <3> QED BY <3>1, <3>2
  <2>8. CASE Reply(r, "1xx", 0) /\ far' = [state EXCEPT !.ringing = r.seq]
    <3> HIDE DEF state
    <3>1. far'.timer = far.timer /\ far'.seen = r.seq /\ far'.ringing = r.seq
      BY <2>2, <2>8 DEF FarType
    <3>2. \A s \in Nat : Open(s)' => Open(s)
      BY <2>3, <3>1 DEF Open
    <3> QED BY <1>10, <2>1, <2>8, <3>1, <3>2 DEF Reply
  <2> QED BY <1>15, <2>4, <2>5, <2>6, <2>7, <2>8 DEF FarHears
<1>16. CASE FarDecides
  <2>1. PICK r \in sent :
           /\ r.seq = far.ringing
           /\ \/ Take(r, far)
              \/ /\ Reply(r, "refused", 0)
                 /\ far' = [far EXCEPT !.ringing = 0]
    BY <1>16 DEF FarDecides
  <2>2. far.ringing # 0 /\ UNCHANGED ours /\ Open(r.seq) /\ far.seen >= r.seq
    BY <1>b, <1>16, <2>1 DEF FarDecides, Open
  <2> SUFFICES ASSUME InTouch PROVE Sync'
    BY <1>13, <2>2
  <2>3. ASSUME far'.seen = far.seen, far'.ringing = 0
        PROVE  \A s \in Nat : Open(s)' => Open(s)
    BY <2>3 DEF Open
  <2>4. CASE Take(r, far) /\ r.op = "refresh"
    BY <1>b, <2>2, <2>4, SyncTake DEF ours, loop
  <2>5. CASE Take(r, far) /\ r.op # "refresh"
    <3>1. /\ far'.timer = far.timer /\ far'.seen = far.seen /\ far'.ringing = 0
          /\ \A q \in replies' : q \in replies \/ ~Current(q.seq)
      BY <1>b, <1>14, <2>5
    <3> QED BY <1>10, <2>2, <2>3, <3>1
  <2>6. CASE Reply(r, "refused", 0) /\ far' = [far EXCEPT !.ringing = 0]
    <3>1. far'.timer = far.timer /\ far'.seen = far.seen /\ far'.ringing = 0
      BY <1>b, <2>6 DEF FarType
    <3> QED BY <1>10, <2>2, <2>3, <2>6, <3>1 DEF Reply
  <2> QED BY <2>1, <2>4, <2>5, <2>6
<1>17. CASE FarHangsUp
  <2>1. far' = [far EXCEPT !.up = FALSE] /\ UNCHANGED <<ours, replies>>
    BY <1>17 DEF FarHangsUp
  <2>2. far'.timer = far.timer /\ far'.seen = far.seen
        /\ far'.ringing = far.ringing
    BY <1>b, <2>1 DEF FarType
  <2>3. \A s \in Nat : Open(s)' => Open(s)
    BY <2>2 DEF Open
  <2> QED BY <1>10, <2>1, <2>2, <2>3
<1> QED BY <1>1, <1>3, <1>4, <1>5, <1>6, <1>7, <1>8, <1>9, <1>15, <1>16, <1>17
    DEF Next

\* Exactly one side refreshes, and in time for the other, for any intervals
\* negotiated and any sequence of grants of at least RFC 4028's minimum.
THEOREM RefreshesComeInTime ==
    ASSUME FarObeysFloor
    PROVE  Spec => []RefreshInTime
<1>1. Init => Inv /\ Sync
  BY InitInv, InitSync
<1>2. Inv /\ Sync /\ [Next]_vars => (Inv /\ Sync)'
  BY InvStep, SyncStep
<1>3. Inv /\ Sync => RefreshInTime
  <2> SUFFICES ASSUME Inv, Sync, far.timer # NoTimer, task["timer"].step = "free"
               PROVE  /\ timer.refreshes # far.timer.refreshes
                      /\ timer.interval = far.timer.interval
                      /\ RefreshAfter(timer.interval) < ExpiryAfter(timer.interval)
    BY DEF RefreshInTime
  <2>1. InTouch /\ ~Awaiting("timer")
    BY DEF InTouch, Awaiting
  <2>2. timer.interval \in Nat
    BY DEF Inv, Typed, TypeOK
  <2> QED BY <2>1, <2>2, RefreshBeforeExpiry DEF Sync, Same
<1> QED BY <1>1, <1>2, <1>3, PTL DEF Spec

-----------------------------------------------------------------------------
(***************************************************************************)
(* Proofs about what the application's operations leave behind: a hangup   *)
(* that returns Ok has ended the call at the far end (HungUpIsDown), and   *)
(* the hold flag is the far end's (HoldAgrees).                            *)
(*                                                                         *)
(* Both follow a request from its sending to its answer.  Between the two  *)
(* the far end has acted and the application does not know it yet, so each *)
(* invariant says what a response on its way means.                        *)
(***************************************************************************)


Mine(s) == Awaiting("app") /\ task["app"].seq = s

IsHold(op) == op \in {"hold", "resume"}

\* The application's request goes on as it was, or is over for it.
SameMine ==
    /\ Awaiting("app")' <=> Awaiting("app")
    /\ Awaiting("app") => /\ task'["app"].seq = task["app"].seq
                          /\ task'["app"].op = task["app"].op
    /\ task'["app"].step = "free" => task["app"].step = "free"

\* The application is elsewhere, and the far end does nothing or hangs up.
QuietStep ==
    /\ UNCHANGED <<sent, held, hungUp, doubt>>
    /\ far' = far \/ far' = [far EXCEPT !.up = FALSE]
    /\ replies' \subseteq replies
    /\ SameMine

StartStep(p) ==
    LET n == seq + 1
        r == [by |-> p, op |-> task[p].op, seq |-> n]
    IN  /\ sent' = sent \cup {r}
        /\ UNCHANGED <<held, hungUp, doubt, far, replies>>
        /\ p = "app" => /\ Awaiting("app")' /\ task'["app"].seq = n
                        /\ task'["app"].op = task["app"].op
        /\ p # "app" => ~ Awaiting("app")'
        /\ task'["app"].step # "free" \/ task'["app"] = task["app"]
        /\ p = "timer" => task["timer"].op \in LoopOp

AppStep(result) ==
    /\ UNCHANGED <<sent, far>>
    /\ replies' \subseteq replies
    /\ ~ Awaiting("app")'
    /\ held' = IF Accepted(task["app"].op, result) THEN task["app"].op = "hold" ELSE held
    /\ hungUp' = (hungUp \/ Gone(task["app"].op, result))
    /\ doubt' = CASE Accepted(task["app"].op, result) -> FALSE
                  [] IsHold(task["app"].op) /\ result = "none" -> TRUE
                  [] OTHER -> doubt
    /\ \/ result = "none"
       \/ /\ Awaiting("app") /\ result \in {"2xx", "refused"}
          /\ \E q \in replies : q.seq = task["app"].seq /\ q.class = result

\* The far end acts on a request it may still take.
FarStepOn(r) ==
    /\ UNCHANGED <<task, sent, held, hungUp, doubt>>
    /\ Open(r.seq)
    /\ \A s \in Nat : Open(s)' => Open(s)
    /\ \E class \in {"1xx", "2xx", "refused"} :
          /\ \A q \in replies' : q \in replies \/ (q.seq = r.seq /\ q.class = class)
          /\ class # "1xx" => ~ Open(r.seq)'
          /\ \/ class # "2xx" /\ far'.up = far.up /\ far'.offer = far.offer
             \/ IsBye(r.op) /\ ~ far'.up /\ far'.offer = far.offer
             \/ r.op = "info" /\ far'.up = far.up /\ far'.offer = far.offer
             \/ /\ IsInvite(r.op) /\ class = "2xx"
                /\ far'.up = far.up /\ far'.offer = OfferAfter(r.op)
                /\ \A s \in Nat : s <= r.seq => ~ Open(s)'

LEMMA FarTypes ==
    ASSUME Inv
    PROVE  /\ far \in FarType /\ far.seen \in Nat /\ far.ringing \in Nat
           /\ far.ringing <= far.seen /\ far.seen <= seq /\ seq \in Nat
           /\ \A r \in sent : r \in Request /\ r.seq \in Nat /\ r.seq > 0 /\ r.seq <= seq
           /\ \A q \in replies : q.seq \in Nat /\ q.seq <= seq
           /\ task \in [Party -> Task]
BY DEF Inv, Typed, TypeOK, Numbered, FarType, OfferOf, TimerType, Request, Response

LEMMA TakeHeld ==
    ASSUME TypeOK, NEW r \in Request, IsInvite(r.op), NEW state \in FarType,
           Take(r, state)
    PROVE  /\ \A q \in replies' : q \in replies \/ (q.seq = r.seq /\ q.class = "2xx")
           /\ far'.seen = state.seen /\ far'.ringing = 0
           /\ far'.up = state.up /\ far'.offer = OfferAfter(r.op)
<1>1. PICK grant \in (IF r.op = "refresh" THEN Grants \cup {0} ELSE {0}) :
        /\ Reply(r, "2xx", grant)
        /\ far' = [state EXCEPT
                     !.offer = OfferAfter(r.op),
                     !.ringing = 0,
                     !.timer.interval = IF grant = 0 THEN @ ELSE grant]
  BY DEF Take
<1> DEFINE h == OfferAfter(r.op)
<1>2. far' = [state EXCEPT !.offer = h, !.ringing = 0,
                           !.timer.interval = IF grant = 0 THEN @ ELSE grant]
  BY <1>1
<1> HIDE DEF h
<1>3. far'.seen = state.seen /\ far'.ringing = 0 /\ far'.up = state.up /\ far'.offer = h
  BY <1>2 DEF FarType
<1>4. \A q \in replies' : q \in replies \/ (q.seq = r.seq /\ q.class = "2xx")
  BY <1>1 DEF Reply
<1> QED BY <1>3, <1>4 DEF h

LEMMA HearsStep ==
    ASSUME Inv, NEW r \in sent, FarHears(r)
    PROVE  FarStepOn(r)
<1> DEFINE state == [far EXCEPT !.seen = r.seq]
<1>1. /\ r \in Request /\ r.seq \in Nat /\ r.seq > far.seen /\ r.seq > 0
      /\ far \in FarType /\ far.seen \in Nat /\ far.ringing \in Nat
      /\ far.ringing <= far.seen
      /\ UNCHANGED <<task, sent, held, hungUp, doubt>> /\ TypeOK
  BY FarTypes DEF FarHears, ours, call, Inv, Typed
<1>2. /\ state \in FarType /\ state.seen = r.seq /\ state.ringing = far.ringing
      /\ state.up = far.up /\ state.offer = far.offer
  BY <1>1 DEF FarType
<1>3. Open(r.seq)
  BY <1>1 DEF Open
<1>4. ASSUME far'.seen = r.seq, far'.ringing \in {0, far.ringing, r.seq}
      PROVE  /\ \A s \in Nat : Open(s)' => Open(s)
             /\ far'.ringing # r.seq => ~ Open(r.seq)'
             /\ far'.ringing = 0 => \A s \in Nat : s <= r.seq => ~ Open(s)'
  BY <1>1, <1>4 DEF Open
<1>5. ASSUME NEW class, Reply(r, class, 0)
      PROVE  \A q \in replies' : q \in replies \/ (q.seq = r.seq /\ q.class = class)
  BY <1>5 DEF Reply
<1>6. CASE \E class \in {"2xx", "refused"} :
              /\ Reply(r, class, 0) /\ far' = state
              /\ class = "refused" \/ r.op = "info"
  <2>1. PICK class \in {"2xx", "refused"} :
              /\ Reply(r, class, 0) /\ far' = state
              /\ class = "refused" \/ r.op = "info"
    BY <1>6
  <2>2. far'.ringing # r.seq
    BY <1>1, <1>2, <2>1
  <2> HIDE DEF state
  <2> QED BY <1>1, <1>2, <1>3, <1>4, <1>5, <2>1, <2>2 DEF FarStepOn
<1>7. CASE /\ IsBye(r.op) /\ Reply(r, "2xx", 0)
           /\ far' = [state EXCEPT !.up = FALSE, !.ringing = 0]
  <2>1. /\ far'.seen = r.seq /\ far'.ringing = 0 /\ far'.up = FALSE
        /\ far'.offer = far.offer
    BY <1>2, <1>7 DEF FarType
  <2>2. far'.ringing # r.seq
    BY <1>1, <2>1
  <2> HIDE DEF state
  <2> QED BY <1>1, <1>3, <1>4, <1>5, <1>7, <2>1, <2>2 DEF FarStepOn
<1>8. CASE IsInvite(r.op) /\ Take(r, state)
  <2> HIDE DEF state
  <2>1. /\ \A q \in replies' : q \in replies \/ (q.seq = r.seq /\ q.class = "2xx")
        /\ far'.seen = r.seq /\ far'.ringing = 0
        /\ far'.up = far.up /\ far'.offer = OfferAfter(r.op)
    BY <1>1, <1>2, <1>8, TakeHeld
  <2>2. far'.ringing # r.seq
    BY <1>1, <2>1
  <2> QED BY <1>1, <1>3, <1>4, <1>8, <2>1, <2>2 DEF FarStepOn
<1>9. CASE Reply(r, "1xx", 0) /\ far' = [state EXCEPT !.ringing = r.seq]
  <2>1. /\ far'.seen = r.seq /\ far'.ringing = r.seq /\ far'.up = far.up
        /\ far'.offer = far.offer
    BY <1>2, <1>9 DEF FarType
  <2> HIDE DEF state
  <2> QED BY <1>1, <1>3, <1>4, <1>5, <1>9, <2>1 DEF FarStepOn
<1> QED BY <1>6, <1>7, <1>8, <1>9 DEF FarHears

LEMMA DecidesStep ==
    ASSUME Inv, FarDecides
    PROVE  \E r \in sent : FarStepOn(r)
<1>1. PICK r \in sent :
           /\ r.seq = far.ringing
           /\ \/ far.up /\ Take(r, far)
              \/ /\ Reply(r, "refused", 0)
                 /\ far' = [far EXCEPT !.ringing = 0]
  BY DEF FarDecides
<1>2. /\ r \in Request /\ r.seq \in Nat /\ r.seq > 0 /\ IsInvite(r.op)
      /\ far \in FarType /\ far.seen \in Nat /\ far.ringing <= far.seen
      /\ UNCHANGED <<task, sent, held, hungUp, doubt>> /\ TypeOK
  BY <1>1, FarTypes DEF FarDecides, ours, call, Inv, Typed, Numbered
<1>3. Open(r.seq)
  BY <1>1, <1>2 DEF Open
<1>4. ASSUME far'.seen = far.seen, far'.ringing = 0
      PROVE  /\ \A s \in Nat : Open(s)' => Open(s)
             /\ ~ Open(r.seq)'
             /\ \A s \in Nat : s <= r.seq => ~ Open(s)'
  BY <1>1, <1>2, <1>4 DEF Open
<1>5. CASE Take(r, far)
  <2>1. /\ \A q \in replies' : q \in replies \/ (q.seq = r.seq /\ q.class = "2xx")
        /\ far'.seen = far.seen /\ far'.ringing = 0
        /\ far'.up = far.up /\ far'.offer = OfferAfter(r.op)
    BY <1>2, <1>5, TakeHeld
  <2> QED BY <1>2, <1>3, <1>4, <2>1 DEF FarStepOn
<1>6. CASE Reply(r, "refused", 0) /\ far' = [far EXCEPT !.ringing = 0]
  <2>1. /\ \A q \in replies' : q \in replies \/ (q.seq = r.seq /\ q.class = "refused")
        /\ far'.seen = far.seen /\ far'.ringing = 0
        /\ far'.up = far.up /\ far'.offer = far.offer
    BY <1>2, <1>6 DEF Reply, FarType
  <2> QED BY <1>2, <1>3, <1>4, <2>1 DEF FarStepOn
<1> QED BY <1>1, <1>5, <1>6

LEMMA ReturnsStep ==
    ASSUME Inv, NEW p \in Party, Busy(p), Turn(p), NEW result \in Result, NEW grant \in Nat,
           Return(p, result, grant),
           \/ result = "none"
           \/ Awaiting(p) /\ \E q \in replies : q.seq = task[p].seq /\ q.class = result
    PROVE  QuietStep \/ AppStep(result)
<1>1. /\ replies' \subseteq replies
      /\ UNCHANGED <<sent, far>>
      /\ \A q \in Party : ~ Awaiting(q)'
      /\ \A q \in Party : q # p => task'[q] = task[q]
      /\ "app" \in Party
  BY ReturnStep DEF Inv, Party
<1>2. CASE p = "app"
  <2>1. AppReturns(result)
    BY <1>2 DEF Return
  <2> QED BY <1>1, <1>2, <2>1 DEF AppReturns, AppStep, IsHold, Result
<1>3. CASE p = "timer"
  <2>1. UNCHANGED <<held, hungUp, doubt>>
    BY <1>3 DEF Return, call
  <2>2. ~ Awaiting("app")
    BY <1>3 DEF Inv, Typed, Lock, Turn, Party
  <2>3. ~ Awaiting("app")' /\ task'["app"] = task["app"]
    BY <1>1, <1>3
  <2>4. SameMine
    BY <2>2, <2>3 DEF SameMine
  <2> QED BY <1>1, <2>1, <2>4 DEF QuietStep
<1> QED BY <1>2, <1>3, Parties

LEMMA Kinds ==
    ASSUME Inv, [Next]_vars
    PROVE  \/ QuietStep
           \/ \E p \in Party : StartStep(p) /\ Start(p)
           \/ \E result \in Result : AppStep(result)
           \/ \E r \in sent : FarStepOn(r)
<1>a. Typed /\ TypeOK /\ Lock /\ task \in [Party -> Task] /\ "app" \in Party
      /\ replies \subseteq Response
  BY FarTypes DEF Inv, Typed, Party, TypeOK
<1>1. ASSUME NEW p \in Party, Start(p) PROVE StartStep(p)
  <2> DEFINE t == [task[p] EXCEPT !.step = "awaiting", !.seq = seq + 1]
  <2>1. /\ Set(p, t) /\ task[p].step = "waiting" /\ Turn(p)
        /\ sent' = sent \cup {[by |-> p, op |-> task[p].op, seq |-> seq + 1]}
        /\ UNCHANGED <<held, hungUp, doubt, far, replies>>
    BY <1>1 DEF Start, NextSeq, call
  <2>2. /\ task[p] \in Task /\ seq + 1 \in Nat
    BY <1>a, FarTypes
  <2>3. t \in Task /\ t.step = "awaiting" /\ t.seq = seq + 1 /\ t.op = task[p].op
    BY <2>2 DEF Task
  <2> HIDE DEF t
  <2>4. task'[p] = t /\ \A q \in Party : q # p => task'[q] = task[q]
    BY <1>a, <2>1, <2>3, SetStep
  <2>5. p # "app" => ~ Awaiting("app")'
    <3>1. p # "app" => ~ Awaiting("app")
      BY <1>a, <2>1 DEF Lock, Turn
    <3> QED BY <1>a, <2>4, <3>1 DEF Awaiting
  <2>6. task'["app"].step # "free" \/ task'["app"] = task["app"]
    BY <1>a, <2>3, <2>4
  <2>7. p = "timer" => task["timer"].op \in LoopOp
    BY <1>a, <2>1 DEF Lock, Busy, OpsOf
  <2>8. p = "app" => Awaiting("app")'
    BY <2>3, <2>4 DEF Awaiting
  <2> QED BY <2>1, <2>3, <2>4, <2>5, <2>6, <2>7, <2>8 DEF StartStep
<1>2. ASSUME NEW p \in Party, StartFails(p) \/ NoAnswer(p) PROVE QuietStep \/ AppStep("none")
  <2>1. Busy(p) /\ Turn(p) /\ Return(p, "none", 0)
    BY <1>a, <1>2, AwaitingBusy DEF StartFails, NoAnswer, Busy
  <2> QED BY <2>1, ReturnsStep DEF Result
<1>3. ASSUME NEW p \in Party, HearFinal(p)
      PROVE  QuietStep \/ \E result \in Result : AppStep(result)
  <2>1. PICK q \in replies : /\ q.seq = task[p].seq /\ q.class # "1xx"
                             /\ Return(p, q.class, q.grant)
    BY <1>3 DEF HearFinal
  <2>2. q.class \in Result /\ q.grant \in Nat /\ Busy(p) /\ Turn(p) /\ Awaiting(p)
    BY <1>a, <1>3, <2>1, AwaitingBusy DEF Response, Result, HearFinal
  <2> QED BY <2>1, <2>2, ReturnsStep
<1>4. ASSUME NEW p \in Party, HearProvisional(p) PROVE QuietStep
  <2> DEFINE t == [task[p] EXCEPT !.rung = TRUE]
  <2>1. /\ Set(p, t) /\ Awaiting(p) /\ UNCHANGED <<held, hungUp, doubt, sent, replies, far>>
    BY <1>4 DEF HearProvisional, call, net
  <2>2. t \in Task /\ t.step = "awaiting" /\ t.seq = task[p].seq /\ t.op = task[p].op
    BY <1>a, <2>1 DEF Task, Awaiting
  <2> HIDE DEF t
  <2>3. task'[p] = t /\ \A q \in Party : q # p => task'[q] = task[q]
    BY <1>a, <2>1, <2>2, SetStep
  <2>4. SameMine
    BY <1>a, <2>1, <2>2, <2>3 DEF SameMine, Awaiting
  <2> QED BY <2>1, <2>4 DEF QuietStep
<1>5. ASSUME NEW p \in Party, NEW op \in OpsOf(p), task[p].step = "free",
             Queue(p, op), UNCHANGED <<seq, loop, cancelled, call, running, net, far>>
      PROVE  QuietStep
  <2>1. Set(p, Waiting(op)) /\ Waiting(op).step = "waiting" /\ Waiting(op) \in Task
    BY <1>5, TasksTyped DEF Queue, Waiting, Free, OpsOf, Op
  <2>2. task'[p] = Waiting(op) /\ \A q \in Party : q # p => task'[q] = task[q]
    BY <1>a, <2>1, SetStep
  <2>3. SameMine
    <3>1. CASE p = "app"
      BY <1>5, <2>1, <2>2, <3>1 DEF SameMine, Awaiting
    <3>2. CASE p # "app"
      BY <1>a, <2>2, <3>2 DEF SameMine, Awaiting
    <3> QED BY <3>1, <3>2
  <2> QED BY <1>5, <2>3 DEF QuietStep, call, net
<1>6. ASSUME NEW op \in AppOp, Ask(op) PROVE QuietStep
  BY <1>5, <1>6 DEF Ask, OpsOf, Party
<1>7. CASE Wake
  BY <1>5, <1>7 DEF Wake, OpsOf, LoopOp, Party
<1>8. CASE StandDown
  <2>1. task'["app"] = task["app"]
    BY <1>a, <1>8, SetStep, TasksTyped DEF StandDown, Party
  <2> QED BY <1>8, <2>1 DEF StandDown, QuietStep, SameMine, Awaiting, call, net
<1>9. CASE Stop \/ Cancel \/ UNCHANGED vars
  BY <1>9 DEF Stop, Cancel, vars, QuietStep, SameMine, Awaiting, call, net
<1>10. CASE FarHangsUp
  BY <1>10 DEF FarHangsUp, ours, QuietStep, SameMine, Awaiting, call
<1> QED BY <1>1, <1>2, <1>3, <1>4, <1>6, <1>7, <1>8, <1>9, <1>10, HearsStep, DecidesStep
    DEF Next, Result

-----------------------------------------------------------------------------
(* Hangup.                                                                 *)

\* The request a task awaits is the one that carries its number.
LEMMA OwnRequest ==
    ASSUME Inv, Awaiting("app"), NEW r \in sent, r.seq = task["app"].seq
    PROVE  r.op = task["app"].op
BY DEF Inv, Numbered, Carries, Party

\* A 2xx on its way to a hangup comes from a far end that is down.
ConsentIsDown ==
    Awaiting("app") /\ task["app"].op = "hangup" =>
        \A q \in replies : q.seq = task["app"].seq /\ q.class = "2xx" => ~ far.up

LEMMA HangupStep ==
    ASSUME Inv, HungUpIsDown, ConsentIsDown, [Next]_vars
    PROVE  HungUpIsDown' /\ ConsentIsDown'
<1>a. far \in FarType /\ "app" \in Party
  BY FarTypes DEF Party
<1>1. CASE QuietStep
  <2>1. ~ far.up => ~ far'.up
    BY <1>a, <1>1 DEF QuietStep, FarType
  <2> QED BY <1>1, <2>1 DEF QuietStep, SameMine, HungUpIsDown, ConsentIsDown
<1>2. ASSUME NEW p \in Party, StartStep(p) PROVE HungUpIsDown' /\ ConsentIsDown'
  <2>1. UNCHANGED <<hungUp, far, replies>>
    BY <1>2 DEF StartStep
  <2>2. CASE p = "app"
    <3>1. task'["app"].seq = seq + 1 /\ \A q \in replies : q.seq # seq + 1
      BY <1>2, <2>2, FarTypes DEF StartStep
    <3> QED BY <2>1, <3>1 DEF HungUpIsDown, ConsentIsDown
  <2>3. CASE p # "app"
    BY <1>2, <2>1, <2>3 DEF StartStep, HungUpIsDown, ConsentIsDown
  <2> QED BY <2>2, <2>3
<1>3. ASSUME NEW result \in Result, AppStep(result) PROVE HungUpIsDown' /\ ConsentIsDown'
  <2>1. /\ far' = far /\ ~ Awaiting("app")'
        /\ hungUp' = (hungUp \/ (task["app"].op = "hangup" /\ result = "2xx"))
    BY <1>3 DEF AppStep, Gone
  <2>2. task["app"].op = "hangup" /\ result = "2xx" => ~ far.up
    BY <1>3 DEF AppStep, ConsentIsDown
  <2> QED BY <2>1, <2>2 DEF HungUpIsDown, ConsentIsDown
<1>4. ASSUME NEW r \in sent, FarStepOn(r) PROVE HungUpIsDown' /\ ConsentIsDown'
  <2>1. PICK class \in {"1xx", "2xx", "refused"} :
          /\ \A q \in replies' : q \in replies \/ (q.seq = r.seq /\ q.class = class)
          /\ \/ class # "2xx" /\ far'.up = far.up
             \/ IsBye(r.op) /\ ~ far'.up
             \/ r.op = "info" /\ far'.up = far.up
             \/ IsInvite(r.op) /\ far'.up = far.up
    BY <1>4 DEF FarStepOn
  <2>2. UNCHANGED <<task, hungUp>> /\ (~ far.up => ~ far'.up)
    BY <1>4, <2>1 DEF FarStepOn
  <2>3. ASSUME Awaiting("app"), task["app"].op = "hangup", NEW q \in replies',
               q.seq = task["app"].seq, q.class = "2xx"
        PROVE  ~ far'.up
    <3>1. CASE q \in replies
      BY <2>2, <2>3, <3>1 DEF ConsentIsDown
    <3>2. CASE q.seq = r.seq /\ q.class = class
      <4>1. r.op = "hangup" /\ class = "2xx"
        BY <2>3, <3>2, OwnRequest
      <4> QED BY <2>1, <4>1 DEF IsInvite
    <3> QED BY <2>1, <3>1, <3>2
  <2> QED BY <2>2, <2>3 DEF HungUpIsDown, ConsentIsDown, Awaiting
<1> QED BY <1>1, <1>2, <1>3, <1>4, Kinds

\* Whatever else is asked for, refused, lost or timed out on the dialog: when
\* hangup returns Ok the far end has left the call.
THEOREM HangupsEndTheCall == Spec => []HungUpIsDown
<1> DEFINE I == Inv /\ HungUpIsDown /\ ConsentIsDown
<1>1. Init => I
  BY InitInv DEF Init, HungUpIsDown, ConsentIsDown
<1>2. I /\ [Next]_vars => I'
  BY InvStep, HangupStep
<1>3. I => HungUpIsDown
  OBVIOUS
<1> HIDE DEF I
<1> QED BY <1>1, <1>2, <1>3, PTL DEF Spec

-----------------------------------------------------------------------------
(* Hold.                                                                   *)

\* No hold or resume but the one that is awaited can still be taken.
OthersClosed == \A r \in sent : IsHold(r.op) /\ ~ Mine(r.seq) => ~ Open(r.seq)

Holding == Awaiting("app") /\ IsHold(task["app"].op)

NoneOpen == \A r \in sent : ~ Open(r.seq)

\* HoldAgrees, with its exception.
Agreed ==
    \/ held = OnHold
    \/ body = "setup" /\ far.offer = "refresh" /\ held

\* What the answer to the present hold or resume means while it is on its way.
AnswerMeans(q) ==
    /\ q.class \in {"2xx", "refused"} => ~ Open(q.seq)
    /\ q.class = "2xx" => far.offer = task["app"].op /\ NoneOpen
    /\ q.class = "refused" /\ ~ doubt => Agreed

HoldInv ==
    /\ ~ doubt => OthersClosed
    /\ ~ doubt /\ ~ Holding => Agreed
    /\ Holding => /\ ~ doubt /\ Open(task["app"].seq) => Agreed
                  /\ \A q \in replies : q.seq = task["app"].seq => AnswerMeans(q)

LEMMA HoldQuiet ==
    ASSUME HoldInv, far \in FarType, QuietStep, body' = body
    PROVE  HoldInv'
<1>0. far'.offer = far.offer /\ far'.seen = far.seen /\ far'.ringing = far.ringing
  BY DEF QuietStep, FarType
<1>1. /\ UNCHANGED <<sent, held, doubt>> /\ replies' \subseteq replies
      /\ Awaiting("app")' <=> Awaiting("app")
      /\ Awaiting("app") => /\ task'["app"].seq = task["app"].seq
                            /\ task'["app"].op = task["app"].op
  BY DEF QuietStep, SameMine
<1>2. (Holding' <=> Holding) /\ (Agreed' <=> Agreed)
  BY <1>0, <1>1 DEF Holding, Agreed, OnHold
<1>3. \A s : (Open(s)' <=> Open(s)) /\ (Mine(s)' <=> Mine(s))
  BY <1>0, <1>1 DEF Open, Mine
<1>4. (OthersClosed' <=> OthersClosed) /\ (NoneOpen' <=> NoneOpen)
  BY <1>1, <1>3 DEF OthersClosed, NoneOpen
<1>5. ASSUME Holding, NEW q, AnswerMeans(q) PROVE AnswerMeans(q)'
  BY <1>0, <1>1, <1>2, <1>3, <1>4, <1>5 DEF AnswerMeans, Holding
<1>6. Holding => task'["app"].seq = task["app"].seq
  BY <1>1 DEF Holding
<1> QED BY <1>1, <1>2, <1>3, <1>4, <1>5, <1>6 DEF HoldInv

LEMMA HoldStart ==
    ASSUME Inv, HoldInv, NEW p \in Party, StartStep(p), Start(p), body' = body
    PROVE  HoldInv'
<1> DEFINE n == seq + 1
           new == [by |-> p, op |-> task[p].op, seq |-> n]
<1>1. ~ Awaiting("app")
  BY DEF Inv, Typed, Lock, Start, Awaiting, Party, Turn
<1>2. /\ sent' = sent \cup {new} /\ UNCHANGED <<held, doubt, far, replies>>
      /\ \A q \in replies : q.seq # n
  BY FarTypes DEF StartStep
<1>3. \A r \in sent : IsHold(r.op) /\ ~ doubt => ~ Open(r.seq)'
  BY <1>1, <1>2 DEF HoldInv, OthersClosed, Mine, Open
<1>4. ~ doubt => Agreed'
  BY <1>1, <1>2 DEF HoldInv, Holding, Agreed, OnHold
<1>5. CASE p = "app"
  <2>1. Awaiting("app")' /\ task'["app"].seq = n /\ task'["app"].op = task["app"].op
    BY <1>5 DEF StartStep
  <2>2. new.seq = n
    OBVIOUS
  <2>3. \A r \in sent' : r \in sent \/ r.seq = n
    BY <1>2, <2>2
  <2> HIDE DEF n, new
  <2>4. ~ doubt => OthersClosed'
    BY <1>3, <2>1, <2>3 DEF OthersClosed, Mine
  <2> QED BY <1>2, <1>4, <2>1, <2>4 DEF HoldInv
<1>6. CASE p # "app"
  <2>1. ~ Awaiting("app")' /\ task[p].op \in LoopOp
    BY <1>6 DEF StartStep, Party
  <2>2. ~ IsHold(new.op)
    BY <2>1 DEF IsHold, LoopOp
  <2>3. ~ doubt => OthersClosed'
    BY <1>2, <1>3, <2>2 DEF OthersClosed
  <2> HIDE DEF n, new
  <2> QED BY <1>2, <1>4, <2>1, <2>3 DEF HoldInv, Holding
<1> QED BY <1>5, <1>6

LEMMA HoldAnswered ==
    ASSUME Inv, HoldInv, NEW result \in Result, AppStep(result), body' = body
    PROVE  HoldInv'
<1> DEFINE op == task["app"].op
<1>1. /\ UNCHANGED <<sent, far>> /\ ~ Awaiting("app")'
      /\ held' = IF Accepted(op, result) THEN op = "hold" ELSE held
      /\ doubt' = CASE Accepted(op, result) -> FALSE
                    [] IsHold(op) /\ result = "none" -> TRUE
                    [] OTHER -> doubt
  BY DEF AppStep
<1>2. ~ Holding' /\ \A s : ~ Mine(s)' /\ Open(s)' = Open(s)
  BY <1>1 DEF Holding, Mine, Open
<1>3. SUFFICES ASSUME ~ doubt' PROVE OthersClosed' /\ Agreed'
  BY <1>2 DEF HoldInv
<1>4. CASE Accepted(op, result)
  <2>1. IsHold(op) /\ result = "2xx"
    BY <1>4 DEF Accepted, IsHold
  <2>2. PICK q \in replies : q.seq = task["app"].seq /\ q.class = "2xx"
    BY <2>1 DEF AppStep
  <2>3. Awaiting("app") /\ Holding /\ AnswerMeans(q)
    BY <2>1, <2>2 DEF AppStep, Holding, HoldInv
  <2>4. far.offer = op /\ NoneOpen
    BY <2>2, <2>3 DEF AnswerMeans
  <2>5. OthersClosed'
    BY <1>1, <1>2, <2>4 DEF OthersClosed, NoneOpen
  <2>6. Agreed'
    BY <1>1, <1>4, <2>4 DEF Agreed, OnHold
  <2> QED BY <2>5, <2>6
<1>5. CASE ~ Accepted(op, result)
  <2>1. ~ doubt /\ held' = held /\ ~ (IsHold(op) /\ result = "none")
    BY <1>1, <1>3, <1>5
  <2>2. Agreed' = Agreed
    BY <1>1, <2>1 DEF Agreed, OnHold
  <2>3. CASE Holding
    <3>1. PICK q \in replies : q.seq = task["app"].seq /\ q.class = "refused"
      BY <1>5, <2>1, <2>3 DEF AppStep, Accepted, Holding, IsHold
    <3>2. ~ Open(task["app"].seq) /\ Agreed
      BY <2>1, <2>3, <3>1 DEF HoldInv, AnswerMeans
    <3>3. OthersClosed'
      BY <1>1, <1>2, <2>1, <3>2 DEF HoldInv, OthersClosed, Mine
    <3> QED BY <2>2, <3>2, <3>3
  <2>4. CASE ~ Holding
    <3>1. \A r \in sent : IsHold(r.op) => ~ Mine(r.seq)
      BY <2>4, OwnRequest DEF Mine, Holding
    <3>2. OthersClosed'
      BY <1>1, <1>2, <2>1, <3>1 DEF HoldInv, OthersClosed
    <3> QED BY <2>1, <2>2, <2>4, <3>2 DEF HoldInv
  <2> QED BY <2>3, <2>4
<1> QED BY <1>4, <1>5

LEMMA HoldFar ==
    ASSUME Inv, HoldInv, NEW r \in sent, FarStepOn(r), body' = body
    PROVE  HoldInv'
<1>1. PICK class \in {"1xx", "2xx", "refused"} :
          /\ \A q \in replies' : q \in replies \/ (q.seq = r.seq /\ q.class = class)
          /\ class # "1xx" => ~ Open(r.seq)'
          /\ \/ class # "2xx" /\ far'.up = far.up /\ far'.offer = far.offer
             \/ IsBye(r.op) /\ ~ far'.up /\ far'.offer = far.offer
             \/ r.op = "info" /\ far'.up = far.up /\ far'.offer = far.offer
             \/ /\ IsInvite(r.op) /\ class = "2xx"
                /\ far'.up = far.up /\ far'.offer = OfferAfter(r.op)
                /\ \A s \in Nat : s <= r.seq => ~ Open(s)'
  BY DEF FarStepOn
<1>2. /\ UNCHANGED <<task, sent, held, doubt>> /\ Open(r.seq)
      /\ \A s \in Nat : Open(s)' => Open(s)
  BY DEF FarStepOn
<1>3. /\ \A s \in sent : s.seq \in Nat /\ s.seq <= seq
      /\ \A q \in replies : q.seq \in Nat
      /\ r.seq \in Nat /\ body \in Body
  BY FarTypes DEF Inv, Typed, TypeOK
<1>4. Awaiting("app") => task["app"].seq = seq /\ seq \in Nat
  BY FarTypes DEF Inv, Numbered, Carries, Party
<1>5. Holding' = Holding /\ \A s : Mine(s)' = Mine(s)
  BY <1>2 DEF Holding, Mine, Awaiting
<1>6. OthersClosed => OthersClosed'
  BY <1>2, <1>3, <1>5 DEF OthersClosed
<1>7. \/ far'.offer = far.offer
      \/ IsHold(r.op) /\ class = "2xx"
      \/ far'.offer = "refresh" /\ body = "setup"
  BY <1>1, <1>3 DEF OfferAfter, IsInvite, IsHold, Body
<1>8. IsHold(r.op) /\ OthersClosed => Mine(r.seq) /\ Holding
  BY <1>2, OwnRequest DEF OthersClosed, Mine, Holding
<1>9. ~ doubt => OthersClosed'
  BY <1>6 DEF HoldInv
<1>10. ASSUME Agreed, ~ (IsHold(r.op) /\ class = "2xx") PROVE Agreed'
  BY <1>2, <1>7, <1>10, FarTypes DEF Agreed, OnHold, Inv, Typed, TypeOK
<1>11. ~ doubt /\ ~ Holding => Agreed'
  BY <1>8, <1>10 DEF HoldInv
<1>12. ASSUME Holding, ~ doubt, Open(task["app"].seq)'
       PROVE  Agreed'
  <2>1. Open(task["app"].seq) /\ Agreed
    BY <1>2, <1>4, <1>12 DEF HoldInv, Holding
  <2>2. r.seq = task["app"].seq => ~ (class = "2xx")
    BY <1>1, <1>2, <1>12 DEF Open
  <2>3. OthersClosed
    BY <1>12 DEF HoldInv
  <2> QED BY <1>8, <1>10, <2>1, <2>2, <2>3 DEF Mine
<1>13. ASSUME Holding, NEW q \in replies', q.seq = task["app"].seq
       PROVE  AnswerMeans(q)'
  <2>1. CASE q \in replies
    <3>1. AnswerMeans(q)
      BY <1>13, <2>1 DEF HoldInv
    <3>2. q.class \in {"2xx", "refused"} => ~ Open(q.seq) /\ ~ Open(q.seq)'
      BY <1>2, <1>3, <2>1, <3>1 DEF AnswerMeans
    <3>3. q.class # "2xx"
      BY <1>2, <3>1 DEF AnswerMeans, NoneOpen
    <3>4. ASSUME q.class = "refused", ~ doubt PROVE Agreed'
      <4>1. Agreed /\ OthersClosed /\ r.seq # task["app"].seq
        BY <1>2, <1>13, <3>1, <3>2, <3>4 DEF AnswerMeans, HoldInv
      <4> QED BY <1>8, <1>10, <4>1 DEF Mine
    <3> QED BY <1>2, <3>2, <3>3, <3>4 DEF AnswerMeans
  <2>2. CASE q.seq = r.seq /\ q.class = class /\ q \notin replies
    <3>1. r.op = task["app"].op /\ IsHold(r.op) /\ r.seq = seq
      BY <1>4, <1>13, <2>2, OwnRequest DEF Holding
    <3>2. class # "1xx" => ~ Open(q.seq)'
      BY <1>1, <2>2
    <3>3. class = "2xx" => /\ far'.offer = r.op
                           /\ \A s \in Nat : s <= seq => ~ Open(s)'
      BY <1>1, <3>1 DEF IsHold, IsBye, IsInvite, OfferAfter
    <3>4. class = "2xx" => NoneOpen'
      BY <1>2, <1>3, <3>3 DEF NoneOpen
    <3>5. ASSUME class = "refused", ~ doubt PROVE Agreed'
      BY <1>2, <1>10, <1>13, <2>2, <3>5 DEF HoldInv
    <3> QED BY <1>2, <2>2, <3>1, <3>2, <3>3, <3>4, <3>5 DEF AnswerMeans
  <2> QED BY <1>1, <2>1, <2>2
<1> QED BY <1>2, <1>5, <1>9, <1>11, <1>12, <1>13 DEF HoldInv

\* Unless a hold or resume was left without an answer, the hold state is the
\* far end's whenever the application is between two operations, whatever was
\* refused, lost, copied or answered late, and whatever refreshes carry: those
\* that repeat the set-up's SDP part the two in one way only, a call that is
\* held here and plays there.
THEOREM HoldFollowsTheFarEnd == Spec => []HoldAgrees
<1> DEFINE I == Inv /\ HoldInv
<1>1. Init => I
  <2> SUFFICES ASSUME Init PROVE HoldInv
    BY InitInv
  <2>1. sent = {} /\ held = FALSE /\ far.offer = "setup"
    BY DEF Init
  <2>2. ~ Awaiting("app")
    BY DEF Init, Awaiting, Party, Free, Ended
  <2> QED BY <2>1, <2>2 DEF HoldInv, OthersClosed, Agreed, Holding, OnHold
<1>2. I /\ [Next]_vars => I'
  <2>1. ASSUME I, [Next]_vars PROVE body' = body
    BY <2>1, BodyFixed DEF Inv, Typed, TypeOK, Response, Numbered
  <2> QED BY <2>1, InvStep, Kinds, FarTypes, HoldQuiet, HoldStart, HoldAnswered,
             HoldFar
<1>3. I => HoldAgrees
  BY DEF HoldInv, HoldAgrees, Holding, Awaiting, Agreed
<1> HIDE DEF I
<1> QED BY <1>1, <1>2, <1>3, PTL DEF Spec

=============================================================================
