--------------------------- MODULE RegistrarProofs ---------------------------
(***************************************************************************)
(* Proofs about Registrar: its types, and that the CSeq of its REGISTERs   *)
(* only grows when the tasks that share it take turns (Overlap = FALSE).   *)
(*                                                                         *)
(* FreshCSeq compares the requests already sent; it is not inductive,      *)
(* since nothing in it bounds the number the next one will carry.          *)
(* Numbered adds that bound: the number of the REGISTER being built or     *)
(* awaited while there is one, state.cseq while there is none.             *)
(***************************************************************************)
EXTENDS Registrar, SequenceTheorems, TLAPS

Request == [task : Task, op : Op, cseq : Nat, expires : Nat,
            credentials : BOOLEAN]

LEMMA IdleTyped == Idle \in Activity
BY DEF Idle, Activity, Op, Step, Outcome

LEMMA AskedTyped ==
    ASSUME TypeOK, NEW op \in Op
    PROVE  Asked(op) \in Nat
BY RegistrarAssumption DEF TypeOK, Op, Asked, RequestedExpires, Greatest

LEMMA RestTyped == \A t \in Task : Rest(t) \in Step
BY DEF Rest, Step

LEMMA ReturnTyped == \A t \in Task : Return(t) \in Step
BY DEF Return, Step

LEMMA TaskTyped == TypeOK => \A t \in Task : task[t] \in Activity
BY DEF TypeOK

\* One task's activity is replaced by another.
LEMMA Replaced ==
    ASSUME TypeOK, NEW t \in Task, NEW r \in Activity,
           task' = [task EXCEPT ![t] = r]
    PROVE  task' \in [Task -> Activity]
BY DEF TypeOK

\* Report leaves a well-typed table.
LEMMA ReportTyped ==
    ASSUME TypeOK, NEW t \in Task, NEW outcome \in Outcome, NEW value \in Nat,
           Report(t, outcome, value)
    PROVE  task' \in [Task -> Activity]
<1>1. task[t] \in Activity /\ Return(t) \in Step
  BY ReturnTyped DEF TypeOK
<1>2. [task[t] EXCEPT !.step = Return(t), !.outcome = outcome, !.value = value]
        \in Activity
  BY <1>1 DEF Activity
<1>3. task' = [task EXCEPT ![t] = [task[t] EXCEPT !.step = Return(t),
                                    !.outcome = outcome, !.value = value]]
  BY DEF Report
<1> QED BY <1>2, <1>3, Replaced

LEMMA TypeStep == TypeOK /\ [Next]_vars => TypeOK'
<1> SUFFICES ASSUME TypeOK, [Next]_vars PROVE TypeOK'
  OBVIOUS
<1> USE RegistrarAssumption
<1>1. ASSUME NEW t \in Task, NEW op \in Op, Begin(t, op) PROVE TypeOK'
  <2>1. Asked(op) \in Nat
    BY AskedTyped
  <2>2. [Idle EXCEPT !.op = op, !.step = "attempting", !.requested = Asked(op)]
          \in Activity
    BY <2>1, IdleTyped DEF Activity, Step
  <2>3. task' = [task EXCEPT ![t] = [Idle EXCEPT !.op = op, !.step = "attempting",
                                                !.requested = Asked(op)]]
    BY <1>1 DEF Begin
  <2>4. task' \in [Task -> Activity]
    BY <2>2, <2>3, Replaced
  <2>5. /\ ops' \in [Task -> Nat]
        /\ UNCHANGED <<state, cancelled, up, settled, refusals, remote>>
    BY <1>1 DEF Begin, TypeOK
  <2> QED BY <2>4, <2>5 DEF TypeOK, remote
<1>2. ASSUME NEW t \in Task, TakeCSeq(t) PROVE TypeOK'
  <2> DEFINE n == state.cseq + 1
             r == [task[t] EXCEPT !.step = "sending", !.cseq = n,
                                  !.challenged = FALSE]
  <2>2. /\ task' = [task EXCEPT ![t] = r]
        /\ state' = [state EXCEPT !.cseq = n]
        /\ UNCHANGED <<local, remote>>
    BY <1>2 DEF TakeCSeq
  <2>0. task[t] \in Activity /\ n \in Nat
    BY TaskTyped DEF TypeOK
  <2> HIDE DEF n
  <2>1. r \in Activity
    BY <2>0 DEF Activity, Step
  <2> HIDE DEF r
  <2>3. task' \in [Task -> Activity]
    BY <2>1, <2>2, Replaced
  <2> QED BY <2>0, <2>2, <2>3 DEF TypeOK, local, remote
<1>3. ASSUME NEW t \in Task, Send(t) PROVE TypeOK'
  <2>1. CASE up
    <3> DEFINE i == Len(sent) + 1
               k == task[t].tries + 1
               r == [task[t] EXCEPT !.step = "awaiting", !.id = i, !.tries = k]
    <3>1. /\ sent' = Append(sent, [task |-> t, op |-> task[t].op,
                                   cseq |-> task[t].cseq,
                                   expires |-> task[t].requested,
                                   credentials |-> task[t].challenged])
          /\ flight' = flight \cup {i}
          /\ task' = [task EXCEPT ![t] = r]
          /\ UNCHANGED <<answers, far, state, local>>
      BY <1>3, <2>1 DEF Send, Built
    <3>5. i \in Nat /\ i = Len(sent) + 1 /\ task[t] \in Activity
      BY TaskTyped DEF TypeOK
    <3>6. k \in Nat
      BY <3>5 DEF Activity
    <3> HIDE DEF i, k
    <3>7. r \in Activity
      BY <3>5, <3>6 DEF Activity, Step
    <3> HIDE DEF r
    <3>2. [task |-> t, op |-> task[t].op, cseq |-> task[t].cseq,
           expires |-> task[t].requested, credentials |-> task[t].challenged]
             \in Request
      <4>1. task[t] \in Activity
        BY TaskTyped
      <4> QED BY <4>1 DEF Activity, Request
    <3>3. sent' \in Seq(Request) /\ Len(sent') = Len(sent) + 1 /\ Len(sent) \in Nat
      BY <3>1, <3>2 DEF TypeOK, Request
    <3>4. flight' \subseteq DOMAIN sent'
      <4>1. DOMAIN sent = 1..Len(sent) /\ DOMAIN sent' = 1..Len(sent')
        BY <3>3 DEF TypeOK
      <4>2. i \in DOMAIN sent' /\ DOMAIN sent \subseteq DOMAIN sent'
        BY <3>3, <3>5, <4>1
      <4> QED BY <3>1, <4>2 DEF TypeOK
    <3>8. task' \in [Task -> Activity]
      BY <3>1, <3>7, Replaced
    <3> QED BY <3>1, <3>3, <3>4, <3>8 DEF TypeOK, local, Request
  <2>2. CASE ~up
    <3>1. Report(t, "EngineStopped", 0) /\ UNCHANGED <<state, local, remote>>
      BY <1>3, <2>2 DEF Send, Built
    <3> QED BY <3>1, ReportTyped DEF TypeOK, local, remote, Outcome
  <2> QED BY <2>1, <2>2
<1>4. ASSUME NEW t \in Task, NEW a \in answers, Receive(t, a) PROVE TypeOK'
  <2>1. a.expires \in Nat
    BY DEF TypeOK
  <2>2. ASSUME Retry(t) PROVE task' \in [Task -> Activity]
    <3> DEFINE n == task[t].cseq + 1
               r == [task[t] EXCEPT !.step = "sending", !.cseq = n,
                                    !.challenged = TRUE]
    <3>1. task' = [task EXCEPT ![t] = r]
      BY <2>2 DEF Retry
    <3>2. task[t] \in Activity
      BY TaskTyped
    <3>3. n \in Nat
      BY <3>2 DEF Activity
    <3> HIDE DEF n
    <3>4. r \in Activity
      BY <3>2, <3>3 DEF Activity, Step
    <3> QED BY <3>1, <3>4, Replaced
  <2>3. \/ Retry(t)
        \/ \E outcome \in Outcome, value \in Nat : Report(t, outcome, value)
    BY <1>4, <2>1 DEF Receive, Outcome
  <2>4. task' \in [Task -> Activity]
    BY <2>2, <2>3, ReportTyped
  <2>5. answers' \subseteq answers /\ UNCHANGED <<sent, flight, far, state, local>>
    BY <1>4 DEF Receive, Forget
  <2> QED BY <2>4, <2>5 DEF TypeOK, local
<1>5. ASSUME NEW t \in Task, TimeOut(t) PROVE TypeOK'
  <2>1. task' \in [Task -> Activity]
    BY <1>5, ReportTyped DEF TimeOut, Outcome
  <2>2. answers' \subseteq answers /\ UNCHANGED <<sent, flight, far, state, local>>
    BY <1>5 DEF TimeOut, Forget
  <2> QED BY <2>1, <2>2 DEF TypeOK, local
<1>6. ASSUME NEW t \in Task, Disconnected(t) PROVE TypeOK'
  <2>1. task' \in [Task -> Activity]
    BY <1>6, ReportTyped DEF Disconnected, Outcome
  <2>2. answers' \subseteq answers /\ UNCHANGED <<sent, flight, far, state, local>>
    BY <1>6 DEF Disconnected, Forget
  <2> QED BY <2>1, <2>2 DEF TypeOK, local
<1>7. ASSUME NEW t \in Task, Carry(t) PROVE TypeOK'
  <2>1. [task[t] EXCEPT !.step = "settling"] \in Activity
    <3>1. task[t] \in Activity
      BY TaskTyped
    <3> QED BY <3>1 DEF Activity, Step
  <2>2. /\ task' = [task EXCEPT ![t] = [task[t] EXCEPT !.step = "settling"]]
        /\ state' = [state EXCEPT !.cseq = Carried(state.cseq, task[t].cseq)]
        /\ UNCHANGED <<local, remote>>
    BY <1>7 DEF Carry
  <2>3. task' \in [Task -> Activity]
    BY <2>1, <2>2, Replaced
  <2>4. Carried(state.cseq, task[t].cseq) \in Nat
    <3>1. task[t] \in Activity /\ state.cseq \in Nat
      BY TaskTyped DEF TypeOK
    <3>2. task[t].cseq \in Nat
      BY <3>1 DEF Activity
    <3> QED BY <3>1, <3>2 DEF Carried, Greatest
  <2> QED BY <2>2, <2>3, <2>4 DEF TypeOK, local, remote
<1>8. ASSUME NEW t \in Task, Settle(t) PROVE TypeOK'
  <2>1. /\ task[t].value \in Nat /\ Granted(t) \in Nat
        /\ task[t].outcome \in Outcome /\ task[t].op \in Op
    <3>1. task[t] \in Activity
      BY TaskTyped
    <3> QED BY <3>1 DEF Activity, Granted
  <2>2. ASSUME Conclude(t)
        PROVE  task' \in [Task -> Activity] /\ settled' \in [op : Op, outcome : Outcome]
    <3>1. [task[t] EXCEPT !.step = Rest(t)] \in Activity
      <4>1. task[t] \in Activity /\ Rest(t) \in Step
        BY TaskTyped, RestTyped
      <4> QED BY <4>1 DEF Activity
    <3>2. task' = [task EXCEPT ![t] = [task[t] EXCEPT !.step = Rest(t)]]
      BY <2>2 DEF Conclude
    <3>3. task' \in [Task -> Activity]
      BY <3>1, <3>2, Replaced
    <3> QED BY <2>1, <2>2, <3>3 DEF Conclude
  <2>3. task' \in [Task -> Activity] /\ settled' \in [op : Op, outcome : Outcome]
    <3>1. CASE Conclude(t)
      BY <2>2, <3>1
    <3> DEFINE r == [task[t] EXCEPT !.step = "attempting",
                                    !.requested = task[t].value, !.retried = TRUE]
    <3>2. CASE task' = [task EXCEPT ![t] = r] /\ UNCHANGED settled
      <4>1. r \in Activity
        <5>1. task[t] \in Activity
          BY TaskTyped
        <5> QED BY <2>1, <5>1 DEF Activity, Step
      <4>2. task' \in [Task -> Activity]
        BY <3>2, <4>1, Replaced
      <4> QED BY <3>2, <4>2 DEF TypeOK
    <3> QED BY <1>8, <3>1, <3>2 DEF Settle
  <2>4. state' \in [cseq : Nat, floor : Nat \cup {None},
                    negotiated : Nat \cup {None}] /\ refusals' \in Nat
    <3>1. \/ state' = [state EXCEPT !.negotiated = Granted(t)]
          \/ state' = [state EXCEPT !.floor = task[t].value]
          \/ UNCHANGED state
      BY <1>8 DEF Settle
    <3>2. refusals' \in {refusals, refusals + 1}
      BY <1>8 DEF Settle
    <3>3. refusals' \in Nat
      BY <3>2 DEF TypeOK
    <3> DEFINE g == Granted(t)
               v == task[t].value
    <3>4. /\ g \in Nat /\ v \in Nat
          /\ \/ state' = [state EXCEPT !.negotiated = g]
             \/ state' = [state EXCEPT !.floor = v]
             \/ UNCHANGED state
      BY <2>1, <3>1
    <3> HIDE DEF g, v
    <3>5. state' \in [cseq : Nat, floor : Nat \cup {None},
                      negotiated : Nat \cup {None}]
      BY <3>4 DEF TypeOK
    <3> QED BY <3>3, <3>5
  <2>5. UNCHANGED <<cancelled, up, ops, remote>>
    BY <1>8 DEF Settle
  <2> QED BY <2>3, <2>4, <2>5 DEF TypeOK, remote
<1>9. CASE Cancel
  BY <1>9 DEF Cancel, TypeOK, remote
<1>10. CASE StopKeepalive
  <2>1. task' \in [Task -> Activity]
    <3>1. task' = [task EXCEPT ![Keepalive] = [task[Keepalive] EXCEPT !.step = "stopped"]]
      BY <1>10 DEF StopKeepalive
    <3>2. CASE Keepalive \in Task
      <4>1. task[Keepalive] \in Activity
        BY <3>2 DEF TypeOK
      <4>2. [task[Keepalive] EXCEPT !.step = "stopped"] \in Activity
        BY <4>1 DEF Activity, Step
      <4> QED BY <3>1, <3>2, <4>2, Replaced
    <3>3. CASE Keepalive \notin Task
      BY <3>1, <3>3 DEF TypeOK
    <3> QED BY <3>2, <3>3
  <2> QED BY <1>10, <2>1 DEF StopKeepalive, TypeOK, local, remote
<1>11. CASE StopEngine
  BY <1>11 DEF StopEngine, TypeOK, remote
<1>12. ASSUME NEW n \in flight, NEW status \in {"ok", "challenge", "unanswerable",
                                               "brief", "failed"},
             NEW expires \in Nat, Reply(n, status, expires),
             far' \in [binding : Nat, seen : Nat, asked : Nat, named : BOOLEAN]
      PROVE  TypeOK'
  <2>1. n \in Nat
    <3>1. sent \in Seq([task : Task, op : Op, cseq : Nat, expires : Nat,
                        credentials : BOOLEAN])
          /\ n \in DOMAIN sent
      BY DEF TypeOK
    <3> DEFINE s == sent
               R == [task : Task, op : Op, cseq : Nat, expires : Nat, credentials : BOOLEAN]
    <3> HIDE DEF R
    <3>2. s \in Seq(R) /\ n \in DOMAIN s
      BY <3>1 DEF R
    <3> HIDE DEF s
    <3> QED BY <3>2
  <2>2. answers' \subseteq [id : Nat, expires : Nat,
                            status : {"ok", "challenge", "unanswerable", "brief",
                                      "failed"}]
    <3>1. answers' = answers \cup
             {[id |-> n, status |-> status, expires |-> expires] :
                 t \in {u \in Task : task[u].step = "awaiting" /\ task[u].id = n}}
      BY <1>12 DEF Reply
    <3>2. [id |-> n, status |-> status, expires |-> expires]
             \in [id : Nat, expires : Nat,
                  status : {"ok", "challenge", "unanswerable", "brief", "failed"}]
      BY <2>1
    <3> QED BY <3>1, <3>2 DEF TypeOK
  <2> QED BY <1>12, <2>2 DEF Reply, TypeOK, local
<1>13. ASSUME NEW n \in flight, Refuse(n) PROVE TypeOK'
  <2>1. far' \in [binding : Nat, seen : Nat, asked : Nat, named : BOOLEAN]
    BY <1>13 DEF Refuse, TypeOK
  <2> QED BY <1>12, <1>13, <2>1 DEF Refuse
<1>14. ASSUME NEW n \in flight, AnswerQuery(n) PROVE TypeOK'
  <2>1. far' \in [binding : Nat, seen : Nat, asked : Nat, named : BOOLEAN]
    BY <1>14 DEF AnswerQuery, TypeOK
  <2> QED BY <1>12, <1>14, <2>1 DEF AnswerQuery
<1>15. ASSUME NEW n \in flight, NEW min \in Floor, TooBrief(n, min) PROVE TypeOK'
  <2>1. far' \in [binding : Nat, seen : Nat, asked : Nat, named : BOOLEAN]
    BY <1>15 DEF TooBrief, TypeOK
  <2> QED BY <1>12, <1>15, <2>1 DEF TooBrief
<1>16. ASSUME NEW n \in flight, NEW granted \in Lifetime \cup {0},
              NEW named \in BOOLEAN, Bind(n, granted, named)
       PROVE  TypeOK'
  <2>1. far' \in [binding : Nat, seen : Nat, asked : Nat, named : BOOLEAN]
    <3>1. sent[n] \in Request
      <4>1. sent \in Seq(Request) /\ n \in DOMAIN sent
        BY DEF TypeOK, Request
      <4>2. n \in 1..Len(sent)
        BY <4>1
      <4> QED BY <4>1, <4>2, ElementOfSeq
    <3>2. granted \in Nat /\ sent[n].cseq \in Nat /\ sent[n].expires \in Nat
      BY <3>1 DEF Request
    <3>3. far' = [binding |-> granted, seen |-> sent[n].cseq,
                  asked |-> sent[n].expires, named |-> named]
      BY <1>16 DEF Bind
    <3> QED BY <3>2, <3>3
  <2> QED BY <1>12, <1>16, <2>1 DEF Bind
<1>17. CASE UNCHANGED vars
  BY <1>17 DEF vars, remote, TypeOK
<1> QED BY <1>1, <1>2, <1>3, <1>4, <1>5, <1>6, <1>7, <1>8, <1>9, <1>10, <1>11,
           <1>13, <1>14, <1>15, <1>16, <1>17 DEF Next

LEMMA InitTyped == Init => TypeOK
<1> SUFFICES ASSUME Init PROVE TypeOK
  OBVIOUS
<1>1. task \in [Task -> Activity]
  BY IdleTyped DEF Init
<1>2. sent = <<>> /\ flight = {} /\ answers = {}
  BY DEF Init
<1>3. /\ state \in [cseq : Nat, floor : Nat \cup {None},
                     negotiated : Nat \cup {None}]
      /\ far \in [binding : Nat, seen : Nat, asked : Nat, named : BOOLEAN]
      /\ cancelled \in BOOLEAN /\ up \in BOOLEAN
      /\ ops \in [Task -> Nat] /\ refusals \in Nat
  BY DEF Init
<1>4. settled \in [op : Op, outcome : Outcome]
  BY DEF Init, Op, Outcome
<1> QED BY <1>1, <1>2, <1>3, <1>4 DEF TypeOK

\* The registration's state, its tasks and the far end keep their types.
THEOREM RegistrarTypes == Spec => []TypeOK
BY InitTyped, TypeStep, PTL DEF Spec

-----------------------------------------------------------------------------
(* The numbers of the REGISTERs. *)

\* The task has taken a number that the state may not know yet.
Numbering(t) == task[t].step \in {"sending", "awaiting", "carrying"}

OneBusy == \A t, u \in Task : Busy(t) /\ Busy(u) => t = u

Numbered ==
    /\ \A t \in Task, i \in DOMAIN sent :
          /\ Numbering(t) => sent[i].cseq <= task[t].cseq
          /\ task[t].step = "sending" => sent[i].cseq < task[t].cseq
    /\ (\A t \in Task : ~Numbering(t)) =>
          \A i \in DOMAIN sent : sent[i].cseq <= state.cseq
    /\ \A t \in Task : Numbering(t) /\ task[t].op = "probe" =>
          task[t].cseq <= state.cseq /\ task[t].step # "carrying"

Inv == TypeOK /\ OneBusy /\ Numbered /\ FreshCSeq

LEMMA NumberingBusy == \A t \in Task : Numbering(t) => Busy(t)
BY DEF Numbering, Busy

\* What is known of the parts of a well-typed state.
LEMMA Parts ==
    ASSUME TypeOK
    PROVE  /\ state.cseq \in Nat
           /\ \A t \in Task : task[t] \in Activity /\ task[t].cseq \in Nat
           /\ sent \in Seq(Request)
           /\ DOMAIN sent = 1..Len(sent)
           /\ \A i \in DOMAIN sent : sent[i] \in Request /\ sent[i].cseq \in Nat
<1>1. state.cseq \in Nat /\ sent \in Seq(Request) /\ DOMAIN sent = 1..Len(sent)
  BY DEF TypeOK, Request
<1>2. ASSUME NEW t \in Task PROVE task[t] \in Activity /\ task[t].cseq \in Nat
  <2>1. task[t] \in Activity
    BY TaskTyped
  <2> QED BY <2>1 DEF Activity
<1>3. ASSUME NEW i \in DOMAIN sent PROVE sent[i] \in Request /\ sent[i].cseq \in Nat
  <2>1. sent[i] \in Request
    BY <1>1, ElementOfSeq
  <2> QED BY <2>1 DEF Request
<1> QED BY <1>1, <1>2, <1>3

\* Replacing one task's activity shows in that task alone.
LEMMA Elsewhere ==
    ASSUME TypeOK, NEW t \in Task, NEW r, task' = [task EXCEPT ![t] = r]
    PROVE  task'[t] = r /\ \A u \in Task \ {t} : task'[u] = task[u]
BY DEF TypeOK

\* A step of one task that sends nothing keeps the numbering if it keeps the
\* task's own share of it.
LEMMA OwnStep ==
    ASSUME Inv, TypeOK', NEW t \in Task,
           sent' = sent,
           \A u \in Task \ {t} : task'[u] = task[u],
           \A u \in Task \ {t} : ~Busy(u),
           Numbering(t)' => \A i \in DOMAIN sent : sent[i].cseq <= task'[t].cseq,
           task'[t].step = "sending" =>
               \A i \in DOMAIN sent : sent[i].cseq < task'[t].cseq,
           ~Numbering(t)' => \A i \in DOMAIN sent : sent[i].cseq <= state'.cseq,
           Numbering(t)' /\ task'[t].op = "probe" =>
               task'[t].cseq <= state'.cseq /\ task'[t].step # "carrying"
    PROVE  Inv'
<1>1. \A u \in Task \ {t} : ~Busy(u)' /\ ~Numbering(u)'
  BY NumberingBusy DEF Busy, Numbering
<1>2. OneBusy'
  BY <1>1 DEF OneBusy
<1>3. FreshCSeq'
  BY DEF Inv, FreshCSeq
<1>4. \A u \in Task, i \in DOMAIN sent :
         /\ Numbering(u)' => sent[i].cseq <= task'[u].cseq
         /\ task'[u].step = "sending" => sent[i].cseq < task'[u].cseq
  BY <1>1 DEF Numbering
<1>5. Numbered'
  BY <1>1, <1>4 DEF Numbered
<1> QED BY <1>2, <1>3, <1>5 DEF Inv

\* A step that touches neither the tasks, the wire nor the last number.
LEMMA FarStep ==
    ASSUME Inv, TypeOK', task' = task, sent' = sent, state' = state
    PROVE  Inv'
BY DEF Inv, OneBusy, Busy, Numbered, Numbering, FreshCSeq

\* A flow that returns leaves the number it used to Carry, or used none that
\* the state does not know.
LEMMA ReturnStep ==
    ASSUME Inv, TypeOK', NEW t \in Task, Numbering(t),
           sent' = sent, state' = state,
           \A u \in Task \ {t} : task'[u] = task[u],
           task'[t].step = Return(t),
           task'[t].op = task[t].op, task'[t].cseq = task[t].cseq
    PROVE  Inv'
<1>1. \A u \in Task \ {t} : ~Busy(u)
  BY NumberingBusy DEF Inv, OneBusy
<1>2. \A i \in DOMAIN sent : sent[i].cseq <= task[t].cseq
  BY DEF Inv, Numbered
<1>3. CASE task[t].op = "probe"
  <2>1. task'[t].step = "idle" /\ ~Numbering(t)'
    BY <1>3 DEF Return, Numbering
  <2>2. task[t].cseq <= state.cseq
    BY <1>3 DEF Inv, Numbered
  <2>3. \A i \in DOMAIN sent : sent[i].cseq <= state'.cseq
    BY <1>2, <2>2, Parts DEF Inv
  <2> QED BY <1>1, <2>1, <2>3, OwnStep
<1>4. CASE task[t].op # "probe"
  <2>1. task'[t].step = "carrying" /\ Numbering(t)'
    BY <1>4 DEF Return, Numbering
  <2> QED BY <1>1, <1>2, <1>4, <2>1, OwnStep
<1> QED BY <1>3, <1>4

\* Append puts a request that carries more than all before it.
LEMMA SendStep ==
    ASSUME Inv, TypeOK', NEW t \in Task, task[t].step = "sending",
           NEW m \in Request, m.cseq = task[t].cseq, sent' = Append(sent, m),
           state' = state,
           \A u \in Task \ {t} : task'[u] = task[u],
           task'[t].step = "awaiting",
           task'[t].op = task[t].op, task'[t].cseq = task[t].cseq
    PROVE  Inv'
<1>1. Numbering(t) /\ Busy(t)
  BY DEF Numbering, Busy
<1>2. \A u \in Task \ {t} : ~Busy(u)' /\ ~Numbering(u)' /\ ~Busy(u)
  BY <1>1, NumberingBusy DEF Inv, OneBusy, Busy, Numbering
<1>3. OneBusy'
  BY <1>2 DEF OneBusy
<1>4. /\ sent \in Seq(Request) /\ Len(sent) \in Nat
      /\ Len(sent') = Len(sent) + 1
      /\ DOMAIN sent = 1..Len(sent) /\ DOMAIN sent' = 1..(Len(sent) + 1)
      /\ \A i \in 1..Len(sent) : sent'[i] = sent[i]
      /\ sent'[Len(sent) + 1] = m
  BY Parts DEF Inv
<1>5. \A i \in 1..Len(sent) : sent[i].cseq < task[t].cseq /\ sent[i].cseq \in Nat
  BY <1>4, Parts DEF Inv, Numbered
<1>6. task[t].cseq \in Nat
  BY Parts DEF Inv
<1>7. FreshCSeq'
  <2> SUFFICES ASSUME NEW i \in DOMAIN sent', NEW j \in DOMAIN sent', i < j
               PROVE  sent'[i].cseq < sent'[j].cseq
    BY DEF FreshCSeq
  <2>1. i \in 1..Len(sent) /\ sent'[i] = sent[i]
    BY <1>4
  <2>2. CASE j \in 1..Len(sent)
    BY <1>4, <2>1, <2>2 DEF Inv, FreshCSeq
  <2>3. CASE j = Len(sent) + 1
    BY <1>4, <1>5, <2>1, <2>3
  <2> QED BY <1>4, <2>2, <2>3
<1>8. \A i \in DOMAIN sent' : sent'[i].cseq <= task'[t].cseq
  <2> SUFFICES ASSUME NEW i \in DOMAIN sent' PROVE sent'[i].cseq <= task[t].cseq
    OBVIOUS
  <2>1. CASE i \in 1..Len(sent)
    BY <1>4, <1>5, <1>6, <2>1
  <2>2. CASE i = Len(sent) + 1
    BY <1>4, <1>6, <2>2
  <2> QED BY <1>4, <2>1, <2>2
<1>9. Numbering(t)'
  BY DEF Numbering
<1>10. task'[t].op = "probe" => task'[t].cseq <= state'.cseq
  BY <1>1 DEF Inv, Numbered
<1>11. Numbered'
  <2>1. \A u \in Task, i \in DOMAIN sent' :
           /\ Numbering(u)' => sent'[i].cseq <= task'[u].cseq
           /\ task'[u].step # "sending"
    BY <1>2, <1>8 DEF Numbering
  <2>2. \A u \in Task : Numbering(u)' /\ task'[u].op = "probe" =>
           task'[u].cseq <= state'.cseq /\ task'[u].step # "carrying"
    BY <1>2, <1>10
  <2> QED BY <1>9, <2>1, <2>2 DEF Numbered
<1> QED BY <1>3, <1>7, <1>11 DEF Inv

\* A step of the busy task that is not one of a flow, and gives it no number.
LEMMA QuietStep ==
    ASSUME Inv, TypeOK', NEW t \in Task, ~Numbering(t),
           \A u \in Task \ {t} : ~Busy(u),
           sent' = sent, state'.cseq = state.cseq,
           \A u \in Task \ {t} : task'[u] = task[u],
           ~Numbering(t)'
    PROVE  Inv'
<1>1. \A u \in Task : ~Numbering(u)
  BY NumberingBusy
<1>2. \A i \in DOMAIN sent : sent[i].cseq <= state'.cseq
  BY <1>1 DEF Inv, Numbered
<1>3. task'[t].step # "sending"
  BY DEF Numbering
<1> QED BY <1>2, <1>3, OwnStep

LEMMA InvStep ==
    ASSUME Overlap = FALSE, Inv, [Next]_vars
    PROVE  Inv'
<1>0. TypeOK /\ TypeOK'
  BY TypeStep DEF Inv
<1>a. \A t \in Task : Busy(t) => \A u \in Task \ {t} : ~Busy(u)
  BY DEF Inv, OneBusy
<1>1. ASSUME NEW t \in Task, NEW op \in Op, Begin(t, op) PROVE Inv'
  <2> DEFINE r == [Idle EXCEPT !.op = op, !.step = "attempting",
                               !.requested = Asked(op)]
  <2>1. task' = [task EXCEPT ![t] = r] /\ UNCHANGED <<state, remote>> /\ Quiet
    BY <1>1 DEF Begin
  <2>2. r.step = "attempting"
    BY DEF Idle
  <2> HIDE DEF r
  <2>3. task'[t].step = "attempting" /\ \A u \in Task \ {t} : task'[u] = task[u]
    BY <1>0, <2>1, <2>2, Elsewhere
  <2>4. \A u \in Task : ~Busy(u) /\ ~Numbering(u)
    BY <2>1, NumberingBusy DEF Quiet
  <2>5. ~Numbering(t)' /\ sent' = sent /\ state' = state
    BY <2>1, <2>3 DEF Numbering, remote
  <2> QED BY <1>0, <2>3, <2>4, <2>5, QuietStep
<1>2. ASSUME NEW t \in Task, TakeCSeq(t) PROVE Inv'
  <2> DEFINE n == state.cseq + 1
             r == [task[t] EXCEPT !.step = "sending", !.cseq = n,
                                  !.challenged = FALSE]
  <2>1. /\ task' = [task EXCEPT ![t] = r]
        /\ state' = [state EXCEPT !.cseq = n]
        /\ UNCHANGED remote
        /\ task[t].step = "attempting"
    BY <1>2 DEF TakeCSeq
  <2>2. task[t] \in Activity /\ n \in Nat /\ state.cseq \in Nat /\ n > state.cseq
    BY <1>0, Parts
  <2> HIDE DEF n
  <2>3. r.step = "sending" /\ r.cseq = n /\ r.op = task[t].op
    BY <2>2 DEF Activity
  <2>4. state'.cseq = n
    BY <1>0, <2>1 DEF TypeOK
  <2> HIDE DEF r
  <2>5. task'[t] = r /\ \A u \in Task \ {t} : task'[u] = task[u]
    BY <1>0, <2>1, Elsewhere
  <2>6. Busy(t) /\ ~Numbering(t)
    BY <2>1 DEF Busy, Numbering
  <2>7. \A u \in Task : ~Numbering(u)
    BY <1>a, <2>6, NumberingBusy
  <2>8. \A i \in DOMAIN sent : sent[i].cseq < n /\ sent[i].cseq <= n
    BY <1>0, <2>2, <2>7, Parts DEF Inv, Numbered
  <2>9. sent' = sent
    BY <2>1 DEF remote
  <2> QED BY <1>0, <1>a, <2>2, <2>3, <2>4, <2>5, <2>6, <2>8, <2>9, OwnStep
<1>3. ASSUME NEW t \in Task, NEW outcome, NEW value, Numbering(t),
             Report(t, outcome, value), sent' = sent, state' = state
      PROVE  Inv'
  <2> DEFINE r == [task[t] EXCEPT !.step = Return(t), !.outcome = outcome,
                                  !.value = value]
  <2>1. task' = [task EXCEPT ![t] = r]
    BY <1>3 DEF Report
  <2>2. r.step = Return(t) /\ r.op = task[t].op /\ r.cseq = task[t].cseq
    <3>1. task[t] \in Activity
      BY <1>0, TaskTyped
    <3> QED BY <3>1 DEF Activity
  <2> HIDE DEF r
  <2>3. task'[t] = r /\ \A u \in Task \ {t} : task'[u] = task[u]
    BY <1>0, <2>1, Elsewhere
  <2> QED BY <1>0, <1>3, <2>2, <2>3, ReturnStep
<1>4. ASSUME NEW t \in Task, Send(t) PROVE Inv'
  <2>1. task[t].step = "sending" /\ Numbering(t) /\ state' = state
    BY <1>4 DEF Send, Built, Numbering
  <2>2. CASE up
    <3> DEFINE m == [task |-> t, op |-> task[t].op, cseq |-> task[t].cseq,
                     expires |-> task[t].requested,
                     credentials |-> task[t].challenged]
               i == Len(sent) + 1
               k == task[t].tries + 1
               r == [task[t] EXCEPT !.step = "awaiting", !.id = i, !.tries = k]
    <3>1. sent' = Append(sent, m) /\ task' = [task EXCEPT ![t] = r]
      BY <1>4, <2>2 DEF Send, Built
    <3>2. task[t] \in Activity
      BY <1>0, TaskTyped
    <3>3. m \in Request /\ m.cseq = task[t].cseq
      BY <3>2 DEF Activity, Request
    <3> HIDE DEF m, i, k
    <3>4. r.step = "awaiting" /\ r.op = task[t].op /\ r.cseq = task[t].cseq
      BY <3>2 DEF Activity
    <3> HIDE DEF r
    <3>5. task'[t] = r /\ \A u \in Task \ {t} : task'[u] = task[u]
      BY <1>0, <3>1, Elsewhere
    <3> QED BY <1>0, <2>1, <3>1, <3>3, <3>4, <3>5, SendStep
  <2>3. CASE ~up
    <3>1. Report(t, "EngineStopped", 0) /\ sent' = sent
      BY <1>4, <2>3 DEF Send, Built, remote
    <3> QED BY <1>3, <2>1, <3>1
  <2> QED BY <2>2, <2>3
<1>5. ASSUME NEW t \in Task, NEW a \in answers, Receive(t, a) PROVE Inv'
  <2>1. Numbering(t) /\ sent' = sent /\ state' = state
    BY <1>5 DEF Receive, Forget, Numbering
  <2>2. CASE Retry(t) /\ task[t].op # "probe"
    <3> DEFINE n == task[t].cseq + 1
               r == [task[t] EXCEPT !.step = "sending", !.cseq = n,
                                    !.challenged = TRUE]
    <3>1. task' = [task EXCEPT ![t] = r]
      BY <2>2 DEF Retry
    <3>2. task[t] \in Activity /\ task[t].cseq \in Nat /\ n = task[t].cseq + 1
      BY <1>0, Parts
    <3> HIDE DEF n
    <3>3. r.step = "sending" /\ r.op = task[t].op /\ r.cseq = n
      BY <3>2 DEF Activity
    <3> HIDE DEF r
    <3>4. task'[t] = r /\ \A u \in Task \ {t} : task'[u] = task[u]
      BY <1>0, <3>1, Elsewhere
    <3>5. \A i \in DOMAIN sent : sent[i].cseq <= task[t].cseq /\ sent[i].cseq \in Nat
      BY <1>0, <2>1, Parts DEF Inv, Numbered
    <3>6. \A i \in DOMAIN sent : sent[i].cseq < n /\ sent[i].cseq <= n
      BY <3>2, <3>5
    <3>7. Numbering(t)' /\ \A u \in Task \ {t} : ~Busy(u)
      BY <1>a, <2>1, <3>3, <3>4, NumberingBusy DEF Numbering
    <3> QED BY <1>0, <2>1, <2>2, <3>3, <3>4, <3>6, <3>7, OwnStep
  <2>3. CASE \E outcome, value : Report(t, outcome, value)
    BY <1>3, <2>1, <2>3
  <2>4. \/ Retry(t) /\ task[t].op # "probe"
        \/ \E outcome, value : Report(t, outcome, value)
    BY <1>5 DEF Receive
  <2> QED BY <2>2, <2>3, <2>4
<1>6. ASSUME NEW t \in Task, TimeOut(t) PROVE Inv'
  <2>1. Numbering(t) /\ Report(t, "TimedOut", 0) /\ sent' = sent /\ state' = state
    BY <1>6 DEF TimeOut, Forget, Numbering
  <2> QED BY <1>3, <2>1
<1>7. ASSUME NEW t \in Task, Disconnected(t) PROVE Inv'
  <2>1. Numbering(t) /\ Report(t, "TimedOut", 0) /\ sent' = sent /\ state' = state
    BY <1>7 DEF Disconnected, Forget, Numbering
  <2> QED BY <1>3, <2>1
<1>8. ASSUME NEW t \in Task, Carry(t) PROVE Inv'
  <2> DEFINE n == Carried(state.cseq, task[t].cseq)
             r == [task[t] EXCEPT !.step = "settling"]
  <2>1. /\ task[t].step = "carrying" /\ Numbering(t)
        /\ task' = [task EXCEPT ![t] = r]
        /\ state' = [state EXCEPT !.cseq = n]
        /\ sent' = sent
    BY <1>8 DEF Carry, remote, Numbering
  <2>2. n \in Nat /\ n >= task[t].cseq /\ task[t].cseq \in Nat
    BY <1>0, Parts DEF Carried, Greatest
  <2> HIDE DEF n
  <2>3. r.step = "settling"
    <3>1. task[t] \in Activity
      BY <1>0, TaskTyped
    <3> QED BY <3>1 DEF Activity
  <2> HIDE DEF r
  <2>4. task'[t] = r /\ \A u \in Task \ {t} : task'[u] = task[u]
    BY <1>0, <2>1, Elsewhere
  <2>5. state'.cseq = n
    BY <1>0, <2>1 DEF TypeOK
  <2>6. \A i \in DOMAIN sent : sent[i].cseq <= n
    BY <1>0, <2>1, <2>2, Parts DEF Inv, Numbered
  <2>7. ~Numbering(t)' /\ task'[t].step # "sending" /\ \A u \in Task \ {t} : ~Busy(u)
    BY <1>a, <2>1, <2>3, <2>4, NumberingBusy DEF Numbering
  <2> QED BY <1>0, <2>1, <2>4, <2>5, <2>6, <2>7, OwnStep
<1>9. ASSUME NEW t \in Task, Settle(t) PROVE Inv'
  <2>1. Busy(t) /\ ~Numbering(t) /\ sent' = sent
    BY <1>9 DEF Settle, remote, Busy, Numbering
  <2>2. PICK r : task' = [task EXCEPT ![t] = r] /\ r.step \in {"attempting"} \cup {Rest(t)}
    <3>1. task[t] \in Activity
      BY <1>0, TaskTyped
    <3>2. CASE Conclude(t)
      <4>1. [task[t] EXCEPT !.step = Rest(t)].step = Rest(t)
        BY <3>1 DEF Activity
      <4>2. task' = [task EXCEPT ![t] = [task[t] EXCEPT !.step = Rest(t)]]
        BY <3>2 DEF Conclude
      <4> QED BY <4>1, <4>2
    <3> DEFINE v == task[t].value
               s == [task[t] EXCEPT !.step = "attempting", !.requested = v,
                                    !.retried = TRUE]
    <3>3. CASE task' = [task EXCEPT ![t] = s]
      <4>1. s.step = "attempting"
        BY <3>1 DEF Activity
      <4> QED BY <3>3, <4>1
    <3>4. Conclude(t) \/ task' = [task EXCEPT ![t] = s]
      BY <1>9 DEF Settle
    <3> QED BY <3>2, <3>3, <3>4
  <2>3. task'[t] = r /\ \A u \in Task \ {t} : task'[u] = task[u]
    BY <1>0, <2>2, Elsewhere
  <2>4. ~Numbering(t)'
    BY <2>2, <2>3 DEF Numbering, Rest
  <2>5. state'.cseq = state.cseq
    <3>1. \E v : \/ state' = [state EXCEPT !.negotiated = v]
                 \/ state' = [state EXCEPT !.floor = v]
                 \/ state' = state
      BY <1>9 DEF Settle
    <3> QED BY <1>0, <3>1 DEF TypeOK
  <2> QED BY <1>0, <1>a, <2>1, <2>3, <2>4, <2>5, QuietStep
<1>10. CASE StopKeepalive
  <2> DEFINE r == [task[Keepalive] EXCEPT !.step = "stopped"]
  <2>1. /\ task' = [task EXCEPT ![Keepalive] = r]
        /\ state' = state /\ sent' = sent
        /\ ~Busy(Keepalive) /\ ~Numbering(Keepalive)
    BY <1>10 DEF StopKeepalive, remote, Busy, Numbering
  <2>2. CASE Keepalive \notin Task
    <3>1. task' = task
      BY <1>0, <2>1, <2>2 DEF TypeOK
    <3> QED BY <1>0, <2>1, <3>1, FarStep
  <2>3. CASE Keepalive \in Task
    <3>1. r.step = "stopped"
      <4>1. task[Keepalive] \in Activity
        BY <1>0, <2>3, TaskTyped
      <4> QED BY <4>1 DEF Activity
    <3> HIDE DEF r
    <3>2. task'[Keepalive] = r /\ \A u \in Task \ {Keepalive} : task'[u] = task[u]
      BY <1>0, <2>1, <2>3, Elsewhere
    <3>3. \A u \in Task : /\ Busy(u)' <=> Busy(u)
                          /\ Numbering(u)' <=> Numbering(u)
                          /\ Numbering(u) => task'[u] = task[u]
                          /\ task'[u].step = "sending" => Numbering(u)
      BY <2>1, <3>1, <3>2 DEF Busy, Numbering
    <3>4. OneBusy' /\ FreshCSeq'
      BY <2>1, <3>3 DEF Inv, OneBusy, FreshCSeq
    <3>5. Numbered'
      BY <2>1, <3>3 DEF Inv, Numbered
    <3> QED BY <1>0, <3>4, <3>5 DEF Inv
  <2> QED BY <2>2, <2>3
<1>11. ASSUME NEW n \in flight, NEW status, NEW expires, Reply(n, status, expires)
       PROVE  Inv'
  BY <1>0, <1>11, FarStep DEF Reply
<1>12. ASSUME NEW n \in flight, Refuse(n) \/ AnswerQuery(n) PROVE Inv'
  BY <1>11, <1>12 DEF Refuse, AnswerQuery
<1>13. ASSUME NEW n \in flight, NEW min \in Floor, TooBrief(n, min) PROVE Inv'
  BY <1>11, <1>13 DEF TooBrief
<1>14. ASSUME NEW n \in flight, NEW granted \in Lifetime \cup {0},
              NEW named \in BOOLEAN, Bind(n, granted, named)
       PROVE  Inv'
  BY <1>11, <1>14 DEF Bind
<1>15. CASE Cancel \/ StopEngine \/ UNCHANGED vars
  <2>1. task' = task /\ sent' = sent /\ state' = state
    BY <1>15 DEF Cancel, StopEngine, remote, vars
  <2> QED BY <1>0, <2>1, FarStep
<1> QED BY <1>1, <1>2, <1>4, <1>5, <1>6, <1>7, <1>8, <1>9, <1>10, <1>12, <1>13,
           <1>14, <1>15 DEF Next

\* Tasks that take turns never repeat a CSeq within the Call-ID, nor go back
\* to a smaller one, for any number of tasks and operations: challenge retries,
\* 423 retries, timeouts, queries and a stopped engine included.
THEOREM NumbersOnlyGrow ==
    ASSUME Overlap = FALSE
    PROVE  Spec => []FreshCSeq
<1>1. Init => Inv
  <2> SUFFICES ASSUME Init PROVE Inv
    OBVIOUS
  <2>1. TypeOK
    BY InitTyped
  <2>2. sent = <<>> /\ DOMAIN sent = {}
    BY DEF Init
  <2>3. \A t \in Task : task[t].step = "idle"
    BY DEF Init, Idle
  <2>4. OneBusy /\ \A t \in Task : ~Numbering(t)
    BY <2>3 DEF OneBusy, Busy, Numbering
  <2> QED BY <2>1, <2>2, <2>4 DEF Inv, Numbered, FreshCSeq
<1>2. Inv /\ [Next]_vars => Inv'
  BY InvStep
<1>3. Inv => FreshCSeq
  BY DEF Inv
<1> QED BY <1>1, <1>2, <1>3, PTL DEF Spec

-----------------------------------------------------------------------------
(***************************************************************************)
(* Proofs that a registration and the registrar's binding agree            *)
(* (InSync, UnregisterSticks) and that an operation's retries are bounded  *)
(* (RetriesBounded), for tasks that take turns (Overlap = FALSE).          *)
(*                                                                         *)
(* What makes the agreement last is that nothing still on its way can      *)
(* change the binding: once the far end has answered the newest REGISTER,  *)
(* every other one carries a number it has passed (Heard, from FreshCSeq). *)
(* The invariant follows that fact from the far end's answer, over its way *)
(* back and the two locks of the operation, to the state.                  *)
(***************************************************************************)


\* No REGISTER on its way can still be accepted.
Heard ==
    \A i \in DOMAIN sent : sent[i].op # "probe" => sent[i].cseq <= far.seen

\* What the far end's last 2xx lets the client know of the binding.
Told == IF far.named THEN far.binding ELSE far.asked

\* The far end's last 2xx is to t's last REGISTER and tells of `value`.
Holds(t, value) ==
    /\ Heard
    /\ Told = IF value = 0 THEN task[t].requested ELSE value
    /\ far.binding <= task[t].requested

\* What an answer means to the task that awaits it.
Means(t, a) ==
    /\ a.status = "brief" => a.expires > task[t].requested
    /\ a.status = "ok" /\ task[t].op # "probe" => Holds(t, a.expires)

Asks(t) ==
    /\ task[t].op = "unregister" => task[t].requested = 0
    /\ task[t].op = "register" /\ state.floor # None =>
          state.floor <= task[t].requested

Awaits(t) ==
    task[t].step = "awaiting" =>
        /\ task[t].id = Len(sent) /\ Len(sent) > 0
        /\ sent[Len(sent)].op = task[t].op
        /\ sent[Len(sent)].expires = task[t].requested
        /\ \A a \in answers : a.id = Len(sent) => Means(t, a)

Reports(t) ==
    task[t].step \in {"carrying", "settling"} =>
        /\ task[t].op # "probe"
        /\ task[t].outcome = "IntervalTooBrief" => task[t].value > task[t].requested
        /\ task[t].outcome = "Registered" => Holds(t, task[t].value)

Own(t) == Busy(t) => Asks(t) /\ Awaits(t) /\ Reports(t)

\* Nothing but queries is under way.
Resting == \A t \in Task : Busy(t) => task[t].op = "probe"

Standing ==
    Resting /\ settled.outcome = "Registered" =>
        /\ Heard
        /\ state.negotiated = Told
        /\ settled.op = "unregister" => far.binding = 0

Addressed == \A a \in answers : a.id \in DOMAIN sent

Lease == (\A t \in Task : Own(t)) /\ Standing /\ Addressed /\ refusals = 0

-----------------------------------------------------------------------------
(* What each step does to the task that takes it. *)

\* The fields of one operation that no flow changes.
SameOperation(t) ==
    /\ task'[t].op = task[t].op
    /\ task'[t].requested = task[t].requested
    /\ task'[t].retried = task[t].retried

Alone(t) == \A u \in Task \ {t} : ~ Busy(u) /\ task'[u] = task[u]

LEMMA BusyAlone ==
    ASSUME Inv, NEW t \in Task, Busy(t),
           \A u \in Task \ {t} : task'[u] = task[u]
    PROVE  Alone(t)
BY DEF Inv, OneBusy, Alone

LEMMA LeaseTypes ==
    ASSUME TypeOK
    PROVE  /\ state \in [cseq : Nat, floor : Nat \cup {None}, negotiated : Nat \cup {None}]
           /\ far.binding \in Nat /\ far.seen \in Nat
           /\ far.asked \in Nat /\ far.named \in BOOLEAN
           /\ \A t \in Task : /\ task[t] \in Activity
                              /\ task[t].requested \in Nat /\ task[t].value \in Nat
                              /\ task[t].tries \in Nat /\ task[t].op \in Op
                              /\ task[t].id \in Nat /\ task[t].cseq \in Nat
                              /\ task[t].challenged \in BOOLEAN
                              /\ task[t].retried \in BOOLEAN
           /\ Len(sent) \in Nat /\ DOMAIN sent = 1..Len(sent) /\ sent \in Seq(Request)
           /\ \A i \in DOMAIN sent : sent[i].cseq \in Nat /\ sent[i].expires \in Nat
           /\ \A a \in answers : a.expires \in Nat
           /\ flight \subseteq DOMAIN sent
<1>1. ASSUME NEW t \in Task
      PROVE  /\ task[t] \in Activity
             /\ task[t].requested \in Nat /\ task[t].value \in Nat
             /\ task[t].tries \in Nat /\ task[t].op \in Op
             /\ task[t].id \in Nat /\ task[t].cseq \in Nat
             /\ task[t].challenged \in BOOLEAN
             /\ task[t].retried \in BOOLEAN
  <2>1. task[t] \in Activity
    BY TaskTyped
  <2> QED BY <2>1 DEF Activity
<1>2. \A i \in DOMAIN sent : sent[i].cseq \in Nat /\ sent[i].expires \in Nat
  BY Parts DEF Request
<1>3. Len(sent) \in Nat /\ DOMAIN sent = 1..Len(sent) /\ sent \in Seq(Request)
  BY Parts
<1> QED BY <1>1, <1>2, <1>3 DEF TypeOK

\* A step that reaches no busy task, no request and no answer.
LEMMA LeaseUnmoved ==
    ASSUME Lease,
           \A u \in Task : Busy(u)' <=> Busy(u),
           \A u \in Task : Busy(u) => task'[u] = task[u],
           UNCHANGED <<state, sent, answers, far, settled, refusals>>
    PROVE  Lease'
<1>1. Heard' <=> Heard
  BY DEF Heard
<1>2. ASSUME NEW u \in Task PROVE Own(u)'
  BY <1>1, <1>2 DEF Lease, Own, Asks, Awaits, Reports, Means, Told, Holds
<1>3. Standing'
  BY <1>1 DEF Lease, Told, Standing, Resting
<1> QED BY <1>2, <1>3 DEF Lease, Addressed

\* A step of one operation: its own part, and the whole's.
LEMMA LeaseOwn ==
    ASSUME Lease, NEW t \in Task, Alone(t), Own(t)', Standing', Addressed', refusals' = 0
    PROVE  Lease'
<1>1. ASSUME NEW u \in Task \ {t} PROVE Own(u)'
  BY <1>1 DEF Alone, Own, Busy
<1> QED BY <1>1 DEF Lease

\* A step of an operation that neither sends nor settles.
LEMMA LeaseFlow ==
    ASSUME Lease, NEW t \in Task, Alone(t), Busy(t), SameOperation(t),
           UNCHANGED <<sent, far, settled, refusals>>,
           answers' \subseteq answers,
           state'.floor = state.floor, state'.negotiated = state.negotiated,
           task'[t].step # "awaiting",
           Reports(t)',
           ~ Busy(t)' => task[t].op = "probe"
    PROVE  Lease'
<1>1. Heard' <=> Heard
  BY DEF Heard
<1>2. Asks(t)'
  BY DEF Lease, Own, Asks, SameOperation
<1>3. Own(t)'
  BY <1>2 DEF Own, Awaits
<1>4. Resting' => Resting
  BY DEF Resting, Alone, SameOperation
<1>5. Standing'
  BY <1>1, <1>4 DEF Lease, Told, Standing
<1>6. Addressed' /\ refusals' = 0
  BY DEF Lease, Addressed
<1> QED BY <1>3, <1>5, <1>6, LeaseOwn

LEMMA LeaseBegin ==
    ASSUME Overlap = FALSE, Inv, Lease, NEW t \in Task, NEW op \in Op, Begin(t, op)
    PROVE  Lease'
<1> USE RegistrarAssumption
<1> DEFINE r == [Idle EXCEPT !.op = op, !.step = "attempting",
                             !.requested = Asked(op)]
<1>1. /\ task' = [task EXCEPT ![t] = r] /\ Quiet
      /\ UNCHANGED <<state, sent, answers, far, settled, refusals>>
  BY DEF Begin, remote
<1>2. r.step = "attempting" /\ r.op = op /\ r.requested = Asked(op)
  BY DEF Idle
<1> HIDE DEF r
<1>3. task'[t] = r /\ \A u \in Task \ {t} : task'[u] = task[u]
  BY <1>1, Elsewhere DEF Inv
<1>4. Alone(t)
  BY <1>1, <1>3 DEF Alone, Quiet
<1>5. Asks(t)'
  <2>1. op = "unregister" => Asked(op) = 0
    BY DEF Asked
  <2>2. op = "register" /\ state.floor # None => state.floor <= Asked(op)
    BY LeaseTypes DEF Inv, Asked, RequestedExpires, Greatest
  <2> QED BY <1>1, <1>2, <1>3, <2>1, <2>2 DEF Asks
<1>6. Own(t)'
  BY <1>2, <1>3, <1>5 DEF Own, Awaits, Reports
<1>7. Resting
  BY <1>1 DEF Quiet, Resting
<1>8. Standing'
  BY <1>1, <1>7 DEF Lease, Told, Standing, Heard
<1> QED BY <1>1, <1>4, <1>6, <1>8, LeaseOwn DEF Lease, Addressed

LEMMA LeaseTake ==
    ASSUME Inv, Lease, NEW t \in Task, TakeCSeq(t)
    PROVE  Lease'
<1> DEFINE n == state.cseq + 1
           r == [task[t] EXCEPT !.step = "sending", !.cseq = n,
                                !.challenged = FALSE]
<1>1. /\ task' = [task EXCEPT ![t] = r] /\ state' = [state EXCEPT !.cseq = n]
      /\ task[t].step = "attempting"
      /\ UNCHANGED <<sent, answers, far, settled, refusals>>
  BY DEF TakeCSeq, local, remote
<1> HIDE DEF n
<1>2. r.step = "sending" /\ r.op = task[t].op /\ r.requested = task[t].requested
      /\ r.retried = task[t].retried
  BY LeaseTypes DEF Inv, Activity
<1> HIDE DEF r
<1>3. task'[t] = r /\ \A u \in Task \ {t} : task'[u] = task[u]
  BY <1>1, Elsewhere DEF Inv
<1>4. Busy(t) /\ Busy(t)'
  BY <1>1, <1>2, <1>3 DEF Busy
<1>5. state'.floor = state.floor /\ state'.negotiated = state.negotiated
  BY <1>1, LeaseTypes DEF Inv
<1>6. Reports(t)' /\ task'[t].step # "awaiting"
  BY <1>2, <1>3 DEF Reports
<1>7. SameOperation(t)
  BY <1>2, <1>3 DEF SameOperation
<1> QED BY <1>1, <1>3, <1>4, <1>5, <1>6, <1>7, BusyAlone, LeaseFlow

\* A flow returns with an outcome that is borne out.
LEMMA LeaseReport ==
    ASSUME Inv, Lease, NEW t \in Task, Busy(t), NEW outcome, NEW value,
           Report(t, outcome, value),
           UNCHANGED <<state, sent, far, settled, refusals>>,
           answers' \subseteq answers,
           task[t].op # "probe" =>
               /\ outcome = "IntervalTooBrief" => value > task[t].requested
               /\ outcome = "Registered" => Holds(t, value)
    PROVE  Lease'
<1> DEFINE r == [task[t] EXCEPT !.step = Return(t), !.outcome = outcome,
                                !.value = value]
<1>1. task' = [task EXCEPT ![t] = r]
  BY DEF Report
<1>2. /\ r.step = Return(t) /\ r.op = task[t].op /\ r.requested = task[t].requested
      /\ r.retried = task[t].retried /\ r.outcome = outcome /\ r.value = value
  BY LeaseTypes DEF Inv, Activity
<1> HIDE DEF r
<1>3. task'[t] = r /\ \A u \in Task \ {t} : task'[u] = task[u]
  BY <1>1, Elsewhere DEF Inv
<1>4. SameOperation(t) /\ task'[t].step # "awaiting"
  BY <1>2, <1>3 DEF SameOperation, Return
<1>5. task[t].op # "probe" /\ outcome = "Registered" => Holds(t, value)'
  BY <1>2, <1>3 DEF Told, Holds, Heard
<1>6. Reports(t)'
  BY <1>2, <1>3, <1>5 DEF Reports, Return
<1>7. ~ Busy(t)' => task[t].op = "probe"
  BY <1>2, <1>3 DEF Busy, Return
<1> QED BY <1>3, <1>4, <1>6, <1>7, BusyAlone, LeaseFlow

LEMMA LeaseSend ==
    ASSUME Inv, Lease, NEW t \in Task, Send(t)
    PROVE  Lease'
<1>1. /\ task[t].step = "sending" /\ Busy(t)
      /\ UNCHANGED <<state, settled, refusals>>
  BY DEF Send, local, Busy
<1>2. CASE up
  <2> DEFINE m == [task |-> t, op |-> task[t].op, cseq |-> task[t].cseq,
                   expires |-> task[t].requested,
                   credentials |-> task[t].challenged]
             i == Len(sent) + 1
             k == task[t].tries + 1
             r == [task[t] EXCEPT !.step = "awaiting", !.id = i, !.tries = k]
  <2>1. /\ sent' = Append(sent, m) /\ task' = [task EXCEPT ![t] = r]
        /\ UNCHANGED <<answers, far>>
    BY <1>2 DEF Send, Built
  <2>2. m.op = task[t].op /\ m.expires = task[t].requested
    OBVIOUS
  <2> HIDE DEF m
  <2>3. /\ Len(sent') = i /\ sent'[i] = m /\ i > 0 /\ i \in Nat
        /\ DOMAIN sent' = 1..i /\ i \notin DOMAIN sent
        /\ \A j \in DOMAIN sent : sent'[j] = sent[j] /\ j \in DOMAIN sent'
        /\ \A j \in DOMAIN sent' : j \in DOMAIN sent \/ j = i
    BY <2>1, LeaseTypes DEF Inv
  <2> HIDE DEF i, k
  <2>4. /\ r.step = "awaiting" /\ r.op = task[t].op /\ r.id = i
        /\ r.requested = task[t].requested
    BY LeaseTypes DEF Inv, Activity
  <2> HIDE DEF r
  <2>5. task'[t] = r /\ \A u \in Task \ {t} : task'[u] = task[u]
    BY <2>1, Elsewhere DEF Inv
  <2>6. Alone(t)
    BY <1>1, <2>5, BusyAlone
  <2>7. Asks(t)' /\ Reports(t)'
    BY <1>1, <2>4, <2>5 DEF Lease, Own, Asks, Reports
  <2>8. Addressed'
    BY <2>1, <2>3 DEF Lease, Addressed
  <2>9. \A a \in answers : a.id # i
    BY <2>3 DEF Lease, Addressed
  <2>10. Awaits(t)'
    BY <2>1, <2>2, <2>3, <2>4, <2>5, <2>9 DEF Awaits
  <2>11. task[t].op = "probe" /\ Heard => Heard'
    BY <2>1, <2>2, <2>3 DEF Heard
  <2>12. Resting' => Resting /\ task[t].op = "probe"
    BY <1>1, <2>4, <2>5, <2>6 DEF Resting, Alone, Busy
  <2>13. Standing'
    BY <1>1, <2>1, <2>11, <2>12 DEF Lease, Told, Standing
  <2> QED BY <1>1, <2>6, <2>7, <2>8, <2>10, <2>13, LeaseOwn DEF Lease, Own
<1>3. CASE ~ up
  <2>1. Report(t, "EngineStopped", 0) /\ UNCHANGED <<sent, far, answers>>
    BY <1>3 DEF Send, remote
  <2> QED BY <1>1, <2>1, LeaseReport
<1> QED BY <1>2, <1>3

LEMMA LeaseReceive ==
    ASSUME Inv, Lease, NEW t \in Task, NEW a \in answers, Receive(t, a)
    PROVE  Lease'
<1>1. /\ task[t].step = "awaiting" /\ Busy(t) /\ a.id = task[t].id
      /\ UNCHANGED <<state, sent, far, settled, refusals>> /\ answers' \subseteq answers
  BY DEF Receive, Forget, local, Busy
<1>2. Means(t, a)
  BY <1>1 DEF Lease, Own, Awaits
<1>3. CASE Retry(t)
  <2> DEFINE n == task[t].cseq + 1
             r == [task[t] EXCEPT !.step = "sending", !.cseq = n,
                                  !.challenged = TRUE]
  <2>1. task' = [task EXCEPT ![t] = r]
    BY <1>3 DEF Retry
  <2> HIDE DEF n
  <2>2. r.step = "sending" /\ r.op = task[t].op /\ r.requested = task[t].requested
        /\ r.retried = task[t].retried
    BY LeaseTypes DEF Inv, Activity
  <2> HIDE DEF r
  <2>3. task'[t] = r /\ \A u \in Task \ {t} : task'[u] = task[u]
    BY <2>1, Elsewhere DEF Inv
  <2>4. SameOperation(t) /\ Busy(t)' /\ Reports(t)' /\ task'[t].step # "awaiting"
    BY <2>2, <2>3 DEF SameOperation, Busy, Reports
  <2> QED BY <1>1, <2>3, <2>4, BusyAlone, LeaseFlow
<1>4. CASE a.status = "ok" /\ Report(t, "Registered", a.expires)
  BY <1>1, <1>2, <1>4, LeaseReport DEF Means
<1>5. CASE a.status = "brief" /\ Report(t, "IntervalTooBrief", a.expires)
  BY <1>1, <1>2, <1>5, LeaseReport DEF Means
<1>6. CASE Report(t, "Failed", 0)
  BY <1>1, <1>6, LeaseReport
<1>7. CASE Report(t, "Unauthorized", 0)
  BY <1>1, <1>7, LeaseReport
<1> QED BY <1>3, <1>4, <1>5, <1>6, <1>7 DEF Receive

LEMMA LeaseUnanswered ==
    ASSUME Inv, Lease, NEW t \in Task, TimeOut(t) \/ Disconnected(t)
    PROVE  Lease'
<1>1. /\ Busy(t) /\ Report(t, "TimedOut", 0)
      /\ UNCHANGED <<state, sent, far, settled, refusals>> /\ answers' \subseteq answers
  BY DEF TimeOut, Disconnected, Forget, local, Busy
<1> QED BY <1>1, LeaseReport

LEMMA LeaseCarry ==
    ASSUME Inv, Lease, NEW t \in Task, Carry(t)
    PROVE  Lease'
<1> DEFINE n == Carried(state.cseq, task[t].cseq)
           r == [task[t] EXCEPT !.step = "settling"]
<1>1. /\ task[t].step = "carrying" /\ Busy(t)
      /\ task' = [task EXCEPT ![t] = r]
      /\ state' = [state EXCEPT !.cseq = n]
      /\ UNCHANGED <<sent, answers, far, settled, refusals>>
  BY DEF Carry, local, remote, Busy
<1> HIDE DEF n
<1>2. /\ r.step = "settling" /\ r.op = task[t].op /\ r.requested = task[t].requested
      /\ r.retried = task[t].retried /\ r.outcome = task[t].outcome
      /\ r.value = task[t].value
  BY LeaseTypes DEF Inv, Activity
<1> HIDE DEF r
<1>3. task'[t] = r /\ \A u \in Task \ {t} : task'[u] = task[u]
  BY <1>1, Elsewhere DEF Inv
<1>4. state'.floor = state.floor /\ state'.negotiated = state.negotiated
  BY <1>1, LeaseTypes DEF Inv
<1>5. Reports(t)' /\ Busy(t)' /\ SameOperation(t) /\ task'[t].step # "awaiting"
  BY <1>1, <1>2, <1>3 DEF Lease, Own, Reports, Told, Holds, Heard, Busy, SameOperation
<1> QED BY <1>1, <1>3, <1>4, <1>5, BusyAlone, LeaseFlow

LEMMA LeaseSettle ==
    ASSUME Inv, Lease, NEW t \in Task, Settle(t)
    PROVE  Lease'
<1> DEFINE v == task[t].value
           again == [task[t] EXCEPT !.step = "attempting", !.requested = v,
                                    !.retried = TRUE]
           over == [task[t] EXCEPT !.step = Rest(t)]
<1>1. /\ task[t].step = "settling" /\ Busy(t)
      /\ UNCHANGED <<sent, answers, far>>
      /\ Heard' <=> Heard
  BY DEF Settle, remote, Busy, Heard
<1>2. /\ task[t] \in Activity /\ v \in Nat /\ task[t].requested \in Nat
      /\ task[t].op \in Op /\ far.binding \in Nat
      /\ state \in [cseq : Nat, floor : Nat \cup {None}, negotiated : Nat \cup {None}]
  BY LeaseTypes DEF Inv
<1>3. Asks(t) /\ Reports(t) /\ task[t].op # "probe"
  BY <1>1 DEF Lease, Own, Reports
<1>4. /\ again.step = "attempting" /\ again.op = task[t].op /\ again.requested = v
      /\ over.step = Rest(t) /\ Rest(t) \in {"idle", "stopped", "sleeping"}
  BY <1>2 DEF Activity, Rest
<1>5. /\ Conclude(t) => task' = [task EXCEPT ![t] = over]
      /\ Conclude(t) => settled' = [op |-> task[t].op, outcome |-> task[t].outcome]
  BY DEF Conclude
<1>6. Addressed'
  BY <1>1 DEF Lease, Addressed
<1>7. ASSUME Conclude(t), refusals' = refusals,
             task[t].outcome = "Registered" =>
                 /\ Heard /\ state'.negotiated = Told
                 /\ task[t].op = "unregister" => far.binding = 0
      PROVE  Lease'
  <2>1. task'[t] = over /\ \A u \in Task \ {t} : task'[u] = task[u]
    BY <1>5, <1>7, Elsewhere DEF Inv
  <2>2. ~ Busy(t)'
    BY <1>4, <2>1 DEF Busy
  <2>3. Standing'
    BY <1>1, <1>5, <1>7 DEF Told, Standing
  <2> QED BY <1>1, <1>6, <1>7, <2>1, <2>2, <2>3, BusyAlone, LeaseOwn DEF Own, Lease
<1>8. CASE /\ task[t].outcome = "Registered"
           /\ state' = [state EXCEPT !.negotiated = Granted(t)]
           /\ Conclude(t)
           /\ UNCHANGED refusals
  <2>1. Holds(t, v)
    BY <1>3, <1>1, <1>8 DEF Reports
  <2>2. state'.negotiated = Granted(t)
    BY <1>2, <1>8
  <2>3. Granted(t) = Told
    BY <2>1 DEF Told, Holds, Granted
  <2>4. task[t].op = "unregister" => far.binding = 0
    BY <1>2, <1>3, <2>1 DEF Told, Holds, Asks
  <2> QED BY <1>7, <1>8, <2>1, <2>2, <2>3, <2>4 DEF Holds
<1>9. CASE /\ task[t].outcome = "IntervalTooBrief"
           /\ state' = [state EXCEPT !.floor = v]
           /\ IF MayRetry(task[t].requested, v, task[t].retried)
              THEN /\ task' = [task EXCEPT ![t] = again]
                   /\ UNCHANGED settled
              ELSE Conclude(t)
           /\ refusals' = IF task[t].op = "register" /\ KnownFloor(v)
                          THEN refusals + 1
                          ELSE refusals
  <2>1. v > task[t].requested
    BY <1>1, <1>3, <1>9 DEF Reports
  <2>2. refusals' = refusals
    BY <1>2, <1>3, <1>9, <2>1 DEF Asks, KnownFloor
  <2>3. CASE MayRetry(task[t].requested, v, task[t].retried)
    <3>1. task[t].requested # 0
      BY <2>3 DEF MayRetry
    <3>2. task'[t] = again /\ \A u \in Task \ {t} : task'[u] = task[u]
      BY <1>9, <2>3, Elsewhere DEF Inv
    <3>3. state'.floor = v
      BY <1>2, <1>9
    <3>4. Asks(t)'
      BY <1>2, <1>3, <1>4, <3>1, <3>2, <3>3 DEF Asks
    <3>5. Own(t)'
      BY <1>4, <3>2, <3>4 DEF Own, Awaits, Reports
    <3>6. ~ Resting'
      BY <1>3, <1>4, <3>2 DEF Resting, Busy
    <3> QED BY <1>1, <1>6, <2>2, <3>2, <3>5, <3>6, BusyAlone, LeaseOwn
        DEF Lease, Standing
  <2>4. CASE ~ MayRetry(task[t].requested, v, task[t].retried)
    BY <1>7, <1>9, <2>2, <2>4
  <2> QED BY <2>3, <2>4
<1>10. CASE /\ task[t].outcome \notin {"Registered", "IntervalTooBrief"}
            /\ Conclude(t)
            /\ UNCHANGED <<state, refusals>>
  BY <1>7, <1>10
<1> QED BY <1>8, <1>9, <1>10 DEF Settle

-----------------------------------------------------------------------------
(* The far end. *)

LEMMA NewAnswer ==
    ASSUME Inv, NEW n \in flight, NEW status, NEW expires, Reply(n, status, expires)
    PROVE  /\ UNCHANGED <<state, task, sent, settled, refusals>>
           /\ \A a \in answers' :
            a \in answers \/ (a.id = n /\ a.status = status /\ a.expires = expires)
           /\ n \in DOMAIN sent
<1> DEFINE answer == [id |-> n, status |-> status, expires |-> expires]
<1>1. \A a \in answers' : a \in answers \/ a = answer
  BY DEF Reply
<1>2. answer.id = n /\ answer.status = status /\ answer.expires = expires
  OBVIOUS
<1> HIDE DEF answer
<1>3. n \in DOMAIN sent
  BY LeaseTypes DEF Inv
<1>4. UNCHANGED <<state, task, sent, settled, refusals>>
  BY DEF Reply, local
<1>5. ASSUME NEW a \in answers', a \notin answers
      PROVE  a.id = n /\ a.status = status /\ a.expires = expires
  BY <1>1, <1>2, <1>5
<1> QED BY <1>3, <1>4, <1>5

LEMMA LeaseReply ==
    ASSUME Inv, Lease, NEW n \in flight, NEW status, NEW expires,
           Reply(n, status, expires), UNCHANGED far,
           status = "brief" => sent[n].op # "probe" /\ sent[n].expires < expires,
           status = "ok" => sent[n].op = "probe"
    PROVE  Lease'
<1>1. /\ UNCHANGED <<state, task, sent, settled, refusals>>
      /\ \A a \in answers' :
            a \in answers \/ (a.id = n /\ a.status = status /\ a.expires = expires)
      /\ n \in DOMAIN sent
  BY NewAnswer
<1>2. Heard' <=> Heard
  BY <1>1 DEF Heard
<1>3. ASSUME NEW t \in Task PROVE Own(t)'
  <2>1. (Busy(t)' <=> Busy(t)) /\ (Asks(t)' <=> Asks(t)) /\ (Reports(t)' <=> Reports(t))
    BY <1>1, <1>2 DEF Busy, Asks, Reports, Told, Holds
  <2>2. ASSUME Busy(t), task[t].step = "awaiting", NEW a \in answers', a.id = Len(sent)
        PROVE  Means(t, a)'
    <3>1. /\ sent[Len(sent)].op = task[t].op
          /\ sent[Len(sent)].expires = task[t].requested
          /\ task[t].requested \in Nat
          /\ a \in answers => Means(t, a)
      BY <2>2, LeaseTypes DEF Lease, Own, Awaits, Inv
    <3>2. CASE a \in answers
      BY <1>1, <1>2, <3>1, <3>2 DEF Means, Told, Holds
    <3>3. CASE n = Len(sent) /\ a.status = status /\ a.expires = expires
      BY <1>1, <3>1, <3>3 DEF Means
    <3> QED BY <1>1, <2>2, <3>2, <3>3
  <2>3. Busy(t) => Awaits(t)'
    BY <1>1, <2>2 DEF Lease, Own, Awaits
  <2> QED BY <2>1, <2>3 DEF Lease, Own
<1>4. Standing'
  BY <1>1, <1>2 DEF Lease, Told, Standing, Resting, Busy
<1>5. Addressed'
  BY <1>1 DEF Lease, Addressed
<1> QED BY <1>1, <1>3, <1>4, <1>5 DEF Lease

LEMMA LeaseBind ==
    ASSUME Inv, Lease, NEW n \in flight, NEW granted \in Nat,
           NEW named \in BOOLEAN, Bind(n, granted, named)
    PROVE  Lease'
<1> DEFINE value == IF named THEN granted ELSE 0
<1>1. Reply(n, "ok", value)
  BY DEF Bind
<1>2. /\ UNCHANGED <<state, task, sent, settled, refusals>>
      /\ \A a \in answers' :
            a \in answers \/ (a.id = n /\ a.status = "ok" /\ a.expires = value)
      /\ n \in DOMAIN sent /\ sent[n].cseq \in Nat /\ sent[n].expires \in Nat
      /\ far.seen \in Nat /\ Len(sent) \in Nat /\ DOMAIN sent = 1..Len(sent)
      /\ \A i \in DOMAIN sent : sent[i].cseq \in Nat
  BY <1>1, NewAnswer, LeaseTypes DEF Inv
<1>3. /\ far'.binding = granted /\ far'.seen = sent[n].cseq
      /\ sent[n].op # "probe" /\ sent[n].cseq > far.seen
      /\ granted <= sent[n].expires
      /\ Told' = IF value = 0 THEN sent[n].expires ELSE value
  BY DEF Bind, Told
<1> HIDE DEF value
<1>4. ~ Heard
  BY <1>2, <1>3 DEF Heard
<1>5. n = Len(sent) => Heard'
  <2> SUFFICES ASSUME n = Len(sent), NEW i \in DOMAIN sent
               PROVE  sent[i].cseq <= sent[n].cseq
    BY <1>2, <1>3 DEF Heard
  <2>1. i = n \/ i < n
    BY <1>2
  <2> QED BY <1>2, <2>1 DEF Inv, FreshCSeq
<1>6. ASSUME NEW t \in Task, Busy(t) PROVE Own(t)'
  <2>1. Asks(t)' /\ Reports(t)'
    BY <1>2, <1>4, <1>6 DEF Lease, Own, Asks, Reports, Told, Holds
  <2>2. ASSUME task[t].step = "awaiting", NEW a \in answers', a.id = Len(sent)
        PROVE  Means(t, a)'
    <3>1. /\ sent[Len(sent)].expires = task[t].requested
          /\ a \in answers => Means(t, a)
      BY <1>6, <2>2 DEF Lease, Own, Awaits
    <3>2. CASE a \in answers
      BY <1>2, <1>4, <3>1, <3>2 DEF Means, Told, Holds
    <3>3. CASE n = Len(sent) /\ a.status = "ok" /\ a.expires = value
      <4>1. Holds(t, value)'
        BY <1>1, <1>2, <1>3, <1>5, <3>1, <3>3 DEF Told, Holds
      <4> QED BY <3>3, <4>1 DEF Means
    <3> QED BY <1>2, <2>2, <3>2, <3>3
  <2>3. Awaits(t)'
    BY <1>2, <1>6, <2>2 DEF Lease, Own, Awaits
  <2> QED BY <2>1, <2>3 DEF Own
<1>7. \A t \in Task : Busy(t)' <=> Busy(t)
  BY <1>2 DEF Busy
<1>8. Standing'
  BY <1>2, <1>4 DEF Lease, Told, Standing, Resting, Busy
<1>9. Addressed'
  BY <1>2 DEF Lease, Addressed
<1>10. ASSUME NEW t \in Task PROVE Own(t)'
  BY <1>6, <1>7 DEF Own
<1> QED BY <1>2, <1>8, <1>9, <1>10 DEF Lease

LEMMA LeaseStep ==
    ASSUME Overlap = FALSE, Inv, Lease, [Next]_vars
    PROVE  Lease'
<1> USE RegistrarAssumption
<1>1. CASE StopKeepalive
  <2> DEFINE r == [task[Keepalive] EXCEPT !.step = "stopped"]
  <2>1. /\ task' = [task EXCEPT ![Keepalive] = r]
        /\ ~ Busy(Keepalive)
        /\ UNCHANGED <<state, sent, answers, far, settled, refusals>>
    BY <1>1 DEF StopKeepalive, local, remote, Busy
  <2>2. ASSUME NEW u \in Task
        PROVE  (Busy(u)' <=> Busy(u)) /\ (Busy(u) => task'[u] = task[u])
    <3>1. CASE u = Keepalive
      <4>1. r.step = "stopped"
        BY <3>1, LeaseTypes DEF Inv, Activity
      <4> HIDE DEF r
      <4>2. task'[u] = r
        BY <2>1, <3>1, Elsewhere DEF Inv
      <4> QED BY <2>1, <3>1, <4>1, <4>2 DEF Busy
    <3>2. CASE u # Keepalive
      <4>1. task'[u] = task[u]
        BY <2>1, <3>2 DEF Inv, TypeOK
      <4> QED BY <4>1 DEF Busy
    <3> QED BY <3>1, <3>2
  <2> QED BY <2>1, <2>2, LeaseUnmoved
<1>2. CASE Cancel \/ StopEngine \/ UNCHANGED vars
  <2>1. UNCHANGED <<task, state, sent, answers, far, settled, refusals>>
    BY <1>2 DEF Cancel, StopEngine, remote, vars
  <2> QED BY <2>1, LeaseUnmoved DEF Busy
<1>3. ASSUME NEW n \in flight, Refuse(n) PROVE Lease'
  <2>1. PICK status \in {"challenge", "unanswerable", "failed"} : Reply(n, status, 0)
    BY <1>3 DEF Refuse
  <2> QED BY <1>3, <2>1, LeaseReply DEF Refuse
<1>4. ASSUME NEW n \in flight, AnswerQuery(n) PROVE Lease'
  BY <1>4, LeaseReply DEF AnswerQuery
<1>5. ASSUME NEW n \in flight, NEW min \in Floor, TooBrief(n, min) PROVE Lease'
  BY <1>5, LeaseReply DEF TooBrief
<1>6. ASSUME NEW n \in flight, NEW granted \in Lifetime \cup {0},
             NEW named \in BOOLEAN, Bind(n, granted, named)
      PROVE  Lease'
  BY <1>6, LeaseBind
<1> QED BY <1>1, <1>2, <1>3, <1>4, <1>5, <1>6, LeaseBegin, LeaseTake, LeaseSend,
           LeaseReceive, LeaseUnanswered, LeaseCarry, LeaseSettle DEF Next

-----------------------------------------------------------------------------
(* Retries. *)

\* How many REGISTERs an operation may have sent by now: a challenge doubles
\* the one of a lifetime, and there are at most two lifetimes.
Allowance(t) ==
    (IF task[t].retried THEN 2 ELSE 0) +
    (CASE task[t].step = "attempting" -> 0
       [] task[t].step = "sending"    -> IF task[t].challenged THEN 1 ELSE 0
       [] task[t].step = "awaiting"   -> IF task[t].challenged THEN 2 ELSE 1
       [] OTHER                       -> 2)

Spent == \A t \in Task : task[t].tries <= 4 /\ (Busy(t) => task[t].tries <= Allowance(t))

LEMMA SpentOwn ==
    ASSUME Spent, NEW t \in Task, NEW r, TypeOK, task' = [task EXCEPT ![t] = r],
           r.tries <= 4,
           Busy(t)' => r.tries <= Allowance(t)'
    PROVE  Spent'
<1>1. task'[t] = r /\ \A u \in Task \ {t} : task'[u] = task[u]
  BY Elsewhere
<1>2. ASSUME NEW u \in Task \ {t}
      PROVE  (Busy(u)' <=> Busy(u)) /\ Allowance(u)' = Allowance(u)
  BY <1>1 DEF Busy, Allowance
<1> QED BY <1>1, <1>2 DEF Spent

LEMMA SpentReport ==
    ASSUME Spent, TypeOK, NEW t \in Task, NEW outcome, NEW value,
           task[t].step \in {"sending", "awaiting"}, Report(t, outcome, value)
    PROVE  Spent'
<1> DEFINE r == [task[t] EXCEPT !.step = Return(t), !.outcome = outcome,
                                !.value = value]
<1>1. task' = [task EXCEPT ![t] = r]
  BY DEF Report
<1>2. /\ task[t].tries \in Nat /\ task[t].tries <= 4 /\ Busy(t)
      /\ task[t].tries <= Allowance(t)
  BY LeaseTypes DEF Spent, Busy
<1>3. /\ r.step = Return(t) /\ r.tries = task[t].tries /\ r.retried = task[t].retried
  BY LeaseTypes DEF Activity
<1> HIDE DEF r
<1>4. task'[t] = r
  BY <1>1, Elsewhere
<1>5. Busy(t)' => r.step = "carrying"
  BY <1>3, <1>4 DEF Busy, Return
<1>6. r.step = "carrying" => Allowance(t)' = (IF task[t].retried THEN 2 ELSE 0) + 2
  BY <1>3, <1>4 DEF Allowance
<1>7. Allowance(t) <= (IF task[t].retried THEN 2 ELSE 0) + 2
  BY DEF Allowance
<1>8. Allowance(t) \in Nat
  BY DEF Allowance
<1>9. Busy(t)' => r.tries <= Allowance(t)'
  BY <1>2, <1>3, <1>5, <1>6, <1>7, <1>8
<1> QED BY <1>1, <1>2, <1>3, <1>9, SpentOwn

LEMMA SpentStep ==
    ASSUME Spent, TypeOK, [Next]_vars
    PROVE  Spent'
<1>a. \A t \in Task : task[t] \in Activity /\ task[t].tries \in Nat /\ task[t].tries <= 4
  BY LeaseTypes DEF Spent
<1>1. ASSUME NEW t \in Task, NEW op \in Op, Begin(t, op) PROVE Spent'
  <2> DEFINE r == [Idle EXCEPT !.op = op, !.step = "attempting",
                               !.requested = Asked(op)]
  <2>1. task' = [task EXCEPT ![t] = r] /\ task'[t] = r
    BY <1>1, Elsewhere DEF Begin
  <2>2. r.tries = 0 /\ r.step = "attempting" /\ r.retried = FALSE
    BY DEF Idle
  <2> HIDE DEF r
  <2>3. Allowance(t)' = 0
    BY <2>1, <2>2 DEF Allowance
  <2>4. r.tries <= 4 /\ r.tries <= Allowance(t)'
    BY <2>2, <2>3
  <2> QED BY <2>1, <2>4, SpentOwn
<1>2. ASSUME NEW t \in Task, TakeCSeq(t) PROVE Spent'
  <2> DEFINE n == state.cseq + 1
             r == [task[t] EXCEPT !.step = "sending", !.cseq = n,
                                  !.challenged = FALSE]
  <2>1. task' = [task EXCEPT ![t] = r] /\ task[t].step = "attempting"
    BY <1>2 DEF TakeCSeq
  <2> HIDE DEF n
  <2>2. /\ r.tries = task[t].tries /\ r.step = "sending" /\ r.retried = task[t].retried
        /\ r.challenged = FALSE
    BY <1>a DEF Activity
  <2> HIDE DEF r
  <2>3. task'[t] = r
    BY <2>1, Elsewhere
  <2>4. Allowance(t)' = Allowance(t)
    BY <2>1, <2>2, <2>3 DEF Allowance
  <2>5. task[t].tries <= Allowance(t)
    BY <2>1 DEF Spent, Busy
  <2> QED BY <1>a, <2>1, <2>2, <2>4, <2>5, SpentOwn
<1>3. ASSUME NEW t \in Task, Send(t) PROVE Spent'
  <2>1. task[t].step = "sending" /\ task[t].tries <= Allowance(t)
    BY <1>3 DEF Send, Spent, Busy
  <2>2. CASE up
    <3> DEFINE i == Len(sent) + 1
               k == task[t].tries + 1
               r == [task[t] EXCEPT !.step = "awaiting", !.id = i, !.tries = k]
    <3>1. task' = [task EXCEPT ![t] = r]
      BY <1>3, <2>2 DEF Send
    <3>2. k = task[t].tries + 1
      OBVIOUS
    <3> HIDE DEF i, k
    <3>3. /\ r.tries = k /\ r.step = "awaiting" /\ r.retried = task[t].retried
          /\ r.challenged = task[t].challenged
      BY <1>a DEF Activity
    <3> HIDE DEF r
    <3>4. task'[t] = r
      BY <3>1, Elsewhere
    <3>5. Allowance(t)' = Allowance(t) + 1 /\ Allowance(t) \in Nat /\ Allowance(t) <= 3
      BY <2>1, <3>3, <3>4 DEF Allowance
    <3>6. k <= Allowance(t)' /\ k <= 4
      BY <1>a, <2>1, <3>2, <3>5
    <3> QED BY <3>1, <3>3, <3>6, SpentOwn
  <2>3. CASE ~ up
    BY <1>3, <2>1, <2>3, SpentReport DEF Send
  <2> QED BY <2>2, <2>3
<1>4. ASSUME NEW t \in Task, NEW a \in answers, Receive(t, a) PROVE Spent'
  <2>1. task[t].step = "awaiting" /\ task[t].tries <= Allowance(t)
    BY <1>4 DEF Receive, Spent, Busy
  <2>2. CASE Retry(t) /\ ~ task[t].challenged
    <3> DEFINE n == task[t].cseq + 1
               r == [task[t] EXCEPT !.step = "sending", !.cseq = n,
                                    !.challenged = TRUE]
    <3>1. task' = [task EXCEPT ![t] = r]
      BY <2>2 DEF Retry
    <3> HIDE DEF n
    <3>2. /\ r.tries = task[t].tries /\ r.step = "sending" /\ r.retried = task[t].retried
          /\ r.challenged = TRUE
      BY <1>a DEF Activity
    <3> HIDE DEF r
    <3>3. task'[t] = r
      BY <3>1, Elsewhere
    <3>4. Allowance(t)' = Allowance(t)
      BY <2>1, <2>2, <3>2, <3>3 DEF Allowance
    <3> QED BY <1>a, <2>1, <3>1, <3>2, <3>4, SpentOwn
  <2>3. CASE \E outcome, value : Report(t, outcome, value)
    BY <2>1, <2>3, SpentReport
  <2>4. \/ Retry(t) /\ ~ task[t].challenged
        \/ \E outcome, value : Report(t, outcome, value)
    BY <1>4 DEF Receive
  <2> QED BY <2>2, <2>3, <2>4
<1>5. ASSUME NEW t \in Task, TimeOut(t) \/ Disconnected(t) PROVE Spent'
  BY <1>5, SpentReport DEF TimeOut, Disconnected
<1>6. ASSUME NEW t \in Task, NEW step \in {"settling", "idle", "stopped", "sleeping"},
             task' = [task EXCEPT ![t] = [task[t] EXCEPT !.step = step]],
             step = "settling" => task[t].step = "carrying"
      PROVE  Spent'
  <2> DEFINE r == [task[t] EXCEPT !.step = step]
  <2>1. r.tries = task[t].tries /\ r.step = step /\ r.retried = task[t].retried
    BY <1>a DEF Activity
  <2>2. task' = [task EXCEPT ![t] = r]
    BY <1>6
  <2> HIDE DEF r
  <2>3. task'[t] = r
    BY <2>2, Elsewhere
  <2>4. Busy(t)' => r.tries <= Allowance(t)'
    <3> SUFFICES ASSUME step = "settling" PROVE r.tries <= Allowance(t)'
      BY <2>1, <2>3 DEF Busy
    <3>1. Allowance(t)' = Allowance(t)
      BY <1>6, <2>1, <2>3 DEF Allowance
    <3>2. task[t].tries <= Allowance(t)
      BY <1>6 DEF Spent, Busy
    <3> QED BY <2>1, <3>1, <3>2
  <2> QED BY <1>a, <2>1, <2>2, <2>4, SpentOwn
<1>7. ASSUME NEW t \in Task, Carry(t) PROVE Spent'
  BY <1>6, <1>7 DEF Carry
<1>8. ASSUME NEW t \in Task, Settle(t) PROVE Spent'
  <2>1. CASE Conclude(t)
    <3>1. Rest(t) \in {"idle", "stopped", "sleeping"}
      BY DEF Rest
    <3> QED BY <1>6, <2>1, <3>1 DEF Conclude
  <2> DEFINE v == task[t].value
             r == [task[t] EXCEPT !.step = "attempting", !.requested = v,
                                  !.retried = TRUE]
  <2>2. CASE task' = [task EXCEPT ![t] = r] /\ ~ task[t].retried
    <3>1. r.tries = task[t].tries /\ r.step = "attempting" /\ r.retried = TRUE
      BY <1>a DEF Activity
    <3> HIDE DEF r
    <3>2. task'[t] = r
      BY <2>2, Elsewhere
    <3>3. Allowance(t) = 2 /\ Allowance(t)' = 2
      BY <1>8, <2>2, <3>1, <3>2 DEF Allowance, Settle
    <3>4. task[t].tries <= Allowance(t)
      BY <1>8 DEF Spent, Busy, Settle
    <3> QED BY <1>a, <2>2, <3>1, <3>3, <3>4, SpentOwn
  <2>3. \/ Conclude(t)
        \/ task' = [task EXCEPT ![t] = r] /\ ~ task[t].retried
    BY <1>8 DEF Settle, MayRetry
  <2> QED BY <2>1, <2>2, <2>3
<1>9. CASE StopKeepalive
  <2>1. CASE Keepalive \in Task
    BY <1>6, <1>9, <2>1 DEF StopKeepalive
  <2>2. CASE Keepalive \notin Task
    <3>1. task' = task
      BY <1>9, <2>2 DEF StopKeepalive, TypeOK
    <3> QED BY <3>1 DEF Spent, Busy, Allowance
  <2> QED BY <2>1, <2>2
<1>10. CASE task' = task
  BY <1>10 DEF Spent, Busy, Allowance
<1>11. ASSUME NEW n, \/ Refuse(n) \/ AnswerQuery(n)
                    \/ (\E min : TooBrief(n, min))
                    \/ (\E granted, named : Bind(n, granted, named))
       PROVE  Spent'
  BY <1>10, <1>11 DEF Refuse, AnswerQuery, TooBrief, Bind, Reply
<1>12. CASE Cancel \/ StopEngine \/ UNCHANGED vars
  BY <1>10, <1>12 DEF Cancel, StopEngine, vars
<1> QED BY <1>1, <1>2, <1>3, <1>4, <1>5, <1>7, <1>8, <1>9, <1>11, <1>12 DEF Next

-----------------------------------------------------------------------------
LEMMA LeaseInit == Init => Inv /\ Lease /\ Spent
<1> SUFFICES ASSUME Init PROVE Inv /\ Lease /\ Spent
  OBVIOUS
<1>1. TypeOK
  BY InitTyped
<1>2. /\ sent = <<>> /\ DOMAIN sent = {} /\ answers = {} /\ refusals = 0
      /\ settled.outcome = "Pending"
  BY DEF Init
<1>3. \A t \in Task : task[t].step = "idle" /\ task[t].tries = 0
  BY DEF Init, Idle
<1>4. \A t \in Task : ~ Busy(t) /\ ~ Numbering(t)
  BY <1>3 DEF Busy, Numbering
<1>5. Inv
  BY <1>1, <1>2, <1>4 DEF Inv, OneBusy, Numbered, FreshCSeq
<1>6. Lease
  BY <1>2, <1>4 DEF Lease, Own, Standing, Addressed
<1>7. Spent
  <2>1. ASSUME NEW t \in Task PROVE task[t].tries <= 4
    <3>1. task[t].tries = 0
      BY <1>3
    <3> QED BY <3>1
  <2> QED BY <1>4, <2>1 DEF Spent
<1> QED BY <1>5, <1>6, <1>7

LEMMA LeaseAlways ==
    ASSUME Overlap = FALSE
    PROVE  Spec => [](Inv /\ Lease /\ Spent)
<1> DEFINE I == Inv /\ Lease /\ Spent
<1>1. Init => I
  BY LeaseInit
<1>2. I /\ [Next]_vars => I'
  BY InvStep, LeaseStep, SpentStep DEF Inv
<1> HIDE DEF I
<1>3. Spec => []I
  BY <1>1, <1>2, PTL DEF Spec
<1> QED BY <1>3 DEF I

\* Between operations of tasks that take turns, after a registration that
\* succeeded, the state holds the lifetime of the registrar's binding where the
\* 2xx named it in `Expires`, and what that REGISTER asked for where it did
\* not, as when only its Contact did: REGISTERs that are still on their way,
\* answers that were lost and queries made since cannot part them.
THEOREM LifetimesAgree ==
    ASSUME Overlap = FALSE
    PROVE  Spec => []InSync
<1>1. Lease => InSync
  BY DEF Lease, Told, Standing, Resting, InSync, Quiet
<1> QED BY <1>1, LeaseAlways, PTL

\* Once an unregister has succeeded no REGISTER still on its way, and no retry,
\* brings the binding back.
THEOREM UnregisteringSticks ==
    ASSUME Overlap = FALSE
    PROVE  Spec => []UnregisterSticks
<1>1. Lease => UnregisterSticks
  BY DEF Lease, Standing, Resting, UnregisterSticks, Quiet
<1> QED BY <1>1, LeaseAlways, PTL

\* No operation sends more than four REGISTERs, and none asks for less than a
\* minimum the state has learnt, whatever the registrar answers.
THEOREM RetriesStop ==
    ASSUME Overlap = FALSE
    PROVE  Spec => []RetriesBounded
<1>1. Lease /\ Spent => RetriesBounded
  BY DEF Lease, Spent, RetriesBounded
<1> QED BY <1>1, LeaseAlways, PTL

=============================================================================
