--------------------------- MODULE OutboundProofs ---------------------------
(***************************************************************************)
(* Proofs about an outbound call and its messages, for any capacities of   *)
(* the flow's and the progress channel and any proxies on the way: the     *)
(* CANCEL and the ACK a dial sends are due (CancelFits, ConfirmedIsKept),  *)
(* and every request after the INVITE reaches what it is for (SignalsMeet).*)
(*                                                                         *)
(* The first two rest on what the task knows being about its present       *)
(* INVITE: between a challenge and the retry its flags and its flow are    *)
(* still those of the first.                                               *)
(***************************************************************************)
EXTENDS Signalling, SequenceTheorems, TLAPS

-----------------------------------------------------------------------------
(* Types. *)

LEMMA Queue ==
    ASSUME NEW S, NEW s \in Seq(S)
    PROVE  /\ \A x \in S : /\ Append(s, x) \in Seq(S) /\ Len(Append(s, x)) = Len(s) + 1
                           /\ \A i \in DOMAIN Append(s, x) :
                                 Append(s, x)[i] = x \/ \E j \in DOMAIN s : Append(s, x)[i] = s[j]
           /\ s # <<>> => /\ Head(s) \in S /\ Tail(s) \in Seq(S)
                          /\ Len(Tail(s)) = Len(s) - 1
                          /\ \E j \in DOMAIN s : Head(s) = s[j]
                          /\ \A i \in DOMAIN Tail(s) : \E j \in DOMAIN s : Tail(s)[i] = s[j]
<1>1. ASSUME NEW x \in S
      PROVE  /\ Append(s, x) \in Seq(S) /\ Len(Append(s, x)) = Len(s) + 1
             /\ \A i \in DOMAIN Append(s, x) :
                   Append(s, x)[i] = x \/ \E j \in DOMAIN s : Append(s, x)[i] = s[j]
  <2>1. /\ Append(s, x) \in Seq(S) /\ Len(Append(s, x)) = Len(s) + 1
        /\ \A i \in 1 .. Len(s) : Append(s, x)[i] = s[i]
        /\ Append(s, x)[Len(s) + 1] = x
    BY AppendProperties
  <2>2. Len(s) \in Nat /\ DOMAIN s = 1 .. Len(s) /\ DOMAIN Append(s, x) = 1 .. Len(s) + 1
    BY <2>1
  <2>3. \A i \in 1 .. Len(s) + 1 : i \in 1 .. Len(s) \/ i = Len(s) + 1
    BY <2>2
  <2> QED BY <2>1, <2>2, <2>3
<1>2. ASSUME s # <<>>
      PROVE  /\ Head(s) \in S /\ Tail(s) \in Seq(S) /\ Len(Tail(s)) = Len(s) - 1
             /\ \E j \in DOMAIN s : Head(s) = s[j]
             /\ \A i \in DOMAIN Tail(s) : \E j \in DOMAIN s : Tail(s)[i] = s[j]
  <2>1. /\ Head(s) \in S /\ Tail(s) \in Seq(S) /\ Len(Tail(s)) = Len(s) - 1
        /\ \A i \in 1 .. Len(Tail(s)) : Tail(s)[i] = s[i + 1]
        /\ Head(s) = s[1] /\ Len(s) \in Nat \ {0}
    BY <1>2, HeadTailProperties, EmptySeq
  <2>2. DOMAIN s = 1 .. Len(s) /\ DOMAIN Tail(s) = 1 .. Len(s) - 1
    BY <2>1
  <2>3. \A i \in 1 .. Len(s) - 1 : i + 1 \in 1 .. Len(s) /\ Tail(s)[i] = s[i + 1]
    BY <2>1
  <2> QED BY <2>1, <2>2, <2>3
<1> QED BY <1>1, <1>2

LEMMA Empty == <<>> \in Seq(Event) /\ Len(<<>>) <= FlowRoom
<1>1. Len(<<>>) = 0 /\ FlowRoom \in Nat
  BY OutboundAssumption DEF OutboundAssumption
<1> QED BY <1>1

LEMMA Statuses ==
    /\ Status \subseteq Event /\ Provisional \subseteq Status /\ Success \subseteq Status
    /\ Event = Status \cup {"timeout"} /\ "timeout" \notin Status
    /\ Provisional \cap Success = {}
BY DEF Status, Event, Provisional, Success, Failure

LEMMA DeliverTyped ==
    ASSUME TypeOK, NEW event \in Event, Deliver(event)
    PROVE  TypeOK'
<1>1. flow \in Seq(Event) /\ flow' = Append(flow, event) /\ Len(flow) < FlowRoom
  BY DEF Deliver, TypeOK
<1>2. flow' \in Seq(Event) /\ Len(flow') <= FlowRoom
  BY <1>1, Queue, OutboundAssumption DEF OutboundAssumption
<1>3. tx' \in [Attempt -> {"none", "calling", "proceeding", "closed"}]
  BY DEF Deliver, TypeOK
<1> QED BY <1>2, <1>3 DEF Deliver, TypeOK, task, channel, sent, far

LEMMA RespondsTyped ==
    ASSUME TypeOK, NEW a \in Attempt, NEW status \in Status,
           NEW state \in {"ringing", "answered", "refused"}, Responds(a, state, status)
    PROVE  TypeOK'
BY DEF Responds, TypeOK, task, channel, engine, sent

LEMMA NextEventTyped ==
    ASSUME TypeOK, NEW events, NextEvent(events)
    PROVE  /\ flow \in Seq(Event) /\ flow # <<>> /\ Head(flow) \in Event \cap events
           /\ flow' = Tail(flow)
           /\ flow' \in Seq(Event) /\ Len(flow') <= FlowRoom
<1>1. flow \in Seq(Event) /\ flow # <<>> /\ flow' = Tail(flow) /\ Len(flow) <= FlowRoom
  BY DEF NextEvent, TypeOK
<1>2. Head(flow) \in Event /\ flow' \in Seq(Event) /\ Len(flow') = Len(flow) - 1
  BY <1>1, Queue
<1>3. Len(flow) \in Nat
  BY <1>1
<1> QED BY <1>1, <1>2, <1>3, OutboundAssumption DEF NextEvent, OutboundAssumption

LEMMA NoteTyped ==
    ASSUME TypeOK, NEW f \in Flags, Note(f)
    PROVE  flags' \in Flags /\ cancels' \in [Attempt -> Nat]
<1>1. CancelDue(f) \in BOOLEAN
  BY DEF CancelDue, Flags
<1>2. flags' = [f EXCEPT !.sent = f.sent \/ CancelDue(f)]
  BY DEF Note
<1>3. flags' \in Flags
  BY <1>1, <1>2 DEF Flags
<1>4. cancels \in [Attempt -> Nat]
  BY DEF TypeOK
<1>5. cancels' = [cancels EXCEPT ![attempt] = cancels[attempt] + 1] \/ cancels' = cancels
  BY DEF Note
<1>6. cancels' \in [Attempt -> Nat]
  BY <1>4, <1>5
<1> QED BY <1>3, <1>6

LEMMA TypeStep == TypeOK /\ [Next]_vars => TypeOK'
<1> SUFFICES ASSUME TypeOK, [Next]_vars PROVE TypeOK'
  OBVIOUS
<1> USE DEF task, channel, engine, sent, far
<1>1. CASE StartInvite
  <2>1. flow' = <<>> /\ <<>> \in Seq(Event) /\ Len(<<>>) <= FlowRoom
    BY <1>1, Empty DEF StartInvite
  <2>2. step' \in {"awaiting", "over"} /\ outcome' \in Outcome /\ flags' \in Flags
    BY <1>1 DEF StartInvite, FirstFlags, NoFlags, Flags, Finish, Outcome, TypeOK
  <2>3. tx' \in [Attempt -> {"none", "calling", "proceeding", "closed"}]
    BY <1>1 DEF StartInvite, TypeOK
  <2> QED BY <1>1, <2>1, <2>2, <2>3 DEF StartInvite, TypeOK
<1>2. CASE HearProvisional
  BY <1>2, NextEventTyped DEF HearProvisional, TypeOK
<1>3. CASE Inform
  <2>1. [flags EXCEPT !.seen = TRUE] \in Flags
    BY DEF TypeOK, Flags
  <2>2. flags' \in Flags /\ cancels' \in [Attempt -> Nat]
    BY <1>3, <2>1, NoteTyped DEF Inform, OnProvisional
  <2>3. progress' \in 0 .. ProgressRoom
    BY <1>3, OutboundAssumption DEF Inform, Informs, TypeOK, OutboundAssumption
  <2> QED BY <1>3, <2>2, <2>3 DEF Inform, TypeOK
<1>4. CASE NoticeCancel
  <2>1. [flags EXCEPT !.requested = TRUE] \in Flags
    BY DEF TypeOK, Flags
  <2>2. flags' \in Flags /\ cancels' \in [Attempt -> Nat]
    BY <1>4, <2>1, NoteTyped DEF NoticeCancel, OnCancelled
  <2> QED BY <1>4, <2>2 DEF NoticeCancel, TypeOK
<1>5. CASE HearFinal
  <2>1. /\ flow' \in Seq(Event) /\ Len(flow') <= FlowRoom
    BY <1>5, NextEventTyped DEF HearFinal
  <2>2. ack' \in {0} \cup Attempt
    BY <1>5 DEF HearFinal, TypeOK
  <2>3. step' = "over" /\ outcome' \in Outcome
    BY <1>5 DEF HearFinal, Finish, Verdict, Outcome
  <2> QED BY <1>5, <2>1, <2>2, <2>3 DEF HearFinal, TypeOK
<1>6. CASE Retry
  BY <1>6, NextEventTyped DEF Retry, TypeOK, Attempt
<1>7. CASE FlowClosed
  BY <1>7 DEF FlowClosed, Finish, Outcome, TypeOK
<1>8. CASE FireToken \/ StopListening \/ Shutdown
  <2>1. progress' \in 0 .. ProgressRoom
    BY <1>8, OutboundAssumption
       DEF FireToken, StopListening, Shutdown, TypeOK, OutboundAssumption
  <2>2. {token, listener, running}' \subseteq BOOLEAN
    BY <1>8 DEF FireToken, StopListening, Shutdown, TypeOK
  <2> QED BY <1>8, <2>1, <2>2 DEF FireToken, StopListening, Shutdown, TypeOK
<1>9. CASE TakeProgress
  BY <1>9, OutboundAssumption DEF TakeProgress, TypeOK, OutboundAssumption
<1>10. CASE Receive
  <2>1. PICK status \in wire[attempt] : Deliver(status)
    BY <1>10 DEF Receive
  <2>2. status \in Event
    BY <2>1, Statuses DEF TypeOK
  <2> QED BY <2>1, <2>2, DeliverTyped
<1>11. CASE TimerB
  BY <1>11, Statuses, DeliverTyped DEF TimerB
<1>12. ASSUME NEW a \in Attempt, PeerRings(a) \/ PeerAnswers(a) \/ PeerRefuses(a) \/ PeerCancels(a)
       PROVE  TypeOK'
  BY <1>12, RespondsTyped, Statuses
     DEF PeerRings, PeerAnswers, PeerRefuses, PeerCancels, Status, Failure
<1>13. ASSUME NEW a \in Attempt, PeerConfirmed(a) \/ PeerDrops(a) PROVE TypeOK'
  BY <1>13 DEF PeerConfirmed, PeerDrops, Becomes, TypeOK
<1>14. CASE UNCHANGED vars
  BY <1>14 DEF vars, TypeOK
<1> QED BY <1>1, <1>2, <1>3, <1>4, <1>5, <1>6, <1>7, <1>8, <1>9, <1>10, <1>11, <1>12,
           <1>13, <1>14 DEF Next

LEMMA TypeInit == Init => TypeOK
<1> SUFFICES ASSUME Init PROVE TypeOK
  OBVIOUS
<1>1. flow \in Seq(Event) /\ Len(flow) <= FlowRoom
  BY Empty DEF Init
<1>2. progress \in 0 .. ProgressRoom
  BY OutboundAssumption DEF Init, OutboundAssumption
<1>3. flags \in Flags /\ outcome \in Outcome
  BY DEF Init, NoFlags, Flags, Outcome
<1>4. {token, listener, running} \subseteq BOOLEAN
  BY DEF Init
<1>5. /\ tx \in [Attempt -> {"none", "calling", "proceeding", "closed"}]
      /\ cancels \in [Attempt -> Nat]
      /\ peer \in [Attempt -> {"unheard", "ringing", "answered", "refused", "up", "dropped"}]
      /\ wire \in [Attempt -> SUBSET Status]
  BY DEF Init
<1> QED BY <1>1, <1>2, <1>3, <1>4, <1>5 DEF Init, TypeOK, Attempt

-----------------------------------------------------------------------------
(* What the task knows is about its present INVITE. *)

Rung(a) == wire[a] \cap Provisional # {}

\* Nothing was sent for an INVITE that has not started; for the present one the
\* flags tell.
Counted ==
    /\ \A a \in Attempt : cancels[a] \in {0, 1} /\ (cancels[a] = 1 => Rung(a))
    /\ \A a \in Attempt : a > attempt => cancels[a] = 0
    /\ step = "starting" => cancels[attempt] = 0
    /\ step # "starting" /\ cancels[attempt] = 1 => flags.sent

\* Its flags and its flow come from the peer's responses to it.
Current ==
    step # "starting" =>
        /\ flags.seen \/ step = "informing" => Rung(attempt)
        /\ \A i \in DOMAIN flow : flow[i] \in Status => flow[i] \in wire[attempt]

\* The ACK and the verdict are one step, and the last.
Final ==
    /\ ack # 0 => /\ step = "over" /\ wire[ack] \cap Success # {}
                  /\ outcome \in {"Answered", "BadSdp"}
    /\ step # "over" => outcome = "none"
    /\ outcome = "Answered" /\ running => ack = attempt

DialInv == TypeOK /\ Counted /\ Current /\ Final

\* Steps of others: the peer may only have said more.
LEMMA OthersStep ==
    ASSUME DialInv,
           UNCHANGED <<step, attempt, flags, outcome, cancels, ack>>,
           step # "starting" =>
              \A i \in DOMAIN flow' : flow'[i] \in Status => flow'[i] \in wire[attempt],
           running' => running,
           \A a \in Attempt : wire[a] \subseteq wire'[a]
    PROVE  Counted' /\ Current' /\ Final'
<1>1. attempt \in Attempt /\ (ack # 0 => ack \in Attempt)
  BY DEF DialInv, TypeOK
<1>2. \A a \in Attempt : Rung(a) => Rung(a)'
  BY DEF Rung
<1>3. Counted'
  BY <1>2 DEF DialInv, Counted
<1>4. Current'
  BY <1>1, <1>2 DEF DialInv, Current
<1>5. Final'
  BY <1>1 DEF DialInv, Final
<1> QED BY <1>3, <1>4, <1>5

LEMMA NextEventStep ==
    ASSUME DialInv, NEW events, NextEvent(events)
    PROVE  /\ step = "awaiting" /\ Head(flow) \in events \cap Event
           /\ Head(flow) \in Status => Head(flow) \in wire[attempt]
           /\ \A i \in DOMAIN flow' : flow'[i] \in Status => flow'[i] \in wire[attempt]
<1>1. /\ flow \in Seq(Event) /\ flow # <<>> /\ flow' = Tail(flow)
      /\ Head(flow) \in events \cap Event /\ step = "awaiting"
  BY NextEventTyped DEF DialInv, NextEvent
<1>2. \A i \in DOMAIN flow : flow[i] \in Status => flow[i] \in wire[attempt]
  BY <1>1 DEF DialInv, Current
<1>3. /\ \E j \in DOMAIN flow : Head(flow) = flow[j]
      /\ \A i \in DOMAIN Tail(flow) : \E j \in DOMAIN flow : Tail(flow)[i] = flow[j]
  BY <1>1, Queue
<1> QED BY <1>1, <1>2, <1>3

\* A CANCEL goes out with the flag that stops the next.
LEMMA NoteStep ==
    ASSUME DialInv, NEW f \in Flags, Note(f), step' = "awaiting", step # "starting",
           f.sent = flags.sent, f.seen => Rung(attempt),
           UNCHANGED <<attempt, outcome, flow, ack, wire, running>>, step # "over"
    PROVE  Counted' /\ Current' /\ Final'
<1>1. attempt \in Attempt /\ cancels \in [Attempt -> Nat] /\ flags \in Flags
  BY DEF DialInv, TypeOK
<1>2. flags' = [f EXCEPT !.sent = f.sent \/ CancelDue(f)]
  BY DEF Note
<1>3. flags'.seen = f.seen /\ (f.sent \/ CancelDue(f) => flags'.sent)
  BY <1>2 DEF Flags
<1>4. \A a \in Attempt : Rung(a)' <=> Rung(a)
  BY DEF Rung
<1>5. Counted'
  <2>1. CASE cancels' = cancels
    BY <1>3, <1>4, <2>1 DEF DialInv, Counted
  <2>2. CASE CancelDue(f) /\ cancels' = [cancels EXCEPT ![attempt] = cancels[attempt] + 1]
    <3>1. ~ flags.sent /\ Rung(attempt) /\ flags'.sent
      BY <1>3, <2>2 DEF CancelDue
    <3>2. cancels[attempt] = 0
      BY <1>1, <3>1 DEF DialInv, Counted
    <3>3. cancels'[attempt] = 1 /\ \A a \in Attempt : a # attempt => cancels'[a] = cancels[a]
      BY <1>1, <2>2, <3>2
    <3>4. \A a \in Attempt : a > attempt => a # attempt
      BY DEF Attempt
    <3> QED BY <1>1, <1>4, <3>1, <3>3, <3>4 DEF DialInv, Counted
  <2> QED BY <2>1, <2>2 DEF Note
<1>6. Current'
  BY <1>1, <1>3, <1>4 DEF DialInv, Current
<1>7. Final'
  BY DEF DialInv, Final
<1> QED BY <1>5, <1>6, <1>7

LEMMA DialStep == DialInv /\ [Next]_vars => DialInv'
<1> SUFFICES ASSUME DialInv, [Next]_vars PROVE DialInv'
  OBVIOUS
<1> USE DEF task, channel, engine, sent, far
<1>1. TypeOK'
  BY TypeStep DEF DialInv
<1>2. attempt \in Attempt /\ ack \in {0} \cup Attempt /\ wire \in [Attempt -> SUBSET Status]
  BY DEF DialInv, TypeOK
<1>3. CASE StartInvite
  <2>1. UNCHANGED <<attempt, cancels, ack, wire, running>> /\ step = "starting"
    BY <1>3 DEF StartInvite
  <2>2. /\ flow' = <<>> /\ flags'.seen = FALSE
        /\ \/ step' = "awaiting" /\ outcome' = outcome
           \/ step' = "over" /\ outcome' = "EngineStopped"
    BY <1>3 DEF StartInvite, Finish, FirstFlags, NoFlags
  <2>3. Counted'
    BY <1>2, <2>1, <2>2 DEF DialInv, Counted, Rung
  <2>4. Current'
    BY <2>2 DEF Current
  <2>5. Final'
    BY <2>1, <2>2 DEF DialInv, Final
  <2> QED BY <1>1, <2>3, <2>4, <2>5 DEF DialInv
<1>4. CASE HearProvisional
  <2>1. /\ UNCHANGED <<attempt, flags, outcome, cancels, ack, wire, running>>
        /\ step' = "informing" /\ step = "awaiting"
        /\ Head(flow) \in Provisional /\ Head(flow) \in wire[attempt]
        /\ \A i \in DOMAIN flow' : flow'[i] \in Status => flow'[i] \in wire[attempt]
    BY <1>4, NextEventStep, Statuses DEF HearProvisional
  <2>2. Counted' /\ Final'
    BY <2>1 DEF DialInv, Counted, Final, Rung
  <2>3. Current'
    BY <2>1 DEF Current, Rung
  <2> QED BY <1>1, <2>2, <2>3 DEF DialInv
<1>5. CASE Inform
  <2>1. /\ [flags EXCEPT !.seen = TRUE] \in Flags
        /\ [flags EXCEPT !.seen = TRUE].sent = flags.sent
    BY DEF DialInv, TypeOK, Flags
  <2>2. Rung(attempt)
    BY <1>5 DEF Inform, DialInv, Current
  <2> QED BY <1>1, <1>5, <2>1, <2>2, NoteStep DEF Inform, OnProvisional, DialInv
<1>6. CASE NoticeCancel
  <2>1. /\ [flags EXCEPT !.requested = TRUE] \in Flags
        /\ [flags EXCEPT !.requested = TRUE].sent = flags.sent
        /\ [flags EXCEPT !.requested = TRUE].seen = flags.seen
    BY DEF DialInv, TypeOK, Flags
  <2>2. flags.seen => Rung(attempt)
    BY <1>6 DEF NoticeCancel, DialInv, Current
  <2> QED BY <1>1, <1>6, <2>1, <2>2, NoteStep DEF NoticeCancel, OnCancelled, DialInv
<1>7. CASE HearFinal
  <2>1. /\ UNCHANGED <<attempt, flags, cancels, wire, running>>
        /\ step' = "over" /\ outcome' = Verdict(Head(flow)) /\ step = "awaiting"
        /\ ack' = IF Confirms(Head(flow)) /\ running THEN attempt ELSE ack
        /\ Head(flow) \in Event
        /\ Head(flow) \in Status => Head(flow) \in wire[attempt]
        /\ \A i \in DOMAIN flow' : flow'[i] \in Status => flow'[i] \in wire[attempt]
    BY <1>7, NextEventStep DEF HearFinal, Finish
  <2>2. Counted'
    BY <2>1 DEF DialInv, Counted, Rung
  <2>3. Current'
    BY <2>1 DEF DialInv, Current, Rung
  <2>4. ack = 0
    BY <2>1 DEF DialInv, Final
  <2>5. Confirms(Head(flow)) =>
           /\ Head(flow) \in wire[attempt] \cap Success
           /\ outcome' \in {"Answered", "BadSdp"}
    BY <2>1, Statuses DEF Confirms, Success, Verdict
  <2>6. outcome' = "Answered" => Confirms(Head(flow))
    BY <2>1 DEF Confirms, Success, Verdict
  <2>7. Final'
    BY <2>1, <2>4, <2>5, <2>6 DEF Final
  <2> QED BY <1>1, <2>2, <2>3, <2>7 DEF DialInv
<1>8. CASE Retry
  <2>1. /\ UNCHANGED <<outcome, cancels, ack, wire, running>>
        /\ attempt = 1 /\ attempt' = 2 /\ step = "awaiting" /\ step' = "starting"
    BY <1>8 DEF Retry, NextEvent
  <2>2. Counted'
    BY <2>1 DEF DialInv, Counted, Rung, Attempt
  <2>3. Current'
    BY <2>1 DEF Current
  <2>4. Final'
    BY <2>1 DEF DialInv, Final
  <2> QED BY <1>1, <2>2, <2>3, <2>4 DEF DialInv
<1>9. CASE FlowClosed
  <2>1. /\ UNCHANGED <<attempt, flags, flow, cancels, ack, wire, running>>
        /\ step = "awaiting" /\ step' = "over" /\ outcome' = "TimedOut"
    BY <1>9 DEF FlowClosed, Finish
  <2>2. Counted' /\ Current' /\ Final'
    BY <2>1 DEF DialInv, Counted, Current, Final, Rung
  <2> QED BY <1>1, <2>2 DEF DialInv
<1>10. CASE FireToken \/ TakeProgress \/ StopListening \/ Shutdown \/ UNCHANGED vars
  <2>1. /\ UNCHANGED <<step, attempt, flags, outcome, cancels, ack, flow, wire>>
        /\ running' => running
    BY <1>10 DEF FireToken, TakeProgress, StopListening, Shutdown, vars
  <2> QED BY <1>1, <2>1, OthersStep DEF DialInv, Current
<1>11. ASSUME NEW event \in Event, Deliver(event), event \in Status => event \in wire[attempt]
       PROVE  DialInv'
  <2>1. /\ UNCHANGED <<step, attempt, flags, outcome, cancels, ack, wire, running>>
        /\ flow \in Seq(Event) /\ flow' = Append(flow, event)
    BY <1>11 DEF Deliver, DialInv, TypeOK
  <2>2. \A i \in DOMAIN flow' : flow'[i] = event \/ \E j \in DOMAIN flow : flow'[i] = flow[j]
    BY <2>1, Queue
  <2>3. step # "starting" =>
           \A i \in DOMAIN flow' : flow'[i] \in Status => flow'[i] \in wire[attempt]
    BY <1>11, <2>2 DEF DialInv, Current
  <2> QED BY <1>1, <2>1, <2>3, OthersStep DEF DialInv
<1>12. CASE Receive
  BY <1>2, <1>11, <1>12, Statuses DEF Receive
<1>13. CASE TimerB
  BY <1>11, <1>13, Statuses DEF TimerB
<1>14. ASSUME NEW a \in Attempt,
              PeerRings(a) \/ PeerAnswers(a) \/ PeerRefuses(a) \/ PeerCancels(a)
                \/ PeerConfirmed(a) \/ PeerDrops(a)
       PROVE  DialInv'
  <2>1. UNCHANGED <<step, attempt, flags, outcome, cancels, ack, flow, running>>
    BY <1>14 DEF PeerRings, PeerAnswers, PeerRefuses, PeerCancels, PeerConfirmed,
                 PeerDrops, Responds, Becomes
  <2>2. wire' = wire \/ \E status \in Status : wire' = [wire EXCEPT ![a] = wire[a] \cup {status}]
    BY <1>14, Statuses
       DEF PeerRings, PeerAnswers, PeerRefuses, PeerCancels, PeerConfirmed, PeerDrops,
           Responds, Becomes, Status, Failure
  <2>3. \A b \in Attempt : wire[b] \subseteq wire'[b]
    BY <1>2, <2>2
  <2>4. step # "starting" =>
           \A i \in DOMAIN flow' : flow'[i] \in Status => flow'[i] \in wire[attempt]
    BY <2>1 DEF DialInv, Current
  <2> QED BY <1>1, <2>1, <2>3, <2>4, OthersStep DEF DialInv
<1> QED BY <1>3, <1>4, <1>5, <1>6, <1>7, <1>8, <1>9, <1>10, <1>12, <1>13, <1>14 DEF Next

LEMMA DialInit == Init => DialInv
<1> SUFFICES ASSUME Init PROVE DialInv
  OBVIOUS
<1>1. TypeOK
  BY TypeInit
<1>2. Counted /\ Current /\ Final
  BY DEF Init, Counted, Current, Final, Attempt
<1> QED BY <1>1, <1>2 DEF DialInv

\* Wherever the token fires - before the first provisional, while a status is
\* being reported, between a challenge and its retry - no INVITE is cancelled
\* twice, or before the peer is known to have it.
THEOREM CancelsFit == Spec => []CancelFits
<1>1. DialInv => CancelFits
  BY DEF DialInv, Counted, Rung, CancelFits
<1> QED BY <1>1, DialInit, DialStep, PTL DEF Spec

\* A call whose ACK was sent is the application's when the dial returns.
THEOREM ConfirmedIsReturned == Spec => []ConfirmedIsKept
<1>1. DialInv => ConfirmedIsKept
  BY DEF DialInv, Final, ConfirmedIsKept
<1> QED BY <1>1, DialInit, DialStep, PTL DEF Spec

-----------------------------------------------------------------------------
(* The messages of the dial, whatever proxies are on the way. *)

LEMMA Back ==
    ASSUME NEW S, NEW path \in Seq(S)
    PROVE  Reverse(path) \in Seq(S) /\ Reverse(Reverse(path)) = path
<1>1. /\ Len(path) \in Nat /\ DOMAIN path = 1 .. Len(path)
      /\ path = [i \in 1 .. Len(path) |-> path[i]]
      /\ \A i \in 1 .. Len(path) : path[i] \in S
  OBVIOUS
<1>2. Reverse(path) = [i \in 1 .. Len(path) |-> path[(Len(path) - i) + 1]]
  BY DEF Reverse
<1>3. \A i \in 1 .. Len(path) :
         /\ (Len(path) - i) + 1 \in 1 .. Len(path)
         /\ (Len(path) - ((Len(path) - i) + 1)) + 1 = i
  BY <1>1
<1>4. Reverse(path) \in [1 .. Len(path) -> S]
  BY <1>1, <1>2, <1>3
<1>5. Reverse(path) \in Seq(S)
  BY <1>1, <1>4, SeqDef
<1>6. Len(Reverse(path)) = Len(path)
  BY <1>1, <1>2, <1>5
<1>7. Reverse(Reverse(path)) =
         [i \in 1 .. Len(path) |-> Reverse(path)[(Len(path) - i) + 1]]
  BY <1>6 DEF Reverse
<1>8. \A i \in 1 .. Len(path) : Reverse(path)[(Len(path) - i) + 1] = path[i]
  BY <1>2, <1>3
<1> QED BY <1>1, <1>5, <1>7, <1>8

LEMMA PathsAreSequences == Paths \subseteq Seq(Proxy)
<1> SUFFICES ASSUME NEW path \in Paths PROVE path \in Seq(Proxy)
  OBVIOUS
<1>1. PICK m \in 0 .. 2 : path \in [1 .. m -> Proxy]
  BY DEF Paths, SeqOf
<1> QED BY <1>1, SeqDef

LEMMA Transports ==
    ASSUME NEW t \in Transport
    PROVE  /\ TransportOf(Here(t)) = t /\ TransportOf(There(t)) = t
           /\ Here(t).host = "caller" /\ There(t).host = "callee"
           /\ Here(t) # Nowhere /\ There(t) # Nowhere
BY DEF Transport, TransportOf, Here, There, ContactUri, Nowhere

Credentials == {"none", "Authorization", "Proxy-Authorization"}

\* The INVITE of an attempt, written out.
Invitation(a, t, credentials) ==
    [method |-> "INVITE", uri |-> There(t),
     via |-> [transport |-> t, host |-> "caller", branch |-> a],
     from |-> "caller", to |-> "none", cseq |-> a, contact |-> Here(t),
     recorded |-> <<>>, routes |-> <<>>, credentials |-> credentials]

LEMMA RetriedIs ==
    ASSUME NEW t
    PROVE  Retried(Invitation(1, t, "none"), 2) = Invitation(2, t, "none")
<1> DEFINE way(branch) == [transport |-> t, host |-> "caller", branch |-> branch]
<1>1. Invitation(1, t, "none").via = way(1) /\ Invitation(1, t, "none").cseq = 1
  BY DEF Invitation
<1>2. [way(1) EXCEPT !.branch = 2] = way(2)
  OBVIOUS
<1>3. ASSUME NEW r, r = Retried(Invitation(1, t, "none"), 2)
      PROVE  r = Invitation(2, t, "none")
  <2>1. DOMAIN r = {"method", "uri", "via", "from", "to", "cseq", "contact", "recorded",
                    "routes", "credentials"}
    BY <1>3 DEF Retried, Invitation
  <2>2. r.via = way(2) /\ r.cseq = 2
    BY <1>1, <1>2, <1>3 DEF Retried, Invitation
  <2>3. /\ r.method = "INVITE" /\ r.uri = There(t) /\ r.from = "caller" /\ r.to = "none"
        /\ r.contact = Here(t) /\ r.recorded = <<>> /\ r.routes = <<>>
        /\ r.credentials = "none"
    BY <1>3 DEF Retried, Invitation
  <2>4. r = [x \in DOMAIN r |-> r[x]]
    BY <1>3 DEF Retried, Invitation
  <2>5. r = [method |-> r.method, uri |-> r.uri, via |-> r.via, from |-> r.from,
             to |-> r.to, cseq |-> r.cseq, contact |-> r.contact,
             recorded |-> r.recorded, routes |-> r.routes, credentials |-> r.credentials]
    BY <2>1, <2>4
  <2> QED BY <2>2, <2>3, <2>5 DEF Invitation
<1> QED BY <1>3

LEMMA Invitations ==
    ASSUME NEW t \in Transport, NEW a \in Attempt, NEW invite \in Invites(a, t)
    PROVE  \E credentials \in Credentials : invite = Invitation(a, t, credentials)
<1>1. First(t) = Invitation(1, t, "none")
  BY Transports DEF First, BuildInvite, Plain, Via, Invitation
<1>2. CASE a = 1
  <2>1. invite = First(t) /\ "none" \in Credentials
    BY <1>2 DEF Invites, Credentials
  <2> QED BY <1>1, <1>2, <2>1
<1>3. CASE a = 2
  <2>1. PICK code \in {401, 407} :
           invite \in BuildRetry(First(t), code, {"WWW-Authenticate", "Proxy-Authenticate"}, 2)
    BY <1>3 DEF Invites
  <2>2. \E h \in Credentials : invite = [Retried(First(t), 2) EXCEPT !.credentials = h]
    <3>1. Answering(code, {"WWW-Authenticate", "Proxy-Authenticate"}) \in Credentials
      BY <2>1 DEF Answering, Credentials
    <3> QED BY <2>1, <3>1 DEF BuildRetry
  <2>3. Retried(First(t), 2) = Invitation(2, t, "none")
    BY <1>1, RetriedIs
  <2>4. PICK h \in Credentials : invite = [Retried(First(t), 2) EXCEPT !.credentials = h]
    BY <2>2
  <2>5. [Invitation(2, t, "none") EXCEPT !.credentials = h] = Invitation(2, t, h)
    BY DEF Invitation
  <2> QED BY <1>3, <2>3, <2>4, <2>5
<1> QED BY <1>2, <1>3 DEF Attempt

\* A transaction is found by the branch, which is the attempt's.
LEMMA Keys ==
    ASSUME NEW t \in Transport, NEW a \in Attempt, NEW invite \in Invites(a, t)
    PROVE  Key(invite) = [branch |-> a, host |-> "caller", method |-> "INVITE"]
<1>1. PICK credentials \in Credentials : invite = Invitation(a, t, credentials)
  BY Invitations
<1> QED BY <1>1 DEF Key, Normalized, Invitation

LEMMA OwnKey ==
    ASSUME NEW t \in Transport, NEW a \in Attempt, NEW b \in Attempt,
           NEW other \in Invites(b, t)
    PROVE  Key(other) = [branch |-> a, host |-> "caller", method |-> "INVITE"] <=> a = b
<1>1. Key(other) = [branch |-> b, host |-> "caller", method |-> "INVITE"]
  BY Keys
<1>2. [branch |-> b, host |-> "caller", method |-> "INVITE"].branch = b
      /\ [branch |-> a, host |-> "caller", method |-> "INVITE"].branch = a
  OBVIOUS
<1> QED BY <1>1, <1>2

LEMMA CancelKey ==
    ASSUME NEW t \in Transport, NEW a \in Attempt, NEW invite \in Invites(a, t)
    PROVE  InviteTarget(Key(BuildCancel(invite)))
              = [branch |-> a, host |-> "caller", method |-> "INVITE"]
<1>1. PICK credentials \in Credentials : invite = Invitation(a, t, credentials)
  BY Invitations
<1>2. BuildCancel(invite).via = invite.via /\ BuildCancel(invite).method = "CANCEL"
  BY DEF BuildCancel, Plain
<1>3. Key(BuildCancel(invite)) = [branch |-> a, host |-> "caller", method |-> "CANCEL"]
  BY <1>1, <1>2 DEF Key, Normalized, Invitation
<1> QED BY <1>3 DEF InviteTarget

LEMMA AckKey ==
    ASSUME NEW t \in Transport, NEW a \in Attempt, NEW invite \in Invites(a, t), NEW response
    PROVE  Key(BuildNon2xxAck(invite, response))
              = [branch |-> a, host |-> "caller", method |-> "INVITE"]
<1>1. PICK credentials \in Credentials : invite = Invitation(a, t, credentials)
  BY Invitations
<1> QED BY <1>1 DEF Key, Normalized, Invitation, BuildNon2xxAck

\* The two dialogs of a 2xx, written out.
CallerDialog(a, t, path) ==
    [local |-> "caller", remote |-> "callee", contact |-> Here(t),
     target |-> There(t), routes |-> path, seq |-> a]

CalleeDialog(t, path) ==
    [local |-> "callee", remote |-> "caller", contact |-> There(t),
     target |-> Here(t), routes |-> Reverse(path), seq |-> 0]

LEMMA Dialogs ==
    ASSUME NEW t \in Transport, NEW a \in Attempt, NEW invite \in Invites(a, t),
           NEW path \in Paths
    PROVE  /\ Uac(invite, Answer(invite, path, t), Here(t)) = {CallerDialog(a, t, path)}
           /\ Uas(Arrived(invite, path), "callee", There(t)) = {CalleeDialog(t, path)}
<1>1. PICK credentials \in Credentials : invite = Invitation(a, t, credentials)
  BY Invitations
<1>2. Reverse(Reverse(path)) = path
  BY Back, PathsAreSequences
<1>3. Here(t) # Nowhere /\ There(t) # Nowhere
  BY Transports
<1>4. /\ Arrived(invite, path).recorded = Reverse(path)
      /\ Arrived(invite, path).contact = Here(t)
      /\ Arrived(invite, path).from = "caller" /\ Arrived(invite, path).to = "none"
  BY <1>1 DEF Arrived, Invitation
<1>5. /\ Answer(invite, path, t).to = "callee"
      /\ Answer(invite, path, t).contact = There(t)
      /\ Answer(invite, path, t).recorded = Reverse(path)
  BY <1>4 DEF Answer, BuildResponse, Echoed
<1>6. invite.from = "caller" /\ invite.cseq = a
  BY <1>1 DEF Invitation
<1>7. Uac(invite, Answer(invite, path, t), Here(t)) = {CallerDialog(a, t, path)}
  BY <1>2, <1>3, <1>5, <1>6 DEF Uac, Oriented, CallerDialog
<1>8. Uas(Arrived(invite, path), "callee", There(t)) = {CalleeDialog(t, path)}
  BY <1>3, <1>4 DEF Uas, CalleeDialog
<1> QED BY <1>7, <1>8

LEMMA ComposeFields ==
    ASSUME NEW d, NEW method, NEW seq, NEW branch
    PROVE  LET request == Compose(d, method, seq, branch)
           IN  /\ request.method = method /\ request.uri = d.target
               /\ request.via = Via(d.contact, branch)
               /\ request.from = d.local /\ request.to = d.remote
               /\ request.cseq = seq /\ request.routes = d.routes
BY DEF Compose, Plain

LEMMA Meeting ==
    ASSUME NEW t \in Transport, NEW path,
           NEW d, NEW e, NEW contact, NEW method, NEW seq, NEW branch,
           d.target = contact, d.routes = path,
           TransportOf(contact) = t, TransportOf(d.contact) = t,
           e.local = d.remote, e.remote = d.local
    PROVE  Meets(Compose(d, method, seq, branch), path, contact, e, t)
<1> DEFINE request == Compose(d, method, seq, branch)
<1>1. /\ request.uri = contact /\ request.routes = path
      /\ request.via = Via(d.contact, branch)
      /\ request.from = d.local /\ request.to = d.remote
  BY ComposeFields
<1>2. request.via.transport = t
  BY <1>1 DEF Via
<1> HIDE DEF request
<1>3. FromRequest(request) = Id(e)
  BY <1>1 DEF FromRequest, Id
<1>4. Meets(request, path, contact, e, t)
  BY <1>1, <1>2, <1>3 DEF Meets, Way
<1> QED BY <1>4 DEF request

\* Whatever proxies record themselves, and for any of the transports: the
\* signals of a dial meet what they are meant for.
THEOREM SignalsAlwaysMeet == Spec => []SignalsMeet
<1>1. SignalsMeet
  <2> SUFFICES ASSUME NEW t \in Transport, NEW path \in Paths, NEW a \in Attempt,
                      NEW invite \in Invites(a, t)
               PROVE
        LET MineOnly(key) == \A b \in Attempt : \A other \in Invites(b, t) :
                                Key(other) = key <=> a = b
            answer == Answer(invite, path, t)
            callee == CHOOSE d \in Uas(Arrived(invite, path), "callee", There(t)) : TRUE
            bye == NewRequest(callee, "BYE", 5)
        IN  /\ MineOnly(InviteTarget(Key(BuildCancel(invite))))
            /\ MineOnly(Key(BuildNon2xxAck(invite, answer)))
            /\ \E caller \in Uac(invite, answer, Here(t)) :
                    LET confirm == Ack2xx(caller, a, 3)
                        hangup  == NewRequest(caller, "BYE", 4)
                    IN  /\ Meets(confirm, path, There(t), callee, t)
                        /\ confirm.cseq = invite.cseq
                        /\ \A b \in Attempt : \A other \in Invites(b, t) :
                              Key(other) # Key(confirm)
                        /\ Meets(hangup, path, There(t), callee, t)
                        /\ hangup.cseq > invite.cseq
                        /\ Meets(bye, Reverse(path), Here(t), caller, t)
    BY DEF SignalsMeet
  <2> DEFINE caller == CallerDialog(a, t, path)
             callee == CalleeDialog(t, path)
             confirm == Ack2xx(caller, a, 3)
             hangup == NewRequest(caller, "BYE", 4)
             bye == NewRequest(callee, "BYE", 5)
  <2>1. (CHOOSE d \in Uas(Arrived(invite, path), "callee", There(t)) : TRUE) = callee
    BY Dialogs
  <2>2. invite.cseq = a /\ a \in Nat
    BY Invitations DEF Invitation, Attempt
  <2>3. /\ caller.target = There(t) /\ caller.routes = path /\ caller.contact = Here(t)
        /\ caller.local = "caller" /\ caller.remote = "callee" /\ caller.seq = a
    BY DEF CallerDialog
  <2>4. /\ callee.target = Here(t) /\ callee.routes = Reverse(path) /\ callee.contact = There(t)
        /\ callee.local = "callee" /\ callee.remote = "caller"
    BY DEF CalleeDialog
  <2> HIDE DEF caller, callee
  <2>5. Meets(confirm, path, There(t), callee, t) /\ confirm.cseq = a
    BY <2>3, <2>4, Meeting, Transports, ComposeFields DEF Ack2xx
  <2>6. Meets(hangup, path, There(t), callee, t) /\ hangup.cseq = a + 1
    BY <2>3, <2>4, Meeting, Transports, ComposeFields DEF NewRequest
  <2>7. Meets(bye, Reverse(path), Here(t), caller, t)
    BY <2>3, <2>4, Meeting, Transports DEF NewRequest
  <2>8. ASSUME NEW b \in Attempt, NEW other \in Invites(b, t) PROVE Key(other) # Key(confirm)
    <3>1. confirm.via = Via(Here(t), 3)
      BY <2>3, ComposeFields DEF Ack2xx
    <3>2. Key(confirm).branch = 3
      BY <3>1 DEF Key, Via
    <3>3. Key(other).branch = b
      BY Keys
    <3> QED BY <3>2, <3>3 DEF Attempt
  <2>9. \A b \in Attempt : \A other \in Invites(b, t) :
           /\ Key(other) = InviteTarget(Key(BuildCancel(invite))) <=> a = b
           /\ Key(other) = Key(BuildNon2xxAck(invite, Answer(invite, path, t))) <=> a = b
    BY OwnKey, CancelKey, AckKey
  <2>10. Uac(invite, Answer(invite, path, t), Here(t)) = {caller}
    BY Dialogs DEF caller
  <2>11. hangup.cseq > invite.cseq
    BY <2>2, <2>6
  <2> HIDE DEF confirm, hangup, bye
  <2>12. bye = NewRequest(CHOOSE d \in Uas(Arrived(invite, path), "callee", There(t)) : TRUE,
                         "BYE", 5)
    BY <2>1 DEF bye
  <2> QED
    BY <2>1, <2>2, <2>5, <2>6, <2>7, <2>8, <2>9, <2>10, <2>11, <2>12 DEF confirm, hangup, bye
<1> QED BY <1>1, PTL DEF Spec

=============================================================================
