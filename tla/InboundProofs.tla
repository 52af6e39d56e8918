---------------------------- MODULE InboundProofs ----------------------------
(***************************************************************************)
(* Proofs about InboundCall, for any calls and any capacity of the channel *)
(* of new calls: the peer hears one final response to each INVITE          *)
(* (OneFinal), and a token that fires tells the truth (CancelledTold).     *)
(*                                                                         *)
(* Neither is inductive.  Both rest on an INVITE passing once: a call is   *)
(* Fresh until its INVITE arrives, nothing then knows of it, and from then *)
(* on its transaction proceeds or has been answered.                       *)
(***************************************************************************)
EXTENDS InboundCall, SequenceTheorems, TLAPS

-----------------------------------------------------------------------------
(* Queues. *)

\* x is in the sequence at most once.
Once(s, x) == \A i, j \in DOMAIN s : s[i] = x /\ s[j] = x => i = j

LEMMA Put ==
    ASSUME NEW S, NEW s \in Seq(S), NEW x \in S
    PROVE  /\ Append(s, x) \in Seq(S)
           /\ Range(Append(s, x)) = Range(s) \cup {x}
           /\ \A y : Once(s, y) /\ (x # y \/ y \notin Range(s)) => Once(Append(s, x), y)
<1>1. /\ Append(s, x) \in Seq(S) /\ Len(Append(s, x)) = Len(s) + 1
      /\ \A i \in 1 .. Len(s) : Append(s, x)[i] = s[i]
      /\ Append(s, x)[Len(s) + 1] = x
  BY AppendProperties
<1>2. /\ DOMAIN s = 1 .. Len(s) /\ Len(s) \in Nat
      /\ DOMAIN Append(s, x) = 1 .. Len(s) + 1
  BY <1>1
<1>3. \A i \in 1 .. Len(s) + 1 : i \in 1 .. Len(s) \/ i = Len(s) + 1
  BY <1>2
<1>4. Range(Append(s, x)) = Range(s) \cup {x}
  <2>1. Range(Append(s, x)) \subseteq Range(s) \cup {x}
    BY <1>1, <1>2, <1>3 DEF Range
  <2>2. Range(s) \subseteq Range(Append(s, x))
    BY <1>1, <1>2 DEF Range
  <2>3. x \in Range(Append(s, x))
    BY <1>1, <1>2 DEF Range
  <2> QED BY <2>1, <2>2, <2>3
<1>5. ASSUME NEW y, Once(s, y), x # y \/ y \notin Range(s)
      PROVE  Once(Append(s, x), y)
  <2> SUFFICES ASSUME NEW i \in 1 .. Len(s) + 1, NEW j \in 1 .. Len(s) + 1,
                      Append(s, x)[i] = y, Append(s, x)[j] = y
               PROVE  i = j
    BY <1>2 DEF Once
  <2>1. CASE x # y
    <3>1. i \in 1 .. Len(s) /\ j \in 1 .. Len(s)
      BY <2>1, <1>1, <1>3
    <3> QED BY <3>1, <1>1, <1>2, <1>5 DEF Once
  <2>2. CASE y \notin Range(s)
    <3>1. i = Len(s) + 1 /\ j = Len(s) + 1
      BY <2>2, <1>1, <1>2, <1>3 DEF Range
    <3> QED BY <3>1
  <2> QED BY <1>5, <2>1, <2>2
<1> QED BY <1>1, <1>4, <1>5

LEMMA Got ==
    ASSUME NEW S, NEW s \in Seq(S), s # <<>>
    PROVE  /\ Head(s) \in S /\ Tail(s) \in Seq(S)
           /\ Len(Tail(s)) = Len(s) - 1
           /\ Head(s) \in Range(s)
           /\ Range(s) = Range(Tail(s)) \cup {Head(s)}
           /\ \A y : Once(s, y) => Once(Tail(s), y)
           /\ Once(s, Head(s)) => Head(s) \notin Range(Tail(s))
<1>1. /\ Head(s) \in S /\ Tail(s) \in Seq(S) /\ Len(Tail(s)) = Len(s) - 1
      /\ \A i \in 1 .. Len(Tail(s)) : Tail(s)[i] = s[i + 1]
      /\ Head(s) = s[1] /\ Len(s) \in Nat \ {0}
  BY HeadTailProperties, EmptySeq
<1>2. DOMAIN s = 1 .. Len(s) /\ DOMAIN Tail(s) = 1 .. Len(s) - 1
  BY <1>1
<1>3. \A i \in 1 .. Len(s) - 1 : i + 1 \in 1 .. Len(s) /\ Tail(s)[i] = s[i + 1] /\ i + 1 # 1
  BY <1>1
<1>4. \A i \in 1 .. Len(s) : i = 1 \/ \E j \in 1 .. Len(s) - 1 : i = j + 1
  <2> SUFFICES ASSUME NEW i \in 1 .. Len(s), i # 1
               PROVE  \E j \in 1 .. Len(s) - 1 : i = j + 1
    OBVIOUS
  <2>1. i - 1 \in 1 .. Len(s) - 1 /\ i = (i - 1) + 1
    BY <1>1
  <2> QED BY <2>1
<1>5. Head(s) \in Range(s)
  BY <1>1, <1>2 DEF Range
<1>6. Range(s) = Range(Tail(s)) \cup {Head(s)}
  <2>1. Range(Tail(s)) \subseteq Range(s)
    BY <1>2, <1>3 DEF Range
  <2>2. ASSUME NEW i \in 1 .. Len(s) PROVE s[i] \in Range(Tail(s)) \cup {Head(s)}
    <3>1. CASE i = 1
      BY <3>1, <1>1
    <3>2. CASE \E j \in 1 .. Len(s) - 1 : i = j + 1
      BY <3>2, <1>2, <1>3 DEF Range
    <3> QED BY <3>1, <3>2, <1>4
  <2>3. Range(s) \subseteq Range(Tail(s)) \cup {Head(s)}
    BY <2>2, <1>2 DEF Range
  <2> QED BY <2>1, <2>3, <1>5
<1>7. ASSUME NEW y, Once(s, y) PROVE Once(Tail(s), y)
  <2> SUFFICES ASSUME NEW i \in 1 .. Len(s) - 1, NEW j \in 1 .. Len(s) - 1,
                      Tail(s)[i] = y, Tail(s)[j] = y
               PROVE  i = j
    BY <1>2 DEF Once
  <2>1. i + 1 = j + 1
    BY <1>2, <1>3, <1>7 DEF Once
  <2> QED BY <2>1
<1>8. ASSUME Once(s, Head(s)), Head(s) \in Range(Tail(s)) PROVE FALSE
  <2>1. PICK i \in 1 .. Len(s) - 1 : Tail(s)[i] = Head(s)
    BY <1>2, <1>8 DEF Range
  <2>2. s[i + 1] = s[1] /\ i + 1 # 1 /\ i + 1 \in DOMAIN s /\ 1 \in DOMAIN s
    BY <2>1, <1>1, <1>2, <1>3
  <2> QED BY <2>2, <1>1, <1>8 DEF Once
<1> QED BY <1>1, <1>5, <1>6, <1>7, <1>8

-----------------------------------------------------------------------------
(* Types. *)

LEMMA AnswerTyped ==
    ASSUME TypeOK, NEW c \in Call, NEW status \in Provisional \cup Final,
           Answer(c, status)
    PROVE  /\ commands' \in Seq(Command)
           /\ Range(commands') = Range(commands) \cup {[call |-> c, status |-> status]}
<1>1. commands \in Seq(Command) /\ [call |-> c, status |-> status] \in Command
  BY DEF TypeOK, Command
<1> QED BY <1>1, Put DEF Answer

LEMMA BecomesTyped ==
    ASSUME TypeOK, NEW c \in Call, NEW stage \in App, Becomes(c, stage)
    PROVE  /\ app' \in [Call -> App] /\ app'[c] = stage
           /\ \A d \in Call : d # c => app'[d] = app[d]
BY DEF TypeOK, Becomes

LEMMA RouterTyped ==
    /\ Asleep \in Router
    /\ \A r \in Router : r.step # "idle" =>
          /\ r.call \in Call /\ r # Asleep
          /\ r = [step |-> r.step, call |-> r.call]
    /\ \A c \in Call, x \in {"queueing", "removing", "answering", "notifying", "ending"} :
          [step |-> x, call |-> c] \in Router
BY DEF Router, Asleep

LEMMA TypeStep == TypeOK /\ [Next]_vars => TypeOK'
<1> SUFFICES ASSUME TypeOK, [Next]_vars PROVE TypeOK'
  OBVIOUS
<1> USE DEF far, engine, tokens, ours
<1>1. ASSUME NEW c \in Call, Place(c) PROVE TypeOK'
  BY <1>1 DEF Place, Tell, Ask, TypeOK, Peer, Request
<1>2. ASSUME NEW c \in Call, NEW status \in wire[c], Hear(c, status) PROVE TypeOK'
  BY <1>2 DEF Hear, Tell, TypeOK, Peer
<1>3. ASSUME NEW c \in Call, GiveUp(c) PROVE TypeOK'
  BY <1>3 DEF GiveUp, Tell, Ask, TypeOK, Peer, Request
<1>4. ASSUME NEW c \in Call, HangUp(c) PROVE TypeOK'
  BY <1>4 DEF HangUp, Tell, Ask, TypeOK, Peer, Request
<1>5. ASSUME NEW m \in net, Arrive(m) PROVE TypeOK'
  <2>1. m \in Request /\ m.call \in Call /\ inbox' \in Seq(Request)
    BY <1>5, Put DEF Arrive, TypeOK, Request
  <2> QED BY <1>5, <2>1 DEF Arrive, TypeOK
<1>6. CASE Execute
  <2>0. /\ commands \in Seq(Command) /\ commands # <<>>
        /\ commands' = Tail(commands)
    BY <1>6 DEF Execute, TypeOK
  <2>1. /\ Head(commands) \in Command /\ commands' \in Seq(Command)
        /\ Head(commands).call \in Call
        /\ Head(commands).status \in Provisional \cup Final
    <3>1. Head(commands) \in Command /\ Tail(commands) \in Seq(Command)
      BY <2>0, Got
    <3> QED BY <2>0, <3>1 DEF Command
  <2>2. wire' \in [Call -> SUBSET (Provisional \cup Final)] /\ proceeding' \subseteq Call
    BY <1>6, <2>1 DEF Execute, TypeOK
  <2> QED BY <1>6, <2>1, <2>2 DEF Execute, TypeOK
<1>7. CASE Take
  <2>0. inbox \in Seq(Request) /\ inbox # <<>> /\ inbox' = Tail(inbox)
    BY <1>7 DEF Take, TypeOK
  <2>1. /\ Head(inbox) \in Request /\ inbox' \in Seq(Request)
        /\ Head(inbox).call \in Call
        /\ Head(inbox).method \in {"INVITE", "CANCEL", "BYE"}
    <3>1. Head(inbox) \in Request /\ Tail(inbox) \in Seq(Request)
      BY <2>0, Got
    <3> QED BY <2>0, <3>1 DEF Request
  <2>2. router' \in Router
    BY <1>7, <2>1 DEF Take, Router
  <2>3. commands' \in Seq(Command)
    <3>1. CASE Head(inbox).method = "INVITE"
      BY <1>7, <2>1, <3>1, AnswerTyped DEF Take, Provisional
    <3>2. CASE Head(inbox).method # "INVITE"
      BY <1>7, <3>2 DEF Take, TypeOK
    <3> QED BY <3>1, <3>2
  <2> QED BY <1>7, <2>1, <2>2, <2>3 DEF Take, TypeOK
<1>8. CASE QueueCall
  <2>1. router.call \in Call
    BY <1>8, RouterTyped DEF QueueCall, TypeOK
  <2>2. calls' \in Seq(Call) /\ Len(calls') <= Room
    BY <1>8, <2>1, AppendProperties, InboundAssumption
       DEF QueueCall, HasRoom, TypeOK, InboundAssumption
  <2> QED BY <1>8, <2>2, RouterTyped DEF QueueCall, Idle, TypeOK
<1>9. CASE RemovePending
  <2>1. router' \in Router
    <3>1. router' = Asleep \/ router' = [router EXCEPT !.step = "answering"]
      BY <1>9 DEF RemovePending, Idle, Turn
    <3>2. router.step # "idle" /\ router \in Router
      BY <1>9 DEF RemovePending, TypeOK
    <3>3. /\ router.call \in Call
          /\ router = [step |-> router.step, call |-> router.call]
      BY <3>2, RouterTyped
    <3>4. [router EXCEPT !.step = "answering"] = [step |-> "answering", call |-> router.call]
      BY <3>3
    <3> QED BY <3>1, <3>3, <3>4, RouterTyped
  <2> QED BY <1>9, <2>1 DEF RemovePending, TypeOK
<1>10. CASE AnswerCancelled
  <2>1. router.call \in Call
    BY <1>10, RouterTyped DEF AnswerCancelled, TypeOK
  <2>2. router' \in Router
    BY <1>10, RouterTyped DEF AnswerCancelled, Turn, TypeOK, Router, Asleep
  <2>3. commands' \in Seq(Command)
    BY <1>10, <2>1, AnswerTyped DEF AnswerCancelled, Final
  <2> QED BY <1>10, <2>2, <2>3 DEF AnswerCancelled, TypeOK
<1>11. CASE NotifyCancelled \/ EndCall
  <2>1. router.call \in Call
    BY <1>11, RouterTyped DEF NotifyCancelled, EndCall, TypeOK
  <2> QED BY <1>11, <2>1, RouterTyped
          DEF NotifyCancelled, EndCall, Notified, Idle, TypeOK
<1>12. CASE NextIncomingCall
  <2>1. /\ Head(calls) \in Call /\ calls' \in Seq(Call) /\ Len(calls') <= Room
    BY <1>12, Got, InboundAssumption DEF NextIncomingCall, TypeOK, InboundAssumption
  <2>2. app' \in [Call -> App]
    BY <1>12, <2>1, BecomesTyped DEF NextIncomingCall, App
  <2>3. pending' \subseteq Call
    BY <1>12, <2>1 DEF NextIncomingCall, TypeOK
  <2> QED BY <1>12, <2>1, <2>2, <2>3 DEF NextIncomingCall, TypeOK
<1>13. ASSUME NEW c \in Call, Ring(c) PROVE TypeOK'
  <2>1. commands' \in Seq(Command)
    BY <1>13, AnswerTyped DEF Ring, Provisional
  <2> QED BY <1>13, <2>1 DEF Ring, TypeOK
<1>14. ASSUME NEW c \in Call,
              Accept(c) \/ AcceptFails(c) \/ Establish(c) \/ EstablishFails(c)
                \/ Reject(c) \/ DropIncoming(c) \/ DropCall(c)
       PROVE  TypeOK'
  <2>1. app' \in [Call -> App]
    BY <1>14, BecomesTyped
       DEF Accept, AcceptFails, Establish, EstablishFails, Reject, DropIncoming,
           DropCall, Decide, App
  <2> QED BY <1>14, <2>1
          DEF Accept, AcceptFails, Establish, EstablishFails, Reject, DropIncoming,
              DropCall, Decide, TypeOK
<1>15. ASSUME NEW c \in Call, AnswerOffer(c) \/ Refuse(c) PROVE TypeOK'
  <2>1. app' \in [Call -> App]
    BY <1>15, BecomesTyped DEF AnswerOffer, Refuse, App
  <2>2. commands' \in Seq(Command)
    BY <1>15, AnswerTyped DEF AnswerOffer, Refuse, Final, TypeOK
  <2> QED BY <1>15, <2>1, <2>2 DEF AnswerOffer, Refuse, TypeOK
<1>16. CASE UNCHANGED vars
  BY <1>16 DEF vars, TypeOK
<1> QED BY <1>1, <1>2, <1>3, <1>4, <1>5, <1>6, <1>7, <1>8, <1>9, <1>10, <1>11, <1>12,
           <1>13, <1>14, <1>15, <1>16 DEF Next, Route

\* The registries, the channels, the calls and the peers' views keep their
\* types, for any calls and any capacity.
THEOREM InboundTypes == Spec => []TypeOK
<1>1. Init => TypeOK
  BY InboundAssumption
     DEF Init, TypeOK, Peer, App, Router, Asleep, InboundAssumption
<1> QED BY <1>1, TypeStep, PTL DEF Spec

-----------------------------------------------------------------------------
(* An INVITE is new once. *)

Invite(c) == [method |-> "INVITE", call |-> c]

\* The call's INVITE has not arrived.
Fresh(c) == peer[c] = "idle" \/ Invite(c) \in net

\* Nothing but that INVITE speaks of the call.
Unknown(c) ==
    /\ \A m \in net : m.call = c => m = Invite(c)
    /\ \A m \in Range(inbox) : m.call # c
    /\ router.step # "idle" => router.call # c
    /\ c \notin Range(calls)
    /\ \A x \in Range(commands) : x.call # c
    /\ c \notin proceeding /\ wire[c] = {}
    /\ app[c] = "unseen"
    /\ c \notin pending \cup cancelled

FreshIsUnknown ==
    \A c \in Call :
        /\ peer[c] = "idle" => Invite(c) \notin net
        /\ Fresh(c) => peer[c] \in {"idle", "calling"} /\ Unknown(c)

\* What the peer does to one call leaves the others' freshness alone.
LEMMA FarStep ==
    ASSUME TypeOK, FreshIsUnknown,
           \/ \E c \in Call : Place(c) \/ GiveUp(c) \/ HangUp(c)
           \/ \E c \in Call : \E status \in wire[c] : Hear(c, status)
    PROVE  /\ \A c \in Call : Fresh(c)' <=> Fresh(c)
           /\ FreshIsUnknown'
           /\ UNCHANGED ours
<1>1. UNCHANGED ours
  BY DEF Place, GiveUp, HangUp, Hear
<1>2. ASSUME NEW c \in Call, Place(c) PROVE FreshIsUnknown' /\ \A d \in Call : Fresh(d)' <=> Fresh(d)
  <2>1. /\ peer[c] = "idle" /\ peer' = [peer EXCEPT ![c] = "calling"]
        /\ net' = net \cup {Invite(c)}
    BY <1>2 DEF Place, Tell, Ask, Invite
  <2>2. /\ peer'[c] = "calling"
        /\ \A d \in Call : d # c => peer'[d] = peer[d] /\ Invite(d) # Invite(c)
    BY <2>1 DEF TypeOK, Invite
  <2>3. \A d \in Call : Fresh(d)' <=> Fresh(d)
    BY <2>1, <2>2 DEF Fresh
  <2>4. ASSUME NEW d \in Call, Unknown(d) PROVE Unknown(d)'
    BY <2>1, <2>4, <1>1 DEF Unknown, Invite, ours, engine, tokens
  <2> QED BY <2>1, <2>2, <2>3, <2>4 DEF FreshIsUnknown
<1>3. ASSUME NEW c \in Call, NEW status \in wire[c], Hear(c, status)
      PROVE  FreshIsUnknown' /\ \A d \in Call : Fresh(d)' <=> Fresh(d)
  <2>1. /\ peer[c] # "idle" /\ net' = net
        /\ \E state \in Peer \ {"idle"} : peer' = [peer EXCEPT ![c] = state]
    BY <1>3 DEF Hear, Tell, Peer
  <2>2. /\ peer'[c] # "idle"
        /\ \A d \in Call : d # c => peer'[d] = peer[d]
    BY <2>1 DEF TypeOK
  <2>3. \A d \in Call : Fresh(d)' <=> Fresh(d)
    BY <2>1, <2>2 DEF Fresh
  <2>4. ~ Fresh(c)
    BY DEF FreshIsUnknown, Unknown
  <2>5. ASSUME NEW d \in Call, Unknown(d) PROVE Unknown(d)'
    BY <2>1, <2>5, <1>1 DEF Unknown, ours, engine, tokens
  <2> QED BY <2>1, <2>2, <2>3, <2>4, <2>5 DEF FreshIsUnknown
<1>4. ASSUME NEW c \in Call, GiveUp(c) \/ HangUp(c)
      PROVE  FreshIsUnknown' /\ \A d \in Call : Fresh(d)' <=> Fresh(d)
  <2>1. /\ peer[c] \notin {"idle", "calling"}
        /\ \E state \in Peer \ {"idle"} : peer' = [peer EXCEPT ![c] = state]
        /\ \E method \in {"CANCEL", "BYE"} : net' = net \cup {[method |-> method, call |-> c]}
    BY <1>4 DEF GiveUp, HangUp, Tell, Ask, Peer
  <2>2. /\ peer'[c] # "idle"
        /\ \A d \in Call : d # c => peer'[d] = peer[d]
        /\ \A d \in Call : Invite(d) \in net' <=> Invite(d) \in net
    BY <2>1 DEF TypeOK, Invite
  <2>3. \A d \in Call : Fresh(d)' <=> Fresh(d)
    BY <2>1, <2>2 DEF Fresh
  <2>4. ~ Fresh(c)
    BY <2>1 DEF FreshIsUnknown
  <2>5. ASSUME NEW d \in Call, Unknown(d), d # c PROVE Unknown(d)'
    BY <2>1, <2>5, <1>1 DEF Unknown, ours, engine, tokens
  <2> QED BY <2>1, <2>2, <2>3, <2>4, <2>5 DEF FreshIsUnknown
<1> QED BY <1>1, <1>2, <1>3, <1>4

\* Whatever leaves the peer alone, and touches only what is known, keeps the
\* unknown unknown.
LEMMA NearStep ==
    ASSUME FreshIsUnknown, UNCHANGED far,
           \A c \in Call : Unknown(c) => Unknown(c)'
    PROVE  FreshIsUnknown' /\ \A c \in Call : Fresh(c)' <=> Fresh(c)
<1>1. peer' = peer /\ net' = net
  BY DEF far
<1>2. \A c \in Call : Fresh(c)' <=> Fresh(c)
  BY <1>1 DEF Fresh
<1> QED BY <1>1, <1>2 DEF FreshIsUnknown

LEMMA ArriveStep ==
    ASSUME TypeOK, FreshIsUnknown, NEW m \in net, Arrive(m)
    PROVE  /\ FreshIsUnknown'
           /\ \A c \in Call : Fresh(c)' <=> Fresh(c) /\ m # Invite(c)
<1>1. /\ m \in Request /\ inbox \in Seq(Request)
      /\ m = [method |-> m.method, call |-> m.call] /\ m.call \in Call
  BY DEF TypeOK, Request
<1>2. /\ peer' = peer /\ net' = net \ {m} /\ inbox' = Append(inbox, m)
      /\ m.method = "INVITE" => proceeding' = proceeding \cup {m.call}
      /\ m.method # "INVITE" => proceeding' = proceeding
      /\ UNCHANGED <<router, calls, commands, wire, app, pending, cancelled>>
  BY DEF Arrive, tokens
<1>3. Range(inbox') = Range(inbox) \cup {m}
  BY <1>1, <1>2, Put
<1>4. \A c \in Call : Fresh(c)' <=> Fresh(c) /\ m # Invite(c)
  BY <1>2 DEF Fresh, FreshIsUnknown
<1>5. ASSUME NEW c \in Call, Fresh(c), m # Invite(c) PROVE Unknown(c)'
  <2>1. Unknown(c) /\ m.call # c
    BY <1>5 DEF FreshIsUnknown, Unknown
  <2> QED BY <2>1, <1>2, <1>3 DEF Unknown
<1> QED BY <1>2, <1>4, <1>5 DEF FreshIsUnknown

\* An application in the middle of something.
Answers(c) == Ring(c) \/ AnswerOffer(c) \/ Refuse(c)

Decides(c) ==
    \/ Accept(c) \/ AcceptFails(c) \/ Establish(c) \/ EstablishFails(c)
    \/ Reject(c) \/ DropIncoming(c) \/ DropCall(c)

Near == Execute \/ Route \/ NextIncomingCall \/ \E c \in Call : Answers(c) \/ Decides(c)

LEMMA StepKinds ==
    ASSUME [Next]_vars
    PROVE  \/ \E c \in Call : Place(c) \/ GiveUp(c) \/ HangUp(c)
           \/ \E c \in Call : \E status \in wire[c] : Hear(c, status)
           \/ \E m \in net : Arrive(m)
           \/ Near
           \/ UNCHANGED vars
BY DEF Next, Near, Answers, Decides

\* What an application's step does to the queue of answers and its own state.
LEMMA AnswersStep ==
    ASSUME TypeOK, NEW c \in Call, Answers(c)
    PROVE  /\ \E status \in {"180", "200", "486", "488"} :
                 \/ UNCHANGED commands
                 \/ /\ commands' \in Seq(Command)
                    /\ Range(commands') = Range(commands) \cup {[call |-> c, status |-> status]}
                    /\ status # "180" => app'[c] \in {"answered", "closed"}
           /\ app[c] \in {"offered", "accepting", "rejecting"}
           /\ app'[c] \in {app[c], "answered", "closed", "abandoned"}
           /\ \A d \in Call : d # c => app'[d] = app[d]
           /\ UNCHANGED <<far, inbox, router, calls, engine, pending, live, tokens>>
<1>1. CASE Ring(c)
  BY <1>1, AnswerTyped DEF Ring, Provisional
<1>2. CASE AnswerOffer(c)
  <2>1. app'[c] \in {"answered", "closed"} /\ \A d \in Call : d # c => app'[d] = app[d]
    BY <1>2, BecomesTyped DEF AnswerOffer, App
  <2>2. \E status \in {"200", "488"} : Answer(c, status)
    BY <1>2 DEF AnswerOffer
  <2> QED BY <1>2, <2>1, <2>2, AnswerTyped DEF AnswerOffer, Final
<1>3. CASE Refuse(c)
  <2>1. app'[c] \in {"closed", "abandoned"} /\ \A d \in Call : d # c => app'[d] = app[d]
    BY <1>3, BecomesTyped DEF Refuse, App
  <2>2. \/ Answer(c, "486") /\ app'[c] = "closed"
        \/ UNCHANGED commands
    BY <1>3, BecomesTyped DEF Refuse, App
  <2> QED BY <1>3, <2>1, <2>2, AnswerTyped DEF Refuse, Final
<1> QED BY <1>1, <1>2, <1>3 DEF Answers

LEMMA DecidesStep ==
    ASSUME TypeOK, NEW c \in Call, Decides(c)
    PROVE  /\ app[c] \in {"offered", "accepting", "answered", "up"}
           /\ app'[c] # "unseen" /\ app'[c] # "offered"
           /\ app'[c] \in {"skipped", "dropped"} => app[c] = "offered"
           /\ \A d \in Call : d # c => app'[d] = app[d]
           /\ pending' \subseteq pending
           /\ UNCHANGED <<far, inbox, router, calls, commands, engine, tokens>>
BY BecomesTyped
   DEF Decides, Decide, Accept, AcceptFails, Establish, EstablishFails, Reject,
       DropIncoming, DropCall, App

LEMMA ExecuteStep ==
    ASSUME TypeOK, Execute
    PROVE  LET x == Head(commands)
           IN  /\ x \in Command /\ x.call \in Call /\ x \in Range(commands)
               /\ Range(commands) = Range(commands') \cup {x}
               /\ x.call \notin proceeding => UNCHANGED engine
               /\ x.call \in proceeding =>
                    /\ wire'[x.call] = wire[x.call] \cup {x.status}
                    /\ \A d \in Call : d # x.call => wire'[d] = wire[d]
                    /\ proceeding' = IF x.status \in Final THEN proceeding \ {x.call}
                                                            ELSE proceeding
               /\ UNCHANGED <<far, inbox, router, calls, app, pending, live, tokens>>
<1>1. /\ commands \in Seq(Command) /\ commands # <<>> /\ commands' = Tail(commands)
      /\ wire \in [Call -> SUBSET (Provisional \cup Final)]
  BY DEF Execute, TypeOK
<1>2. /\ Head(commands) \in Command /\ Head(commands) \in Range(commands)
      /\ Range(commands) = Range(commands') \cup {Head(commands)}
  BY <1>1, Got
<1>3. Head(commands).call \in Call
  BY <1>2 DEF Command
<1> QED BY <1>1, <1>2, <1>3 DEF Execute, Sends

LEMMA TakeStep ==
    ASSUME TypeOK, Take
    PROVE  LET m == Head(inbox)
           IN  /\ m \in Request /\ m.call \in Call /\ m \in Range(inbox)
               /\ Range(inbox) = Range(inbox') \cup {m}
               /\ \A y : Once(inbox, y) => Once(inbox', y)
               /\ Once(inbox, m) => m \notin Range(inbox')
               /\ router = Asleep
               /\ router'.call = m.call
               /\ router' \in Router
               /\ \A c \in Call :
                    /\ router' = [step |-> "queueing", call |-> c] => m = Invite(c)
                    /\ router' # [step |-> "notifying", call |-> c]
               /\ \/ UNCHANGED commands
                  \/ Range(commands') = Range(commands) \cup {[call |-> m.call, status |-> "100"]}
               /\ UNCHANGED <<far, calls, engine, app, pending, live, tokens>>
<1> DEFINE m == Head(inbox)
<1>1. inbox \in Seq(Request) /\ inbox # <<>> /\ inbox' = Tail(inbox) /\ router = Asleep
  BY DEF Take, TypeOK
<1>2. /\ m \in Request /\ m \in Range(inbox)
      /\ Range(inbox) = Range(inbox') \cup {m}
      /\ \A y : Once(inbox, y) => Once(inbox', y)
      /\ Once(inbox, m) => m \notin Range(inbox')
  BY <1>1, Got
<1>3. /\ m.call \in Call /\ m.method \in {"INVITE", "CANCEL", "BYE"}
      /\ m = [method |-> m.method, call |-> m.call]
  BY <1>2 DEF Request
<1>4. \E s \in {"queueing", "removing", "ending"} :
         /\ router' = [step |-> s, call |-> m.call]
         /\ s = "queueing" => m.method = "INVITE"
  BY <1>3 DEF Take
<1>5. /\ router' \in Router /\ router'.call = m.call
      /\ \A c \in Call :
           /\ router' = [step |-> "queueing", call |-> c] => m = Invite(c)
           /\ router' # [step |-> "notifying", call |-> c]
  <2>1. PICK s \in {"queueing", "removing", "ending"} :
           /\ router' = [step |-> s, call |-> m.call]
           /\ s = "queueing" => m.method = "INVITE"
    BY <1>4
  <2>2. router'.step = s /\ router'.call = m.call
    BY <2>1
  <2>3. router' \in Router
    BY <2>1, <1>3 DEF Router
  <2>4. ASSUME NEW c \in Call
        PROVE  /\ router' = [step |-> "queueing", call |-> c] => m = Invite(c)
               /\ router' # [step |-> "notifying", call |-> c]
    BY <2>1, <2>2, <1>3 DEF Invite
  <2> QED BY <2>2, <2>3, <2>4
<1>6. \/ UNCHANGED commands
      \/ Range(commands') = Range(commands) \cup {[call |-> m.call, status |-> "100"]}
  <2>1. CASE m.method = "INVITE"
    BY <2>1, <1>3, AnswerTyped DEF Take, Provisional
  <2>2. CASE m.method # "INVITE"
    BY <2>2 DEF Take
  <2> QED BY <2>1, <2>2
<1> HIDE DEF m
<1>7. UNCHANGED <<far, calls, engine, app, pending, live, tokens>>
  BY DEF Take
<1> QED BY <1>1, <1>2, <1>3, <1>5, <1>6, <1>7 DEF m

LEMMA NextCallStep ==
    ASSUME TypeOK, NextIncomingCall
    PROVE  LET c == Head(calls)
           IN  /\ c \in Call /\ c \in Range(calls)
               /\ Range(calls) = Range(calls') \cup {c}
               /\ Once(calls, c) => c \notin Range(calls')
               /\ \A y : Once(calls, y) => Once(calls', y)
               /\ app'[c] \in {"skipped", "offered"}
               /\ \A d \in Call : d # c => app'[d] = app[d]
               /\ pending' \subseteq pending \cup {c}
               /\ UNCHANGED <<far, inbox, router, commands, engine, live, tokens>>
<1>1. calls \in Seq(Call) /\ calls # <<>> /\ calls' = Tail(calls)
  BY DEF NextIncomingCall, TypeOK
<1>2. /\ Head(calls) \in Call /\ Head(calls) \in Range(calls)
      /\ Range(calls) = Range(calls') \cup {Head(calls)}
      /\ Once(calls, Head(calls)) => Head(calls) \notin Range(calls')
      /\ \A y : Once(calls, y) => Once(calls', y)
  BY <1>1, Got
<1>3. \/ Becomes(Head(calls), "skipped") /\ UNCHANGED pending
      \/ Becomes(Head(calls), "offered") /\ pending' = pending \cup {Head(calls)}
  BY DEF NextIncomingCall
<1>4. UNCHANGED <<far, inbox, router, commands, engine, live, tokens>>
  BY DEF NextIncomingCall
<1> HIDE DEF Once
<1>5. /\ app'[Head(calls)] \in {"skipped", "offered"}
      /\ \A d \in Call : d # Head(calls) => app'[d] = app[d]
  BY <1>2, <1>3, BecomesTyped DEF App
<1> QED BY <1>2, <1>3, <1>4, <1>5

LEMMA QueueCallStep ==
    ASSUME TypeOK, QueueCall
    PROVE  LET c == router.call
           IN  /\ c \in Call /\ router = [step |-> "queueing", call |-> c]
               /\ Range(calls') = Range(calls) \cup {c}
               /\ \A y : Once(calls, y) /\ (c # y \/ y \notin Range(calls)) => Once(calls', y)
               /\ router' = Asleep
               /\ UNCHANGED <<far, inbox, commands, engine, app, pending, live, tokens>>
<1>1. /\ calls \in Seq(Call) /\ calls' = Append(calls, router.call)
      /\ router \in Router /\ router.step = "queueing" /\ router' = Asleep
  BY DEF QueueCall, TypeOK, Idle
<1>2. router.call \in Call /\ router = [step |-> "queueing", call |-> router.call]
  BY <1>1, RouterTyped
<1>3. UNCHANGED <<far, inbox, commands, engine, app, pending, live, tokens>>
  BY DEF QueueCall
<1> QED BY <1>1, <1>2, <1>3, Put

\* A CANCEL or a BYE in the router's hands.
LEMMA ClearStep ==
    ASSUME TypeOK, RemovePending \/ AnswerCancelled \/ NotifyCancelled \/ EndCall
    PROVE  LET c == router.call
           IN  /\ c \in Call /\ router = [step |-> router.step, call |-> c]
               /\ router.step # "idle" /\ router.step # "queueing"
               /\ \/ router' = Asleep
                  \/ router' = [step |-> "answering", call |-> c]
                  \/ /\ router' = [step |-> "notifying", call |-> c]
                     /\ Range(commands') = Range(commands) \cup {[call |-> c, status |-> "487"]}
               /\ \/ UNCHANGED commands
                  \/ Range(commands') = Range(commands) \cup {[call |-> c, status |-> "487"]}
               /\ pending' \subseteq pending
               /\ \/ UNCHANGED cancelled
                  \/ router.step = "notifying" /\ cancelled' = cancelled \cup {c}
               /\ UNCHANGED <<far, inbox, calls, engine, app, live>>
<1>1. router \in Router /\ router.step # "idle" /\ router.step # "queueing"
  BY DEF TypeOK, RemovePending, AnswerCancelled, NotifyCancelled, EndCall
<1>2. router.call \in Call /\ router = [step |-> router.step, call |-> router.call]
  BY <1>1, RouterTyped
<1>3. \A s : [router EXCEPT !.step = s] = [step |-> s, call |-> router.call]
  BY <1>2
<1>4. CASE RemovePending
  BY <1>1, <1>2, <1>3, <1>4 DEF RemovePending, Idle, Turn, tokens
<1>5. CASE AnswerCancelled
  <2>1. Range(commands') = Range(commands) \cup {[call |-> router.call, status |-> "487"]}
    BY <1>2, <1>5, AnswerTyped DEF AnswerCancelled, Final
  <2> QED BY <1>1, <1>2, <1>3, <1>5, <2>1 DEF AnswerCancelled, Turn, tokens
<1>6. CASE NotifyCancelled
  BY <1>1, <1>2, <1>6 DEF NotifyCancelled, Idle, Notified
<1>7. CASE EndCall
  BY <1>1, <1>2, <1>7 DEF EndCall, Idle
<1> QED BY <1>4, <1>5, <1>6, <1>7

LEMMA UnknownStep ==
    ASSUME TypeOK, Near, NEW c \in Call, Unknown(c)
    PROVE  UNCHANGED far /\ Unknown(c)'
<1>1. CASE Execute
  <2>1. Head(commands).call # c
    BY <1>1, ExecuteStep DEF Unknown
  <2>2. /\ UNCHANGED <<peer, net, inbox, router, calls, app, pending, cancelled>>
        /\ Range(commands') \subseteq Range(commands)
    BY <1>1, ExecuteStep DEF far, tokens
  <2>3. c \notin proceeding' /\ wire'[c] = wire[c]
    <3>1. CASE Head(commands).call \in proceeding
      BY <1>1, <2>1, <3>1, ExecuteStep DEF Unknown
    <3>2. CASE Head(commands).call \notin proceeding
      BY <1>1, <3>2, ExecuteStep DEF Unknown, engine
    <3> QED BY <3>1, <3>2
  <2> QED BY <2>2, <2>3 DEF Unknown, far
<1>2. CASE Take
  <2>1. Head(inbox).call # c /\ router'.call # c
    BY <1>2, TakeStep DEF Unknown
  <2>2. \A x \in Range(commands') : x.call # c
    BY <1>2, <2>1, TakeStep DEF Unknown
  <2>3. /\ UNCHANGED <<peer, net, calls, proceeding, wire, app, pending, cancelled>>
        /\ Range(inbox') \subseteq Range(inbox)
    BY <1>2, TakeStep DEF far, engine, tokens
  <2> QED BY <2>1, <2>2, <2>3 DEF Unknown, far
<1>3. CASE QueueCall
  <2>1. router.call # c
    BY <1>3 DEF Unknown, QueueCall
  <2>2. UNCHANGED <<peer, net, inbox, commands, proceeding, wire, app, pending, cancelled>>
    BY <1>3, QueueCallStep DEF far, engine, tokens
  <2>3. c \notin Range(calls') /\ router'.step = "idle"
    BY <1>3, <2>1, QueueCallStep DEF Unknown, Asleep
  <2> QED BY <2>2, <2>3 DEF Unknown, far
<1>4. CASE RemovePending \/ AnswerCancelled \/ NotifyCancelled \/ EndCall
  <2>1. router.call # c
    BY <1>4, ClearStep DEF Unknown
  <2>2. router'.step # "idle" => router'.call # c
    BY <1>4, <2>1, ClearStep DEF Asleep
  <2>3. \A x \in Range(commands') : x.call # c
    BY <1>4, <2>1, ClearStep DEF Unknown
  <2>4. c \notin pending' \cup cancelled'
    BY <1>4, <2>1, ClearStep DEF Unknown
  <2>5. UNCHANGED <<peer, net, inbox, calls, proceeding, wire, app>>
    BY <1>4, ClearStep DEF far, engine
  <2> QED BY <2>2, <2>3, <2>4, <2>5 DEF Unknown, far
<1>5. CASE NextIncomingCall
  <2>1. Head(calls) # c
    BY <1>5, NextCallStep DEF Unknown
  <2>2. UNCHANGED <<peer, net, inbox, router, commands, proceeding, wire, cancelled>>
    BY <1>5, NextCallStep DEF far, engine, tokens
  <2>3. c \notin Range(calls') /\ app'[c] = app[c] /\ c \notin pending'
    BY <1>5, <2>1, NextCallStep DEF Unknown
  <2> QED BY <2>2, <2>3 DEF Unknown, far
<1>6. ASSUME NEW d \in Call, Answers(d) PROVE UNCHANGED far /\ Unknown(c)'
  <2>1. d # c
    BY <1>6, AnswersStep DEF Unknown
  <2>2. \A x \in Range(commands') : x.call # c
    BY <1>6, <2>1, AnswersStep DEF Unknown
  <2>3. /\ UNCHANGED <<peer, net, inbox, router, calls, proceeding, wire, pending, cancelled>>
        /\ app'[c] = app[c]
    BY <1>6, <2>1, AnswersStep DEF far, engine, tokens
  <2> QED BY <2>2, <2>3 DEF Unknown, far
<1>7. ASSUME NEW d \in Call, Decides(d) PROVE UNCHANGED far /\ Unknown(c)'
  <2>1. d # c
    BY <1>7, DecidesStep DEF Unknown
  <2>2. /\ UNCHANGED <<peer, net, inbox, router, calls, commands, proceeding, wire, cancelled>>
        /\ app'[c] = app[c] /\ pending' \subseteq pending
    BY <1>7, <2>1, DecidesStep DEF far, engine, tokens
  <2> QED BY <2>2 DEF Unknown, far
<1> QED BY <1>1, <1>2, <1>3, <1>4, <1>5, <1>6, <1>7 DEF Near, Route

LEMMA NearKeeps ==
    ASSUME TypeOK, FreshIsUnknown, Near
    PROVE  FreshIsUnknown' /\ \A c \in Call : Fresh(c)' <=> Fresh(c)
<1>1. UNCHANGED far
  BY ExecuteStep, TakeStep, QueueCallStep, ClearStep, NextCallStep, AnswersStep,
     DecidesStep DEF Near, Route
<1>2. \A c \in Call : Unknown(c) => Unknown(c)'
  BY UnknownStep
<1> QED BY <1>1, <1>2, NearStep

LEMMA FreshStep ==
    ASSUME TypeOK, FreshIsUnknown, [Next]_vars
    PROVE  FreshIsUnknown'
<1>1. CASE UNCHANGED vars
  BY <1>1 DEF vars, far, engine, tokens, FreshIsUnknown, Fresh, Unknown
<1> QED BY <1>1, StepKinds, FarStep, ArriveStep, NearKeeps

-----------------------------------------------------------------------------
(* One final response. *)

\* A transaction that proceeds has sent no final response, and one that has
\* sent one sent no other.
OpenIsUnanswered == \A c \in proceeding : wire[c] \cap Final = {}

LEMMA OneStep ==
    ASSUME TypeOK, FreshIsUnknown, OpenIsUnanswered, OneFinal, [Next]_vars
    PROVE  OpenIsUnanswered' /\ OneFinal'
<1>1. CASE UNCHANGED engine
  BY <1>1 DEF engine, OpenIsUnanswered, OneFinal
<1>2. ASSUME NEW m \in net, Arrive(m) PROVE OpenIsUnanswered' /\ OneFinal'
  <2>1. /\ m = [method |-> m.method, call |-> m.call] /\ m.call \in Call
        /\ wire' = wire
        /\ \/ proceeding' = proceeding
           \/ m.method = "INVITE" /\ proceeding' = proceeding \cup {m.call}
    BY <1>2 DEF Arrive, TypeOK, Request
  <2>2. m.method = "INVITE" => wire[m.call] = {}
    BY <2>1 DEF FreshIsUnknown, Fresh, Unknown, Invite
  <2> QED BY <2>1, <2>2 DEF OpenIsUnanswered, OneFinal
<1>3. CASE Execute
  <2> DEFINE x == Head(commands)
  <2>1. CASE x.call \notin proceeding
    BY <1>3, <2>1, ExecuteStep, <1>1
  <2>2. CASE x.call \in proceeding
    <3>1. /\ x.call \in Call
          /\ wire'[x.call] = wire[x.call] \cup {x.status}
          /\ \A d \in Call : d # x.call => wire'[d] = wire[d]
          /\ proceeding' = IF x.status \in Final THEN proceeding \ {x.call} ELSE proceeding
      BY <1>3, <2>2, ExecuteStep
    <3>2. wire[x.call] \cap Final = {} /\ proceeding \subseteq Call
      BY <2>2 DEF OpenIsUnanswered, TypeOK
    <3>3. OpenIsUnanswered'
      BY <3>1, <3>2 DEF OpenIsUnanswered
    <3>4. OneFinal'
      BY <3>1, <3>2 DEF OneFinal
    <3> QED BY <3>3, <3>4
  <2> QED BY <2>1, <2>2
<1>4. CASE UNCHANGED vars
  BY <1>1, <1>4 DEF vars, engine
<1>5. CASE Near /\ ~ Execute
  BY <1>1, <1>5, TakeStep, QueueCallStep, ClearStep, NextCallStep, AnswersStep,
     DecidesStep DEF Near, Route
<1>6. CASE UNCHANGED ours
  BY <1>1, <1>6 DEF ours
<1> QED BY <1>2, <1>3, <1>4, <1>5, <1>6, StepKinds, FarStep

OneInv == TypeOK /\ FreshIsUnknown /\ OpenIsUnanswered /\ OneFinal

LEMMA OneInit == Init => OneInv
<1> SUFFICES ASSUME Init PROVE OneInv
  OBVIOUS
<1>1. TypeOK
  BY InboundAssumption
     DEF Init, TypeOK, Peer, App, Router, Asleep, InboundAssumption
<1>2. Range(<<>>) = {}
  BY DEF Range
<1>3. FreshIsUnknown /\ OpenIsUnanswered /\ OneFinal
  BY <1>2 DEF Init, FreshIsUnknown, Unknown, Asleep, OpenIsUnanswered, OneFinal
<1> QED BY <1>1, <1>3 DEF OneInv

LEMMA OneInvStep == OneInv /\ [Next]_vars => OneInv'
BY TypeStep, FreshStep, OneStep DEF OneInv

\* The application's answer and the router's 487 race on the command queue,
\* and a decision races a CANCEL on the registry: whatever the order, the
\* peer hears one final response to an INVITE.
THEOREM OneFinalHolds == Spec => []OneFinal
<1>1. OneInv => OneFinal
  BY DEF OneInv
<1> QED BY <1>1, OneInit, OneInvStep, PTL DEF Spec

-----------------------------------------------------------------------------
(* A fired token tells the truth. *)

\* An INVITE that has arrived proceeds or was answered.
Kept == \A c \in Call : ~ Fresh(c) => c \in proceeding \/ Answered(c)

LEMMA KeptStep ==
    ASSUME TypeOK, FreshIsUnknown, Kept, [Next]_vars
    PROVE  Kept'
<1>1. CASE UNCHANGED engine /\ \A c \in Call : Fresh(c)' <=> Fresh(c)
  BY <1>1 DEF engine, Kept, Answered
<1>2. ASSUME NEW m \in net, Arrive(m) PROVE Kept'
  <2>1. wire' = wire /\ proceeding \subseteq proceeding'
    BY <1>2 DEF Arrive
  <2>2. \A c \in Call : m = Invite(c) => c \in proceeding'
    BY <1>2 DEF Arrive, Invite
  <2>3. \A c \in Call : Fresh(c)' <=> Fresh(c) /\ m # Invite(c)
    BY <1>2, ArriveStep
  <2> QED BY <2>1, <2>2, <2>3 DEF Kept, Answered
<1>3. CASE Execute
  <2> DEFINE x == Head(commands)
  <2>1. \A c \in Call : Fresh(c)' <=> Fresh(c)
    BY <1>3, NearKeeps DEF Near
  <2>2. CASE x.call \notin proceeding
    BY <1>3, <2>1, <2>2, ExecuteStep, <1>1
  <2>3. CASE x.call \in proceeding
    <3>1. /\ x.call \in Call /\ x \in Command
          /\ wire'[x.call] = wire[x.call] \cup {x.status}
          /\ \A d \in Call : d # x.call => wire'[d] = wire[d]
          /\ proceeding' = IF x.status \in Final THEN proceeding \ {x.call} ELSE proceeding
      BY <1>3, <2>3, ExecuteStep
    <3>2. x.call \in proceeding' \/ wire'[x.call] \cap Final # {}
      BY <3>1, <2>3
    <3>3. \A d \in Call : d # x.call /\ d \in proceeding => d \in proceeding'
      BY <3>1
    <3> QED BY <2>1, <3>1, <3>2, <3>3 DEF Kept, Answered
  <2> QED BY <2>2, <2>3
<1>4. CASE UNCHANGED vars
  BY <1>1, <1>4 DEF vars, engine, far, Fresh
<1>5. CASE Near /\ ~ Execute
  <2>1. UNCHANGED engine
    BY <1>5, TakeStep, QueueCallStep, ClearStep, NextCallStep, AnswersStep,
       DecidesStep DEF Near, Route
  <2> QED BY <1>1, <1>5, <2>1, NearKeeps
<1>6. CASE UNCHANGED ours /\ \A c \in Call : Fresh(c)' <=> Fresh(c)
  BY <1>1, <1>6 DEF ours
<1> QED BY <1>2, <1>3, <1>4, <1>5, <1>6, StepKinds, FarStep

\* An INVITE on its way to the application is in one place, once, and the
\* application has not seen it.
AtRouter(c) == router = [step |-> "queueing", call |-> c]

OneWay(c) ==
    /\ Once(inbox, Invite(c)) /\ Once(calls, c)
    /\ ~ (Invite(c) \in Range(inbox) /\ AtRouter(c))
    /\ ~ (Invite(c) \in Range(inbox) /\ c \in Range(calls))
    /\ ~ (AtRouter(c) /\ c \in Range(calls))
    /\ Invite(c) \in Range(inbox) \/ AtRouter(c) \/ c \in Range(calls)
           => app[c] = "unseen"

LEMMA WayStep ==
    ASSUME TypeOK, FreshIsUnknown, [Next]_vars, NEW c \in Call, OneWay(c)
    PROVE  OneWay(c)'
<1>1. CASE UNCHANGED <<inbox, router, calls>> /\ app'[c] = app[c]
  BY <1>1 DEF OneWay, AtRouter, Once
<1>2. ASSUME NEW m \in net, Arrive(m) PROVE OneWay(c)'
  <2>1. /\ m \in Request /\ inbox \in Seq(Request) /\ inbox' = Append(inbox, m)
        /\ UNCHANGED <<router, calls, app>>
    BY <1>2 DEF Arrive, TypeOK
  <2>2. m = Invite(c) => Unknown(c)
    BY DEF FreshIsUnknown, Fresh
  <2>3. m = Invite(c) =>
           /\ Invite(c) \notin Range(inbox) /\ c \notin Range(calls)
           /\ ~ AtRouter(c) /\ app[c] = "unseen"
    BY <2>2 DEF Unknown, Invite, AtRouter
  <2>4. /\ Range(inbox') = Range(inbox) \cup {m}
        /\ Once(inbox, Invite(c)) => Once(inbox', Invite(c))
    BY <2>1, <2>3, Put
  <2>5. Once(calls', c) <=> Once(calls, c)
    BY <2>1
  <2>6. AtRouter(c)' <=> AtRouter(c)
    BY <2>1 DEF AtRouter
  <2> HIDE DEF Once
  <2> QED BY <2>1, <2>3, <2>4, <2>5, <2>6 DEF OneWay
<1>3. CASE Take
  <2>1. UNCHANGED <<calls, app>> /\ router = Asleep
    BY <1>3, TakeStep
  <2>2. Once(inbox, Invite(c)) => Once(inbox', Invite(c))
    BY <1>3, TakeStep
  <2>3. /\ Range(inbox') \subseteq Range(inbox)
        /\ AtRouter(c)' => /\ Invite(c) \in Range(inbox)
                           /\ Once(inbox, Invite(c)) => Invite(c) \notin Range(inbox')
    BY <1>3, TakeStep DEF AtRouter
  <2>4. Once(calls', c) <=> Once(calls, c)
    BY <2>1
  <2> HIDE DEF Once
  <2> QED BY <2>1, <2>2, <2>3, <2>4 DEF OneWay
<1>4. CASE QueueCall
  <2>1. UNCHANGED <<inbox, app>>
    BY <1>4, QueueCallStep
  <2>2. ~ AtRouter(c)'
    BY <1>4, QueueCallStep DEF AtRouter, Asleep
  <2>3. /\ c \in Range(calls') => c \in Range(calls) \/ AtRouter(c)
        /\ Once(calls, c) /\ ~ (AtRouter(c) /\ c \in Range(calls)) => Once(calls', c)
    BY <1>4, QueueCallStep DEF AtRouter
  <2>4. Once(inbox', Invite(c)) <=> Once(inbox, Invite(c))
    BY <2>1
  <2> HIDE DEF Once
  <2> QED BY <2>1, <2>2, <2>3, <2>4 DEF OneWay
<1>5. CASE RemovePending \/ AnswerCancelled \/ NotifyCancelled \/ EndCall
  <2>1. UNCHANGED <<inbox, calls, app>>
    BY <1>5, ClearStep
  <2>2. ~ AtRouter(c)' /\ ~ AtRouter(c)
    <3>1. router.step # "queueing"
      BY <1>5, ClearStep
    <3>2. router' = Asleep \/ router'.step \in {"answering", "notifying"}
      BY <1>5, ClearStep
    <3> QED BY <3>1, <3>2 DEF AtRouter, Asleep
  <2> QED BY <2>1, <2>2 DEF OneWay, Once
<1>6. CASE NextIncomingCall
  <2>1. UNCHANGED <<inbox, router>>
    BY <1>6, NextCallStep
  <2>2. /\ Once(calls, c) => Once(calls', c)
        /\ Range(calls') \subseteq Range(calls)
        /\ \/ app'[c] = app[c]
           \/ /\ c \in Range(calls)
              /\ Once(calls, c) => c \notin Range(calls')
    BY <1>6, NextCallStep
  <2>3. /\ Once(inbox', Invite(c)) <=> Once(inbox, Invite(c))
        /\ AtRouter(c)' <=> AtRouter(c)
    BY <2>1 DEF AtRouter
  <2> HIDE DEF Once
  <2> QED BY <2>1, <2>2, <2>3 DEF OneWay
<1>7. ASSUME NEW d \in Call, Answers(d) \/ Decides(d) PROVE OneWay(c)'
  <2>1. UNCHANGED <<inbox, router, calls>>
    BY <1>7, AnswersStep, DecidesStep
  <2>2. CASE d # c
    BY <1>1, <1>7, <2>1, <2>2, AnswersStep, DecidesStep
  <2>3. CASE d = c
    <3>1. app[c] # "unseen"
      BY <1>7, <2>3, AnswersStep, DecidesStep
    <3> QED BY <2>1, <3>1 DEF OneWay, AtRouter, Once
  <2> QED BY <2>2, <2>3
<1>8. CASE Execute
  BY <1>1, <1>8, ExecuteStep
<1>9. CASE UNCHANGED ours \/ UNCHANGED vars
  BY <1>1, <1>9 DEF ours, vars
<1> QED BY <1>2, <1>3, <1>4, <1>5, <1>6, <1>7, <1>8, <1>9, StepKinds, FarStep
           DEF Near, Route

\* While the application has not decided, 487 is the only final response.
Undecided == {"unseen", "skipped", "offered", "dropped"}

OnlyCancelled(c) ==
    app[c] \in Undecided =>
        /\ \A x \in Range(commands) : x.call = c /\ x.status \in Final => x.status = "487"
        /\ wire[c] \cap Final \subseteq {"487"}

LEMMA OnlyStep ==
    ASSUME TypeOK, FreshIsUnknown, [Next]_vars, NEW c \in Call,
           OneWay(c), OnlyCancelled(c)
    PROVE  OnlyCancelled(c)'
<1>1. CASE UNCHANGED <<commands, wire>> /\ (app'[c] \in Undecided => app[c] \in Undecided)
  BY <1>1 DEF OnlyCancelled
<1>2. ASSUME NEW d \in Call, NEW status \in {"100", "180", "487"},
             Range(commands') = Range(commands) \cup {[call |-> d, status |-> status]},
             UNCHANGED <<wire, app>>
      PROVE  OnlyCancelled(c)'
  BY <1>2 DEF OnlyCancelled, Final
<1>3. CASE Execute
  <2> DEFINE x == Head(commands)
  <2>1. /\ x \in Range(commands) /\ Range(commands') \subseteq Range(commands)
        /\ app' = app
    BY <1>3, ExecuteStep
  <2>2. wire'[c] = wire[c] \/ (x.call = c /\ wire'[c] = wire[c] \cup {x.status})
    <3>1. CASE x.call \in proceeding
      BY <1>3, <3>1, ExecuteStep
    <3>2. CASE x.call \notin proceeding
      BY <1>3, <3>2, ExecuteStep DEF engine
    <3> QED BY <3>1, <3>2
  <2> QED BY <2>1, <2>2 DEF OnlyCancelled
<1>4. CASE Take
  <2>1. Head(inbox).call \in Call /\ UNCHANGED <<wire, app>>
    BY <1>4, TakeStep DEF engine
  <2>2. \/ UNCHANGED commands
        \/ Range(commands') = Range(commands) \cup {[call |-> Head(inbox).call, status |-> "100"]}
    BY <1>4, TakeStep
  <2> QED BY <2>1, <2>2, <1>1, <1>2
<1>5. CASE QueueCall
  BY <1>1, <1>5, QueueCallStep DEF engine
<1>6. CASE RemovePending \/ AnswerCancelled \/ NotifyCancelled \/ EndCall
  <2>1. router.call \in Call /\ UNCHANGED <<wire, app>>
    BY <1>6, ClearStep DEF engine
  <2>2. \/ UNCHANGED commands
        \/ Range(commands') = Range(commands) \cup {[call |-> router.call, status |-> "487"]}
    BY <1>6, ClearStep
  <2> QED BY <2>1, <2>2, <1>1, <1>2
<1>7. CASE NextIncomingCall
  <2>1. UNCHANGED <<commands, wire>>
    BY <1>7, NextCallStep DEF engine
  <2>2. app'[c] # app[c] => app[c] \in Undecided
    <3>1. CASE c = Head(calls)
      BY <1>7, <3>1, NextCallStep DEF OneWay, Undecided
    <3>2. CASE c # Head(calls)
      BY <1>7, <3>2, NextCallStep
    <3> QED BY <3>1, <3>2
  <2> QED BY <2>1, <2>2, <1>1
<1>8. ASSUME NEW d \in Call, Answers(d) PROVE OnlyCancelled(c)'
  <2>1. UNCHANGED wire
    BY <1>8, AnswersStep DEF engine
  <2>2. PICK status \in {"180", "200", "486", "488"} :
           \/ UNCHANGED commands
           \/ /\ Range(commands') = Range(commands) \cup {[call |-> d, status |-> status]}
              /\ status # "180" => app'[d] \in {"answered", "closed"}
    BY <1>8, AnswersStep
  <2>3. /\ app'[d] \in {app[d], "answered", "closed", "abandoned"}
        /\ \A e \in Call : e # d => app'[e] = app[e]
    BY <1>8, AnswersStep
  <2>4. app'[c] \in Undecided => app[c] \in Undecided
    BY <2>3 DEF Undecided
  <2>5. CASE UNCHANGED commands
    BY <2>1, <2>4, <2>5, <1>1
  <2>6. CASE /\ Range(commands') = Range(commands) \cup {[call |-> d, status |-> status]}
             /\ status # "180" => app'[d] \in {"answered", "closed"}
    <3>1. app'[c] \in Undecided =>
             \A x \in Range(commands') :
                 x.call = c /\ x.status \in Final => x.status = "487"
      BY <2>4, <2>6 DEF OnlyCancelled, Undecided, Final
    <3> QED BY <2>1, <2>4, <3>1 DEF OnlyCancelled
  <2> QED BY <2>2, <2>5, <2>6
<1>9. ASSUME NEW d \in Call, Decides(d) PROVE OnlyCancelled(c)'
  <2>1. UNCHANGED <<commands, wire>>
    BY <1>9, DecidesStep DEF engine
  <2>2. app'[c] \in Undecided => app[c] \in Undecided
    BY <1>9, DecidesStep DEF Undecided
  <2> QED BY <2>1, <2>2, <1>1
<1>10. ASSUME NEW m \in net, Arrive(m) PROVE OnlyCancelled(c)'
  BY <1>1, <1>10 DEF Arrive
<1>11. CASE UNCHANGED ours \/ UNCHANGED vars
  BY <1>1, <1>11 DEF ours, vars, engine
<1>12. CASE Near
  BY <1>3, <1>4, <1>5, <1>6, <1>7, <1>8, <1>9, <1>12 DEF Near, Route
<1>13. CASE UNCHANGED ours
  BY <1>11, <1>13
<1> QED BY <1>10, <1>11, <1>12, <1>13, StepKinds, FarStep

\* Whoever is told, or about to be, has been answered, or will be with 487.
Told(c) ==
    c \in cancelled \/ router = [step |-> "notifying", call |-> c]
        => Answered(c) \/ [call |-> c, status |-> "487"] \in Range(commands)

LEMMA ToldStep ==
    ASSUME TypeOK, FreshIsUnknown, Kept, [Next]_vars, NEW c \in Call, Told(c)
    PROVE  Told(c)'
<1>1. CASE /\ UNCHANGED <<router, wire, cancelled>>
           /\ Range(commands) \subseteq Range(commands')
  BY <1>1 DEF Told, Answered
<1>2. CASE Execute
  <2> DEFINE x == Head(commands)
  <2>1. /\ x \in Range(commands) /\ Range(commands) = Range(commands') \cup {x}
        /\ UNCHANGED <<router, cancelled>>
    BY <1>2, ExecuteStep DEF tokens
  <2>2. Answered(c) => Answered(c)'
    <3>1. CASE x.call \in proceeding
      BY <1>2, <3>1, ExecuteStep DEF Answered
    <3>2. CASE x.call \notin proceeding
      BY <1>2, <3>2, ExecuteStep DEF engine, Answered
    <3> QED BY <3>1, <3>2
  <2>3. x = [call |-> c, status |-> "487"] => Answered(c)'
    <3> SUFFICES ASSUME x = [call |-> c, status |-> "487"] PROVE Answered(c)'
      OBVIOUS
    <3>1. x.call = c /\ x.status = "487" /\ ~ Unknown(c)
      BY <2>1 DEF Unknown
    <3>2. c \in proceeding \/ Answered(c)
      BY <3>1 DEF FreshIsUnknown, Kept
    <3>3. CASE c \in proceeding
      BY <1>2, <3>1, <3>3, ExecuteStep DEF Answered, Final
    <3> QED BY <2>2, <3>2, <3>3
  <2> QED BY <2>1, <2>2, <2>3 DEF Told
<1>3. CASE Take
  <2>1. /\ UNCHANGED <<wire, cancelled>>
        /\ router' # [step |-> "notifying", call |-> c]
    BY <1>3, TakeStep DEF engine, tokens
  <2>2. Range(commands) \subseteq Range(commands')
    BY <1>3, TakeStep
  <2> QED BY <2>1, <2>2 DEF Told, Answered
<1>4. CASE QueueCall
  <2>1. /\ UNCHANGED <<wire, cancelled, commands>> /\ router' = Asleep
    BY <1>4, QueueCallStep DEF engine, tokens
  <2> QED BY <2>1 DEF Told, Answered, Asleep
<1>5. CASE RemovePending \/ AnswerCancelled \/ NotifyCancelled \/ EndCall
  <2>1. /\ UNCHANGED wire
        /\ Range(commands) \subseteq Range(commands')
    BY <1>5, ClearStep DEF engine
  <2>2. router' = [step |-> "notifying", call |-> c]
           => [call |-> c, status |-> "487"] \in Range(commands')
    <3>1. Asleep # [step |-> "notifying", call |-> c]
      BY DEF Asleep
    <3>2. [step |-> "answering", call |-> router.call] # [step |-> "notifying", call |-> c]
      OBVIOUS
    <3>3. [step |-> "notifying", call |-> router.call] = [step |-> "notifying", call |-> c]
             => router.call = c
      OBVIOUS
    <3> QED BY <1>5, <3>1, <3>2, <3>3, ClearStep
  <2>3. c \in cancelled' =>
           c \in cancelled \/ router = [step |-> "notifying", call |-> c]
    BY <1>5, ClearStep
  <2> QED BY <2>1, <2>2, <2>3 DEF Told, Answered
<1>6. CASE NextIncomingCall
  BY <1>1, <1>6, NextCallStep DEF engine, tokens
<1>7. ASSUME NEW d \in Call, Answers(d) PROVE Told(c)'
  <2>1. Range(commands) \subseteq Range(commands')
    BY <1>7, AnswersStep
  <2> QED BY <1>1, <1>7, <2>1, AnswersStep DEF engine, tokens
<1>8. ASSUME NEW d \in Call, Decides(d) PROVE Told(c)'
  BY <1>1, <1>8, DecidesStep DEF engine, tokens
<1>9. ASSUME NEW m \in net, Arrive(m) PROVE Told(c)'
  BY <1>1, <1>9 DEF Arrive, tokens
<1>10. CASE UNCHANGED ours \/ UNCHANGED vars
  BY <1>1, <1>10 DEF ours, vars, engine, tokens
<1> QED BY <1>2, <1>3, <1>4, <1>5, <1>6, <1>7, <1>8, <1>9, <1>10, StepKinds, FarStep
           DEF Near, Route

CancelInv ==
    /\ TypeOK /\ FreshIsUnknown /\ Kept
    /\ \A c \in Call : OneWay(c) /\ OnlyCancelled(c) /\ Told(c)

LEMMA CancelInit == Init => CancelInv
<1> SUFFICES ASSUME Init PROVE CancelInv
  OBVIOUS
<1>1. TypeOK /\ FreshIsUnknown
  BY OneInit DEF OneInv
<1>2. Range(<<>>) = {} /\ \A x : Once(<<>>, x)
  BY DEF Range, Once
<1>3. Kept
  BY DEF Init, Kept, Fresh
<1>4. ASSUME NEW c \in Call PROVE OneWay(c) /\ OnlyCancelled(c) /\ Told(c)
  <2>1. OneWay(c)
    BY <1>2 DEF Init, OneWay, AtRouter, Asleep
  <2>2. OnlyCancelled(c)
    BY <1>2 DEF Init, OnlyCancelled
  <2>3. Told(c)
    BY DEF Init, Told, Asleep
  <2> QED BY <2>1, <2>2, <2>3
<1> QED BY <1>1, <1>3, <1>4 DEF CancelInv

LEMMA CancelStep == CancelInv /\ [Next]_vars => CancelInv'
<1> SUFFICES ASSUME CancelInv, [Next]_vars PROVE CancelInv'
  OBVIOUS
<1>1. TypeOK' /\ FreshIsUnknown' /\ Kept'
  BY TypeStep, FreshStep, KeptStep DEF CancelInv
<1>2. ASSUME NEW c \in Call PROVE OneWay(c)' /\ OnlyCancelled(c)' /\ Told(c)'
  BY WayStep, OnlyStep, ToldStep DEF CancelInv
<1> QED BY <1>1, <1>2 DEF CancelInv

\* A token that has fired tells the truth to an application that has not
\* decided: the peer has been, or is being, answered 487 and nothing else,
\* although the token, the answer and the peer's ear are three steps apart.
THEOREM CancelledToldHolds == Spec => []CancelledTold
<1>1. CancelInv => CancelledTold
  <2> SUFFICES ASSUME CancelInv, NEW c \in cancelled,
                      app[c] \in {"offered", "dropped"}, Settled(c)
               PROVE  wire[c] \cap Final = {"487"}
    BY DEF CancelledTold
  <2>1. c \in Call /\ OnlyCancelled(c) /\ Told(c)
    BY DEF CancelInv, TypeOK
  <2>2. [call |-> c, status |-> "487"] \notin Range(commands)
    BY DEF Settled, Range
  <2>3. wire[c] \cap Final # {}
    BY <2>1, <2>2 DEF Told, Answered
  <2>4. wire[c] \cap Final \subseteq {"487"}
    BY <2>1 DEF OnlyCancelled, Undecided
  <2> QED BY <2>3, <2>4
<1> QED BY <1>1, CancelInit, CancelStep, PTL DEF Spec

=============================================================================
