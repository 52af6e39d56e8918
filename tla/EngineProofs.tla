---------------------------- MODULE EngineProofs ----------------------------
(***************************************************************************)
(* Proofs about Engine, for any sets of keys and responses, any timer      *)
(* values, either kind of transport and any bound on reopening.            *)
(***************************************************************************)
EXTENDS Engine, TLAPS

-----------------------------------------------------------------------------
(* Types of what the machines return. *)

\* The parts of an outcome that the engine stores.
Typed(out) ==
    /\ out.tx \in Tx
    /\ out.send \subseteq {"request", "ack"} \cup Response
    /\ out.arm \subseteq [id : TimerId, after : Nat]

LEMMA Durations ==
    /\ T1 \in Nat /\ T2 \in Nat /\ T4 \in Nat /\ SoakD \in Nat
    /\ Timeout \in Nat
    /\ Soak.D \in Nat /\ Soak.I \in Nat /\ Soak.J \in Nat /\ Soak.K \in Nat
BY TimersAssumption DEF Timeout, Soak

LEMMA OutcomeTyped ==
    ASSUME NEW m \in Tx,
           NEW send \in SUBSET ({"request", "ack"} \cup Response),
           NEW stop,
           NEW arm \in SUBSET [id : TimerId, after : Nat],
           NEW tell
    PROVE  Typed(Outcome(m, send, stop, arm, tell))
BY DEF Outcome, Typed

LEMMA MachineTyped ==
    ASSUME NEW kind \in Kind \cup {"none"}, NEW state \in State
    PROVE  Machine(kind, state) \in Tx
BY Durations DEF Machine, Tx

LEMMA EnterTyped ==
    ASSUME NEW m \in Tx, NEW state \in State
    PROVE  Enter(m, state) \in Tx
BY DEF Enter, Tx

LEMMA ArmTyped ==
    /\ \A id \in TimerId, after \in Nat :
          {Arm(id, after)} \in SUBSET [id : TimerId, after : Nat]
    /\ \A id \in TimerId : Retransmit(id) \in SUBSET [id : TimerId, after : Nat]
BY Durations DEF Arm, Retransmit

LEMMA StartTyped ==
    /\ Typed(ClientInviteStart) /\ Typed(ClientNonInviteStart)
    /\ Typed(ServerInviteStart) /\ Typed(ServerNonInviteStart)
<1> USE DEF Kind, State, TimerId
<1>1. Typed(ClientInviteStart)
  <2>1. Machine("ClientInvite", "Calling") \in Tx
    BY MachineTyped
  <2>2. Retransmit("A") \cup {Arm("B", Timeout)}
            \in SUBSET [id : TimerId, after : Nat]
    BY ArmTyped, Durations
  <2> QED BY <2>1, <2>2, OutcomeTyped DEF ClientInviteStart
<1>2. Typed(ClientNonInviteStart)
  <2>1. Machine("ClientNonInvite", "Trying") \in Tx
    BY MachineTyped
  <2>2. Retransmit("E") \cup {Arm("F", Timeout)}
            \in SUBSET [id : TimerId, after : Nat]
    BY ArmTyped, Durations
  <2> QED BY <2>1, <2>2, OutcomeTyped DEF ClientNonInviteStart
<1>3. Typed(ServerInviteStart)
  BY MachineTyped, OutcomeTyped DEF ServerInviteStart
<1>4. Typed(ServerNonInviteStart)
  BY MachineTyped, OutcomeTyped DEF ServerNonInviteStart
<1> QED BY <1>1, <1>2, <1>3, <1>4

LEMMA ResponseTyped ==
    ASSUME NEW m \in Tx, NEW r \in Response
    PROVE  Typed(OnResponse(m, r))
BY Durations DEF OnResponse, Typed, Outcome, Nothing, Enter, Tx, State, Arm, TimerId,
    ClientInviteOnResponse, ClientInviteOnProvisional, ClientInviteOnSuccess,
    ClientInviteOnFailure, ClientNonInviteOnResponse, ClientNonInviteComplete

LEMMA RequestTyped ==
    ASSUME NEW m \in Tx, NEW method
    PROVE  Typed(OnRequest(m, method))
BY Durations DEF OnRequest, Typed, Outcome, Nothing, Enter, Tx, State, Arm, TimerId,
    ServerInviteOnRequest, ServerInviteOnAck, ServerNonInviteOnRequest, Replay

LEMMA StoreTyped ==
    ASSUME NEW m \in Tx, NEW state \in State, NEW r \in Response
    PROVE  Store(m, state, r) \in Tx
BY DEF Store, Tx

LEMMA SendTyped ==
    ASSUME NEW m \in Tx, NEW r \in Response
    PROVE  Typed(SendResponse(m, r))
<1>0. /\ Store(m, "Terminated", r) \in Tx /\ Store(m, "Completed", r) \in Tx
      /\ Store(m, "Proceeding", r) \in Tx /\ Enter(m, "Terminated") \in Tx
  BY StoreTyped, EnterTyped DEF State
<1>1. Typed(Nothing(m))
  BY OutcomeTyped DEF Nothing
<1>2. Typed(ServerInviteSendResponse(m, r))
  <2>1. Retransmit("G") \cup {Arm("H", Timeout)}
            \in SUBSET [id : TimerId, after : Nat]
    BY ArmTyped, Durations DEF TimerId
  <2>2. Typed(ServerInviteSendFinal(m, r))
    BY <1>0, <2>1, OutcomeTyped DEF ServerInviteSendFinal
  <2> QED BY <1>0, <1>1, <2>2, OutcomeTyped DEF ServerInviteSendResponse
<1>3. Typed(ServerNonInviteSendResponse(m, r))
  <2>1. {Arm("J", Soak.J)} \in SUBSET [id : TimerId, after : Nat]
    BY ArmTyped, Durations DEF TimerId
  <2>2. Typed(ServerNonInviteSendFinal(m, r))
    BY <1>0, <2>1, OutcomeTyped DEF ServerNonInviteSendFinal
  <2> QED BY <1>0, <1>1, <2>2, OutcomeTyped DEF ServerNonInviteSendResponse
<1> QED BY <1>1, <1>2, <1>3 DEF SendResponse

LEMMA TimerTyped ==
    ASSUME NEW m \in Tx, NEW id \in TimerId
    PROVE  Typed(OnTimer(m, id))
BY Durations DEF OnTimer, Typed, Outcome, Nothing, Enter, Tx, State, Arm, TimerId, Replay, Least,
    ClientInviteOnTimer, ClientNonInviteOnTimer, ClientNonInviteRetransmit,
    ServerInviteOnTimer, ServerNonInviteOnTimer

-----------------------------------------------------------------------------
(* Type correctness. *)

LEMMA HearTyped ==
    ASSUME NEW v \in View, NEW tell
    PROVE  HearAll(v, tell) \in View
BY DEF HearAll, Hear, View

\* Applying a typed outcome keeps the table, the sleepers and the wire typed.
LEMMA ApplyTyped ==
    ASSUME TypeOK, NEW k \in Key, NEW out, Typed(out),
           NEW pending \in SUBSET sleepers, Apply(k, out, pending)
    PROVE  /\ tx' \in [Key -> Tx]
           /\ gen' \in [Key -> [TimerId -> Nat]]
           /\ sleepers' \subseteq Sleeper
           /\ wire' \subseteq Message
<1>1. tx' \in [Key -> Tx]
  <2>1. NoTx \in Tx
    BY MachineTyped DEF NoTx, Kind, State
  <2> QED BY <2>1 DEF Apply, TypeOK, Typed
<1>2. gen' \in [Key -> [TimerId -> Nat]]
  <2>1. NoTimers \in [TimerId -> Nat]
    BY DEF NoTimers
  <2>2. Bump(gen[k], out) \in [TimerId -> Nat]
    BY DEF Bump, TypeOK
  <2> QED BY <2>1, <2>2 DEF Apply, TypeOK
<1>3. sleepers' \subseteq Sleeper
  <2>1. Spawned(k, out) \subseteq Sleeper
    BY DEF Spawned, Sleeper, TypeOK, Typed
  <2>2. ASSUME NEW s \in pending
        PROVE  [s EXCEPT !.fate = Fate(s, k, out)] \in Sleeper
    <3>1. s \in Sleeper
      BY DEF TypeOK
    <3>2. Fate(s, k, out) \in {"armed", "cancelled", "orphaned"}
      BY <3>1 DEF Fate, Sleeper
    <3> QED BY <3>1, <3>2 DEF Sleeper
  <2> QED BY <2>1, <2>2 DEF Apply
<1>4. wire' \subseteq Message
  BY DEF Apply, TypeOK, Typed, Message
<1> QED BY <1>1, <1>2, <1>3, <1>4

\* Every state of the engine is well typed.
THEOREM TypeCorrect == Spec => []TypeOK
<1>1. Init => TypeOK
  <2>1. NoTx \in Tx
    BY MachineTyped DEF NoTx, Kind, State
  <2> QED BY <2>1 DEF Init, TypeOK, NoTimers, View
<1>2. TypeOK /\ [Next]_vars => TypeOK'
  <2> SUFFICES ASSUME TypeOK, [Next]_vars PROVE TypeOK'
    OBVIOUS
  <2>1. ASSUME NEW k \in ClientKey, StartClient(k) PROVE TypeOK'
    <3>1. k \in Key
      BY DEF Key
    <3>2. Typed(Start(k))
      BY StartTyped DEF Start
    <3> QED BY <2>1, <3>1, <3>2, ApplyTyped DEF StartClient, TypeOK, View
  <2>2. ASSUME NEW k \in ClientKey, NEW r \in Response, ReceiveResponse(k, r)
        PROVE  TypeOK'
    <3>1. k \in Key
      BY DEF Key
    <3>2. Typed(OnResponse(tx[k], r))
      BY <3>1, ResponseTyped DEF TypeOK
    <3> QED BY <2>2, <3>1, <3>2, ApplyTyped, HearTyped DEF ReceiveResponse, TypeOK
  <2>3. ASSUME NEW k \in ServerKey, OpenServer(k) PROVE TypeOK'
    <3>1. k \in Key
      BY DEF Key
    <3>2. Typed(Open(k))
      BY StartTyped DEF Open
    <3> QED BY <2>3, <3>1, <3>2, ApplyTyped, HearTyped DEF OpenServer, TypeOK
  <2>4. ASSUME NEW k \in ServerKey, NEW method \in {"request", "ack"},
               ReceiveRequest(k, method)
        PROVE  TypeOK'
    <3>1. k \in Key
      BY DEF Key
    <3>2. Typed(OnRequest(tx[k], method))
      BY <3>1, RequestTyped DEF TypeOK
    <3> QED BY <2>4, <3>1, <3>2, ApplyTyped, HearTyped DEF ReceiveRequest, TypeOK
  <2>5. ASSUME NEW k \in ServerKey, NEW r \in Response, SendServerResponse(k, r)
        PROVE  TypeOK'
    <3>1. k \in Key
      BY DEF Key
    <3>2. Typed(SendResponse(tx[k], r))
      BY <3>1, SendTyped DEF TypeOK
    <3> QED BY <2>5, <3>1, <3>2, ApplyTyped, HearTyped
            DEF SendServerResponse, TypeOK
  <2>6. ASSUME NEW s \in sleepers, FireCurrent(s) PROVE TypeOK'
    <3>1. s.key \in Key /\ s.id \in TimerId
      BY DEF TypeOK, Sleeper
    <3>2. Typed(OnTimer(tx[s.key], s.id))
      BY <3>1, TimerTyped DEF TypeOK
    <3>3. sleepers \ {s} \in SUBSET sleepers
      OBVIOUS
    <3> QED BY <2>6, <3>1, <3>2, <3>3, ApplyTyped, HearTyped
            DEF FireCurrent, TypeOK
  <2>7. ASSUME NEW s \in sleepers, FireStale(s) PROVE TypeOK'
    BY <2>7 DEF FireStale, TypeOK
  <2>8. CASE Tick
    <3>1. ASSUME NEW s \in sleepers PROVE Aged(s) \in Sleeper
      <4>1. s \in Sleeper /\ s.left > 0
        BY <2>8 DEF Tick, TypeOK
      <4>2. s.left - 1 \in Nat
        BY <4>1 DEF Sleeper
      <4> QED BY <4>1, <4>2 DEF Sleeper, Aged
    <3> QED BY <2>8, <3>1 DEF Tick, TypeOK
  <2>9. CASE UNCHANGED vars
    BY <2>9 DEF vars, TypeOK
  <2> QED BY <2>1, <2>2, <2>3, <2>4, <2>5, <2>6, <2>7, <2>8, <2>9 DEF Next
<1> QED BY <1>1, <1>2, PTL DEF Spec

-----------------------------------------------------------------------------
(* The TU hears one outcome per transaction.                               *)
(*                                                                         *)
(* Conforms is not inductive: whether an event breaks the promise depends  *)
(* on the machine that reports it.  The strengthening relates the two: the *)
(* view of a client transaction is "waiting" exactly until its machine has *)
(* reported a final response, and the table holds a machine exactly while  *)
(* the TU has not heard Terminated.                                        *)

\* What the TU may have been told of a transaction whose machine is m.
Fits(m, v) ==
    \/ m.kind = "none" /\ v \in {"idle", "closed"}
    \/ /\ m.kind \in ClientKind
       /\ m.state \in {"Calling", "Trying", "Proceeding"}
       /\ v = "waiting"
    \/ m.kind \in ClientKind /\ m.state = "Completed" /\ v = "answered"
    \/ m.kind \in {"ServerInvite", "ServerNonInvite"} /\ v = "serving"

AllFit == \A k \in Key : Fits(tx[k], view[k])

\* An outcome of a machine the view fits leaves a view that fits.
KeepsFit(v, out) ==
    IF Ends(out) THEN HearAll(v, out.tell) = "closed"
                 ELSE Fits(out.tx, HearAll(v, out.tell))

\* How each of the event lists the machines use is heard.
LEMMA TellNone ==
    ASSUME NEW out, out.tell = <<>>, NEW v
    PROVE  ~Ends(out) /\ HearAll(v, out.tell) = v
BY DEF Ends, HearAll

LEMMA TellOne ==
    ASSUME NEW out, NEW e, out.tell = <<e>>, NEW v
    PROVE  (Ends(out) <=> e = Terminated) /\ HearAll(v, out.tell) = Hear(v, e)
BY DEF Ends, HearAll

LEMMA TellTwo ==
    ASSUME NEW out, NEW e, out.tell = <<e, Terminated>>, NEW v
    PROVE  Ends(out) /\ HearAll(v, out.tell) = Hear(Hear(v, e), Terminated)
BY DEF Ends, HearAll

LEMMA Heard ==
    ASSUME NEW r \in Response, NEW v
    PROVE  /\ Deliver(r) # Terminated
           /\ Request # Terminated
           /\ v \in {"idle", "closed"} => Hear(v, Request) = "serving"
           /\ r \in Provisional => Hear("waiting", Deliver(r)) = "waiting"
           /\ r \notin Provisional => Hear("waiting", Deliver(r)) = "answered"
           /\ v \in {"waiting", "serving"} => Hear(v, TimedOut) = "expired"
           /\ v \in {"answered", "expired", "serving"} =>
                 Hear(v, Terminated) = "closed"
BY DEF Deliver, Request, TimedOut, Terminated, Hear

LEMMA OutcomeFields ==
    ASSUME NEW m, NEW send, NEW stop, NEW arm, NEW tell
    PROVE  /\ Outcome(m, send, stop, arm, tell).tx = m
           /\ Outcome(m, send, stop, arm, tell).tell = tell
           /\ Outcome(m, send, stop, arm, tell).arm = arm
           /\ Outcome(m, send, stop, arm, tell).stop = stop
BY DEF Outcome

LEMMA EnterFields ==
    ASSUME NEW m \in Tx, NEW state
    PROVE  Enter(m, state).kind = m.kind /\ Enter(m, state).state = state
BY DEF Enter, Tx

LEMMA StoreFields ==
    ASSUME NEW m \in Tx, NEW state, NEW r
    PROVE  Store(m, state, r).kind = m.kind /\ Store(m, state, r).state = state
BY DEF Store, Tx

LEMMA NothingFits ==
    ASSUME NEW m, NEW v, Fits(m, v)
    PROVE  KeepsFit(v, Nothing(m))
<1>1. Nothing(m).tell = <<>> /\ Nothing(m).tx = m
  BY DEF Nothing, Outcome
<1> QED BY <1>1, TellNone DEF KeepsFit

\* A machine that stays with its client waiting, or moves on when answered.
LEMMA ClientQuiet ==
    ASSUME NEW m, m.kind \in ClientKind, NEW v, NEW send, NEW stop, NEW arm,
           Fits(m, v)
    PROVE  KeepsFit(v, Outcome(m, send, stop, arm, <<>>))
BY OutcomeFields, TellNone DEF KeepsFit

LEMMA ClientTold ==
    ASSUME NEW m, m.kind \in ClientKind, NEW r \in Response,
           NEW send, NEW stop, NEW arm,
           r \in Provisional => m.state \in {"Calling", "Trying", "Proceeding"},
           r \notin Provisional => m.state = "Completed"
    PROVE  KeepsFit("waiting", Outcome(m, send, stop, arm, <<Deliver(r)>>))
BY OutcomeFields, TellOne, Heard DEF KeepsFit, Fits

LEMMA Ended ==
    ASSUME NEW m, NEW send, NEW stop, NEW arm, NEW v, NEW e,
           Hear(v, e) \in {"answered", "expired", "serving"}
    PROVE  KeepsFit(v, Outcome(m, send, stop, arm, <<e, Terminated>>))
<1>1. Hear(Hear(v, e), Terminated) = "closed"
  BY DEF Hear, Terminated
<1> QED BY <1>1, OutcomeFields, TellTwo DEF KeepsFit

LEMMA EndedAlone ==
    ASSUME NEW m, NEW send, NEW stop, NEW arm,
           NEW v \in {"answered", "expired", "serving"}
    PROVE  KeepsFit(v, Outcome(m, send, stop, arm, <<Terminated>>))
<1>1. Hear(v, Terminated) = "closed"
  BY DEF Hear, Terminated
<1> QED BY <1>1, OutcomeFields, TellOne DEF KeepsFit

LEMMA ResponseFits ==
    ASSUME NEW m \in Tx, NEW v, Fits(m, v), NEW r \in Response
    PROVE  KeepsFit(v, OnResponse(m, r))
<1>0. KeepsFit(v, Nothing(m))
  BY NothingFits
<1>1. ASSUME m.kind = "ClientInvite" PROVE KeepsFit(v, ClientInviteOnResponse(m, r))
  <2>1. ASSUME m.state \in {"Calling", "Proceeding"}
        PROVE  v = "waiting"
    BY <1>1, <2>1 DEF Fits, ClientKind
  <2>2. ASSUME m.state \in {"Calling", "Proceeding"}, r \in Provisional
        PROVE  KeepsFit(v, ClientInviteOnProvisional(m, r))
    <3>1. /\ Enter(m, "Proceeding").kind \in ClientKind
          /\ Enter(m, "Proceeding").state = "Proceeding"
      BY <1>1, EnterFields DEF ClientKind
    <3> QED BY <1>1, <2>1, <2>2, <3>1, ClientTold DEF ClientInviteOnProvisional, ClientKind
  <2>3. ASSUME m.state \in {"Calling", "Proceeding"}, r \in Success
        PROVE  KeepsFit(v, ClientInviteOnSuccess(m, r))
    <3>1. Hear(v, Deliver(r)) = "answered"
      BY <2>1, <2>3, Heard, ResponseAssumption
    <3> QED BY <3>1, Ended DEF ClientInviteOnSuccess
  <2>4. ASSUME m.state \in {"Calling", "Proceeding"}, r \in Failure
        PROVE  KeepsFit(v, ClientInviteOnFailure(m, r))
    <3>1. Hear(v, Deliver(r)) = "answered"
      BY <2>1, <2>4, Heard, ResponseAssumption
    <3>2. KeepsFit(v, Outcome(Enter(m, "Terminated"), {"ack"}, {}, {},
                              <<Deliver(r), Terminated>>))
      BY <3>1, Ended
    <3>3. /\ Enter(m, "Completed").kind \in ClientKind
          /\ Enter(m, "Completed").state = "Completed"
      BY <1>1, EnterFields DEF ClientKind
    <3>4. KeepsFit(v, Outcome(Enter(m, "Completed"), {"ack"}, {},
                              {Arm("D", Soak.D)}, <<Deliver(r)>>))
      BY <2>1, <2>4, <3>3, ClientTold, ResponseAssumption
    <3> QED BY <1>0, <3>2, <3>4 DEF ClientInviteOnFailure
  <2>5. KeepsFit(v, Outcome(m, {"ack"}, {}, {}, <<>>))
    BY <1>1, ClientQuiet DEF ClientKind
  <2> QED BY <1>0, <2>2, <2>3, <2>4, <2>5 DEF ClientInviteOnResponse
<1>2. ASSUME m.kind = "ClientNonInvite"
      PROVE  KeepsFit(v, ClientNonInviteOnResponse(m, r))
  <2>1. ASSUME m.state \in {"Trying", "Proceeding"}
        PROVE  v = "waiting"
    BY <1>2, <2>1 DEF Fits, ClientKind
  <2>2. ASSUME m.state \in {"Trying", "Proceeding"}, r \in Provisional
        PROVE  KeepsFit(v, Outcome(Enter(m, "Proceeding"), {}, {}, {},
                                   <<Deliver(r)>>))
    <3>1. /\ Enter(m, "Proceeding").kind \in ClientKind
          /\ Enter(m, "Proceeding").state = "Proceeding"
      BY <1>2, EnterFields DEF ClientKind
    <3> QED BY <2>1, <2>2, <3>1, ClientTold
  <2>3. ASSUME m.state \in {"Trying", "Proceeding"}, r \notin Provisional
        PROVE  KeepsFit(v, ClientNonInviteComplete(m, r))
    <3>1. Hear(v, Deliver(r)) = "answered"
      BY <2>1, <2>3, Heard
    <3>2. KeepsFit(v, Outcome(Enter(m, "Terminated"), {}, {}, {},
                              <<Deliver(r), Terminated>>))
      BY <3>1, Ended
    <3>3. /\ Enter(m, "Completed").kind \in ClientKind
          /\ Enter(m, "Completed").state = "Completed"
      BY <1>2, EnterFields DEF ClientKind
    <3>4. KeepsFit(v, Outcome(Enter(m, "Completed"), {}, {"E", "F"},
                              {Arm("K", Soak.K)}, <<Deliver(r)>>))
      BY <2>1, <2>3, <3>3, ClientTold
    <3> QED BY <3>2, <3>4 DEF ClientNonInviteComplete
  <2> QED BY <1>0, <2>2, <2>3 DEF ClientNonInviteOnResponse
<1> QED BY <1>0, <1>1, <1>2 DEF OnResponse

\* A server machine that has told nothing, or that ends.
LEMMA ServerQuiet ==
    ASSUME NEW m, m.kind \in {"ServerInvite", "ServerNonInvite"},
           NEW send, NEW stop, NEW arm
    PROVE  KeepsFit("serving", Outcome(m, send, stop, arm, <<>>))
BY OutcomeFields, TellNone DEF KeepsFit, Fits

LEMMA ServerEnded ==
    ASSUME NEW m, NEW send, NEW stop, NEW arm
    PROVE  KeepsFit("serving", Outcome(m, send, stop, arm, <<Terminated>>))
BY EndedAlone

LEMMA RequestFits ==
    ASSUME NEW m \in Tx, NEW v, Fits(m, v), NEW method
    PROVE  KeepsFit(v, OnRequest(m, method))
<1>0. KeepsFit(v, Nothing(m))
  BY NothingFits
<1>1. ASSUME m.kind = "ServerInvite" PROVE KeepsFit(v, ServerInviteOnRequest(m, method))
  <2>1. v = "serving"
    BY <1>1 DEF Fits, ClientKind
  <2>2. KeepsFit(v, Outcome(m, Replay(m), {}, {}, <<>>))
    BY <1>1, <2>1, ServerQuiet
  <2>3. KeepsFit(v, ServerInviteOnAck(m))
    <3>1. Enter(m, "Confirmed").kind = m.kind
      BY EnterFields
    <3> QED BY <1>1, <2>1, <3>1, ServerQuiet, ServerEnded DEF ServerInviteOnAck
  <2> QED BY <1>0, <2>2, <2>3 DEF ServerInviteOnRequest
<1>2. ASSUME m.kind = "ServerNonInvite" PROVE KeepsFit(v, ServerNonInviteOnRequest(m))
  <2>1. v = "serving"
    BY <1>2 DEF Fits, ClientKind
  <2> QED BY <1>0, <1>2, <2>1, ServerQuiet DEF ServerNonInviteOnRequest
<1> QED BY <1>0, <1>1, <1>2 DEF OnRequest

LEMMA SendFits ==
    ASSUME NEW m \in Tx, NEW v, Fits(m, v), NEW r \in Response
    PROVE  KeepsFit(v, SendResponse(m, r))
<1>0. KeepsFit(v, Nothing(m))
  BY NothingFits
<1>1. ASSUME m.kind = "ServerInvite" PROVE KeepsFit(v, ServerInviteSendResponse(m, r))
  <2>1. v = "serving"
    BY <1>1 DEF Fits, ClientKind
  <2>2. \A state : Store(m, state, r).kind \in {"ServerInvite", "ServerNonInvite"}
    BY <1>1, StoreFields
  <2>3. KeepsFit(v, Outcome(Enter(m, "Terminated"), {r}, {}, {}, <<Terminated>>))
    BY <2>1, ServerEnded
  <2>4. KeepsFit(v, ServerInviteSendFinal(m, r))
    BY <2>1, <2>2, ServerQuiet DEF ServerInviteSendFinal
  <2> QED BY <1>0, <2>1, <2>2, <2>3, <2>4, ServerQuiet DEF ServerInviteSendResponse
<1>2. ASSUME m.kind = "ServerNonInvite"
      PROVE  KeepsFit(v, ServerNonInviteSendResponse(m, r))
  <2>1. v = "serving"
    BY <1>2 DEF Fits, ClientKind
  <2>2. \A state : Store(m, state, r).kind \in {"ServerInvite", "ServerNonInvite"}
    BY <1>2, StoreFields
  <2>3. KeepsFit(v, ServerNonInviteSendFinal(m, r))
    BY <2>1, <2>2, ServerQuiet, ServerEnded DEF ServerNonInviteSendFinal
  <2> QED BY <1>0, <2>1, <2>2, <2>3, ServerQuiet DEF ServerNonInviteSendResponse
<1> QED BY <1>0, <1>1, <1>2 DEF SendResponse

LEMMA TimerFits ==
    ASSUME NEW m \in Tx, NEW v, Fits(m, v), NEW id
    PROVE  KeepsFit(v, OnTimer(m, id))
<1>0. KeepsFit(v, Nothing(m))
  BY NothingFits
<1>1. ASSUME v \in {"waiting", "serving"}
      PROVE  KeepsFit(v, Outcome(Enter(m, "Terminated"), {}, {}, {},
                                 <<TimedOut, Terminated>>))
  BY <1>1, Heard, Ended DEF Hear, TimedOut
<1>2. ASSUME v \in {"answered", "serving"}
      PROVE  KeepsFit(v, Outcome(Enter(m, "Terminated"), {}, {}, {}, <<Terminated>>))
  BY <1>2, EndedAlone
<1>3. ASSUME NEW interval, NEW send, NEW arm, m.kind # "none"
      PROVE  KeepsFit(v, Outcome([m EXCEPT !.interval = interval], send, {},
                                 arm, <<>>))
  <2>1. /\ [m EXCEPT !.interval = interval].kind = m.kind
        /\ [m EXCEPT !.interval = interval].state = m.state
    BY DEF Tx
  <2>2. Fits([m EXCEPT !.interval = interval], v)
    BY <2>1 DEF Fits
  <2> QED BY <2>2, OutcomeFields, TellNone DEF KeepsFit
<1>4. ASSUME m.kind \in ClientKind,
             m.state \in {"Calling", "Trying", "Proceeding"}
      PROVE  v = "waiting"
  BY <1>4 DEF Fits, ClientKind
<1>5. ASSUME m.kind \in ClientKind, m.state = "Completed" PROVE v = "answered"
  BY <1>5 DEF Fits, ClientKind
<1>6. ASSUME m.kind \in {"ServerInvite", "ServerNonInvite"} PROVE v = "serving"
  BY <1>6 DEF Fits, ClientKind
<1>7. CASE m.kind = "ClientInvite"
  BY <1>0, <1>1, <1>2, <1>3, <1>4, <1>5, <1>7
  DEF OnTimer, ClientInviteOnTimer, ClientKind
<1>8. CASE m.kind = "ClientNonInvite"
  BY <1>0, <1>1, <1>2, <1>3, <1>4, <1>5, <1>8
  DEF OnTimer, ClientNonInviteOnTimer, ClientNonInviteRetransmit, ClientKind
<1>9. CASE m.kind = "ServerInvite"
  BY <1>0, <1>1, <1>2, <1>3, <1>6, <1>9 DEF OnTimer, ServerInviteOnTimer
<1>10. CASE m.kind = "ServerNonInvite"
  BY <1>0, <1>1, <1>2, <1>6, <1>10 DEF OnTimer, ServerNonInviteOnTimer
<1> QED BY <1>0, <1>7, <1>8, <1>9, <1>10 DEF OnTimer

\* Applying an outcome that keeps the fit keeps every view fitting.
LEMMA ApplyFits ==
    ASSUME TypeOK, AllFit, NEW k \in Key, NEW out, NEW pending,
           Apply(k, out, pending),
           view' = [view EXCEPT ![k] = HearAll(@, out.tell)],
           KeepsFit(view[k], out)
    PROVE  AllFit'
<1>1. Fits(tx'[k], view'[k])
  <2>1. Fits(NoTx, "closed")
    BY DEF Fits, NoTx, Machine
  <2> QED BY <2>1 DEF Apply, TypeOK, KeepsFit
<1>2. ASSUME NEW j \in Key, j # k PROVE Fits(tx'[j], view'[j])
  BY <1>2 DEF Apply, TypeOK, AllFit
<1> QED BY <1>1, <1>2 DEF AllFit

LEMMA AllFitStep ==
    ASSUME TypeOK, AllFit, [Next]_vars
    PROVE  AllFit'
<1>1. ASSUME NEW k \in ClientKey, StartClient(k) PROVE AllFit'
  <2>1. k \in Key
    BY DEF Key
  <2>2. ~Ends(Start(k)) /\ Fits(Start(k).tx, "waiting")
    BY OutcomeFields, TellNone
    DEF Start, ClientInviteStart, ClientNonInviteStart, Machine, Fits, ClientKind
  <2>3. tx'[k] = Start(k).tx /\ view'[k] = "waiting"
    BY <1>1, <2>1, <2>2 DEF StartClient, Apply, TypeOK
  <2>4. ASSUME NEW j \in Key, j # k PROVE Fits(tx'[j], view'[j])
    BY <1>1, <2>4 DEF StartClient, Apply, TypeOK, AllFit
  <2> QED BY <2>2, <2>3, <2>4 DEF AllFit
<1>2. ASSUME NEW k \in ClientKey, NEW r \in Response, ReceiveResponse(k, r)
      PROVE  AllFit'
  <2>1. k \in Key /\ tx[k] \in Tx
    BY DEF Key, TypeOK
  <2>2. KeepsFit(view[k], OnResponse(tx[k], r))
    BY <2>1, ResponseFits DEF AllFit
  <2> QED BY <1>2, <2>1, <2>2, ApplyFits DEF ReceiveResponse
<1>3. ASSUME NEW k \in ServerKey, OpenServer(k) PROVE AllFit'
  <2>1. k \in Key
    BY DEF Key
  <2>2. view[k] \in {"idle", "closed"}
    BY <1>3, <2>1 DEF OpenServer, AllFit, Fits, NoTx, Machine, ClientKind
  <2>3. Open(k).tell = <<Request>> /\ Fits(Open(k).tx, "serving")
    BY OutcomeFields DEF Open, ServerInviteStart, ServerNonInviteStart, Machine, Fits
  <2>4. Request # Terminated /\ Hear(view[k], Request) = "serving"
    BY <2>2 DEF Request, Terminated, Hear
  <2>5. KeepsFit(view[k], Open(k))
    BY <2>3, <2>4, TellOne DEF KeepsFit
  <2> QED BY <1>3, <2>1, <2>5, ApplyFits DEF OpenServer
<1>4. ASSUME NEW k \in ServerKey, NEW method \in {"request", "ack"},
             ReceiveRequest(k, method)
      PROVE  AllFit'
  <2>1. k \in Key /\ tx[k] \in Tx
    BY DEF Key, TypeOK
  <2>2. KeepsFit(view[k], OnRequest(tx[k], method))
    BY <2>1, RequestFits DEF AllFit
  <2> QED BY <1>4, <2>1, <2>2, ApplyFits DEF ReceiveRequest
<1>5. ASSUME NEW k \in ServerKey, NEW r \in Response, SendServerResponse(k, r)
      PROVE  AllFit'
  <2>1. k \in Key /\ tx[k] \in Tx
    BY DEF Key, TypeOK
  <2>2. KeepsFit(view[k], SendResponse(tx[k], r))
    BY <2>1, SendFits DEF AllFit
  <2> QED BY <1>5, <2>1, <2>2, ApplyFits DEF SendServerResponse
<1>6. ASSUME NEW s \in sleepers, FireCurrent(s) PROVE AllFit'
  <2>1. s.key \in Key /\ tx[s.key] \in Tx
    BY DEF TypeOK, Sleeper
  <2>2. KeepsFit(view[s.key], OnTimer(tx[s.key], s.id))
    BY <2>1, TimerFits DEF AllFit
  <2> QED BY <1>6, <2>1, <2>2, ApplyFits DEF FireCurrent
<1>7. CASE (\E s \in sleepers : FireStale(s)) \/ Tick \/ UNCHANGED vars
  BY <1>7 DEF FireStale, Tick, vars, AllFit
<1> QED BY <1>1, <1>2, <1>3, <1>4, <1>5, <1>6, <1>7 DEF Next

LEMMA AllFitInvariant == Spec => []AllFit
<1>1. Init => AllFit
  BY DEF Init, AllFit, Fits, NoTx, Machine
<1>2. TypeOK /\ AllFit /\ [Next]_vars => AllFit'
  BY AllFitStep
<1> QED BY <1>1, <1>2, TypeCorrect, PTL DEF Spec

\* Of every transaction the TU hears one outcome, then its end, and no more.
THEOREM OneOutcome == Spec => []Conforms
<1>1. AllFit => Conforms
  BY DEF AllFit, Fits, Conforms, ClientKind
<1> QED BY <1>1, AllFitInvariant, PTL

-----------------------------------------------------------------------------
(* Timers.                                                                 *)
(*                                                                         *)
(* The engine knows a live sleeper by its generation alone.  The invariant *)
(* is that an armed sleeper carries its timer's generation and a cancelled *)
(* one an earlier generation, for as long as its transaction is in the     *)
(* table; nothing is claimed of the sleepers a transaction leaves behind.  *)

SleepersSound ==
    \A s \in sleepers :
        /\ s.gen > 0
        /\ s.fate = "armed" => s.gen = gen[s.key][s.id]
        /\ s.fate = "cancelled" => s.gen < gen[s.key][s.id]

LEMMA ApplySound ==
    ASSUME TypeOK, SleepersSound, NEW k \in Key, NEW out, Typed(out),
           NEW pending \in SUBSET sleepers, Apply(k, out, pending)
    PROVE  SleepersSound'
<1> SUFFICES ASSUME NEW t \in sleepers'
             PROVE  /\ t.gen > 0
                    /\ t.fate = "armed" => t.gen = gen'[t.key][t.id]
                    /\ t.fate = "cancelled" => t.gen < gen'[t.key][t.id]
  BY DEF SleepersSound
<1>1. \A j \in Key : j # k => gen'[j] = gen[j]
  BY DEF Apply, TypeOK
<1>2. ~Ends(out) => gen'[k] = Bump(gen[k], out)
  BY DEF Apply, TypeOK
<1>3. \A id \in TimerId : gen[k][id] \in Nat
  BY DEF TypeOK
<1>4. CASE ~Ends(out) /\ t \in Spawned(k, out)
  <2>1. PICK a \in out.arm : t = [key |-> k, id |-> a.id, gen |-> gen[k][a.id] + 1,
                                 left |-> a.after, fate |-> "armed"]
    BY <1>4 DEF Spawned
  <2>2. a.id \in TimerId /\ a.id \in Armed(out)
    BY DEF Typed, Armed
  <2>3. gen'[k][a.id] = gen[k][a.id] + 1
    BY <1>2, <1>4, <2>2 DEF Bump
  <2> QED BY <1>3, <2>1, <2>2, <2>3
<1>5. CASE \E s \in pending : t = [s EXCEPT !.fate = Fate(s, k, out)]
  <2>1. PICK s \in pending : t = [s EXCEPT !.fate = Fate(s, k, out)]
    BY <1>5
  <2>2. s \in Sleeper /\ s \in sleepers
    BY DEF TypeOK
  <2>3. /\ t.key = s.key /\ t.id = s.id /\ t.gen = s.gen
        /\ t.fate = Fate(s, k, out)
    BY <2>1, <2>2 DEF Sleeper
  <2>4. /\ s.gen > 0 /\ s.gen \in Nat /\ s.id \in TimerId /\ s.key \in Key
        /\ s.fate = "armed" => s.gen = gen[s.key][s.id]
        /\ s.fate = "cancelled" => s.gen < gen[s.key][s.id]
    BY <2>2 DEF SleepersSound, Sleeper
  <2>5. CASE s.key # k
    BY <1>1, <2>3, <2>4, <2>5 DEF Fate
  <2>6. CASE s.key = k /\ (Ends(out) \/ s.fate = "orphaned")
    <3>1. Fate(s, k, out) = "orphaned"
      BY <2>6 DEF Fate
    <3> QED BY <2>3, <2>4, <3>1
  <2>7. CASE s.key = k /\ ~Ends(out) /\ s.fate # "orphaned"
    <3>1. gen'[k][s.id] = IF s.id \in Armed(out)
                               \/ (s.id \in out.stop /\ gen[k][s.id] > 0)
                          THEN gen[k][s.id] + 1 ELSE gen[k][s.id]
      BY <1>2, <2>4, <2>7 DEF Bump
    <3>2. CASE s.fate = "armed" /\ s.id \in Armed(out) \cup out.stop
      <4>1. Fate(s, k, out) = "cancelled"
        BY <2>7, <3>2 DEF Fate
      <4> QED BY <1>3, <2>3, <2>4, <2>7, <3>1, <3>2, <4>1
    <3>3. CASE ~(s.fate = "armed" /\ s.id \in Armed(out) \cup out.stop)
      <4>1. Fate(s, k, out) = s.fate
        BY <2>7, <3>3 DEF Fate
      <4>2. s.fate \in {"armed", "cancelled"}
        BY <2>2, <2>7 DEF Sleeper
      <4> QED BY <1>3, <2>3, <2>4, <2>7, <3>1, <3>3, <4>1, <4>2
    <3> QED BY <3>2, <3>3
  <2> QED BY <2>5, <2>6, <2>7
<1> QED BY <1>4, <1>5 DEF Apply

\* Every step of the engine is one Apply, or touches the sleepers only.
LEMMA StepIsApply ==
    ASSUME TypeOK, Next
    PROVE  \/ \E k \in Key : \E out \in {Start(k), Open(k)} :
                 Typed(out) /\ Apply(k, out, sleepers)
           \/ \E k \in Key, r \in Response :
                 \E out \in {OnResponse(tx[k], r), SendResponse(tx[k], r)} :
                     Typed(out) /\ Apply(k, out, sleepers)
           \/ \E k \in Key, method \in {"request", "ack"} :
                 /\ Typed(OnRequest(tx[k], method))
                 /\ Apply(k, OnRequest(tx[k], method), sleepers)
           \/ \E s \in sleepers :
                 /\ Current(s)
                 /\ Typed(OnTimer(tx[s.key], s.id))
                 /\ Apply(s.key, OnTimer(tx[s.key], s.id), sleepers \ {s})
           \/ \E s \in sleepers : FireStale(s)
           \/ Tick
<1>1. ASSUME NEW k \in ClientKey, StartClient(k)
      PROVE  k \in Key /\ Typed(Start(k)) /\ Apply(k, Start(k), sleepers)
  BY <1>1, StartTyped DEF StartClient, Start, Key
<1>2. ASSUME NEW k \in ClientKey, NEW r \in Response, ReceiveResponse(k, r)
      PROVE  /\ k \in Key /\ Typed(OnResponse(tx[k], r))
             /\ Apply(k, OnResponse(tx[k], r), sleepers)
  BY <1>2, ResponseTyped DEF ReceiveResponse, Key, TypeOK
<1>3. ASSUME NEW k \in ServerKey, OpenServer(k)
      PROVE  k \in Key /\ Typed(Open(k)) /\ Apply(k, Open(k), sleepers)
  BY <1>3, StartTyped DEF OpenServer, Open, Key
<1>4. ASSUME NEW k \in ServerKey, NEW method \in {"request", "ack"},
             ReceiveRequest(k, method)
      PROVE  /\ k \in Key /\ Typed(OnRequest(tx[k], method))
             /\ Apply(k, OnRequest(tx[k], method), sleepers)
  BY <1>4, RequestTyped DEF ReceiveRequest, Key, TypeOK
<1>5. ASSUME NEW k \in ServerKey, NEW r \in Response, SendServerResponse(k, r)
      PROVE  /\ k \in Key /\ Typed(SendResponse(tx[k], r))
             /\ Apply(k, SendResponse(tx[k], r), sleepers)
  BY <1>5, SendTyped DEF SendServerResponse, Key, TypeOK
<1>6. ASSUME NEW s \in sleepers, FireCurrent(s)
      PROVE  /\ Current(s) /\ Typed(OnTimer(tx[s.key], s.id))
             /\ Apply(s.key, OnTimer(tx[s.key], s.id), sleepers \ {s})
  BY <1>6, TimerTyped DEF FireCurrent, TypeOK, Sleeper
<1>7. CASE \E k \in ClientKey : StartClient(k)
  BY <1>1, <1>7
<1>8. CASE \E k \in ClientKey, r \in Response : ReceiveResponse(k, r)
  BY <1>2, <1>8
<1>9. CASE \E k \in ServerKey : OpenServer(k)
  BY <1>3, <1>9
<1>10. CASE \E k \in ServerKey, method \in {"request", "ack"} :
               ReceiveRequest(k, method)
  BY <1>4, <1>10
<1>11. CASE \E k \in ServerKey, r \in Response : SendServerResponse(k, r)
  BY <1>5, <1>11
<1>12. CASE \E s \in sleepers : FireCurrent(s)
  BY <1>6, <1>12
<1> QED BY <1>7, <1>8, <1>9, <1>10, <1>11, <1>12 DEF Next

LEMMA SoundStep ==
    ASSUME TypeOK, SleepersSound, [Next]_vars
    PROVE  SleepersSound'
<1>1. ASSUME NEW k \in Key, NEW out, NEW pending \in SUBSET sleepers,
             Typed(out), Apply(k, out, pending)
      PROVE  SleepersSound'
  BY <1>1, ApplySound
<1>2. ASSUME NEW s \in sleepers, FireStale(s) PROVE SleepersSound'
  BY <1>2 DEF FireStale, SleepersSound
<1>3. CASE Tick
  <2>1. ASSUME NEW s \in sleepers
        PROVE  /\ Aged(s).key = s.key /\ Aged(s).id = s.id
               /\ Aged(s).gen = s.gen /\ Aged(s).fate = s.fate
    BY DEF TypeOK, Sleeper, Aged
  <2> QED BY <1>3, <2>1 DEF Tick, SleepersSound
<1>4. CASE UNCHANGED vars
  BY <1>4 DEF vars, SleepersSound
<1>5. \A s \in sleepers : s.key \in Key /\ sleepers \ {s} \in SUBSET sleepers
  BY DEF TypeOK, Sleeper
<1> QED BY <1>1, <1>2, <1>3, <1>4, <1>5, StepIsApply

LEMMA SoundInvariant == Spec => []SleepersSound
<1>1. Init => SleepersSound
  BY DEF Init, SleepersSound
<1>2. TypeOK /\ SleepersSound /\ [Next]_vars => SleepersSound'
  BY SoundStep
<1> QED BY <1>1, <1>2, TypeCorrect, PTL DEF Spec

\* A timer its own transaction stopped or re-armed never fires into it.
THEOREM CancelledTimersStale == Spec => []CancelledIsStale
<1>1. TypeOK /\ SleepersSound => CancelledIsStale
  BY DEF TypeOK, Sleeper, SleepersSound, CancelledIsStale, Current
<1> QED BY <1>1, SoundInvariant, TypeCorrect, PTL

(* No wait is left without its timer.                                      *)
(*                                                                         *)
(* Guarded and Repeats say that the timers a state needs have a live       *)
(* sleeper.  Made inductive by naming the sleeper: an armed one, which     *)
(* SleepersSound makes live.                                               *)

Needs(m) == Ending(m) \cup Repeating(m)

ArmedFor(k, id) ==
    \E s \in sleepers : s.key = k /\ s.id = id /\ s.fate = "armed"

NeedsArmed == \A k \in Key : \A id \in Needs(tx[k]) : ArmedFor(k, id)

\* The next state of machine m needs only timers that the outcome arms, or
\* that m needed already and that were neither stopped nor just fired.
Covers(m, fired, out) ==
    ~Ends(out) =>
        \A id \in Needs(out.tx) :
            \/ id \in Armed(out)
            \/ id \in Needs(m) /\ id \notin out.stop /\ id # fired

LEMMA NothingCovers ==
    ASSUME NEW m, NEW fired, fired \notin Needs(m)
    PROVE  Covers(m, fired, Nothing(m))
BY DEF Covers, Nothing, Outcome

\* An outcome whose last word is Terminated leaves nothing to guard.
LEMMA TerminatedCovers ==
    ASSUME NEW m, NEW fired, NEW n, NEW send, NEW stop, NEW arm, NEW e
    PROVE  /\ Covers(m, fired, Outcome(n, send, stop, arm, <<Terminated>>))
           /\ Covers(m, fired, Outcome(n, send, stop, arm, <<e, Terminated>>))
BY OutcomeFields, TellOne, TellTwo DEF Covers

\* The timers of each waiting state, and of no other.
LEMMA NeedsOf ==
    ASSUME NEW m
    PROVE  /\ m.kind = "none" => Needs(m) = {}
           /\ m.kind = "ClientInvite" =>
                 /\ m.state = "Calling" =>
                       Needs(m) = {"B"} \cup IF Reliable THEN {} ELSE {"A"}
                 /\ m.state = "Completed" => Needs(m) = {"D"}
                 /\ m.state \notin {"Calling", "Completed"} => Needs(m) = {}
           /\ m.kind = "ClientNonInvite" =>
                 /\ m.state \in {"Trying", "Proceeding"} =>
                       Needs(m) = {"F"} \cup IF Reliable THEN {} ELSE {"E"}
                 /\ m.state = "Completed" => Needs(m) = {"K"}
                 /\ m.state \notin {"Trying", "Proceeding", "Completed"} =>
                       Needs(m) = {}
           /\ m.kind = "ServerInvite" =>
                 /\ m.state = "Completed" =>
                       Needs(m) = {"H"} \cup IF Reliable THEN {} ELSE {"G"}
                 /\ m.state = "Confirmed" => Needs(m) = {"I"}
                 /\ m.state \notin {"Completed", "Confirmed"} => Needs(m) = {}
           /\ m.kind = "ServerNonInvite" =>
                 /\ m.state = "Completed" => Needs(m) = {"J"}
                 /\ m.state # "Completed" => Needs(m) = {}
<1>1. ASSUME m.kind = "none" PROVE Needs(m) = {}
  BY <1>1 DEF Needs, Ending, Repeating
<1>2. ASSUME m.kind = "ClientInvite"
      PROVE  /\ m.state = "Calling" =>
                   Needs(m) = {"B"} \cup IF Reliable THEN {} ELSE {"A"}
             /\ m.state = "Completed" => Needs(m) = {"D"}
             /\ m.state \notin {"Calling", "Completed"} => Needs(m) = {}
  <2>1. CASE m.state = "Calling"
    <3>1. Ending(m) = {"B"} /\ Repeating(m) = IF Reliable THEN {} ELSE {"A"}
      BY <1>2, <2>1 DEF Ending, Repeating
    <3> QED BY <2>1, <3>1 DEF Needs
  <2>2. CASE m.state # "Calling"
    BY <1>2, <2>2 DEF Needs, Ending, Repeating
  <2> QED BY <2>1, <2>2
<1>3. ASSUME m.kind = "ClientNonInvite"
      PROVE  /\ m.state \in {"Trying", "Proceeding"} =>
                   Needs(m) = {"F"} \cup IF Reliable THEN {} ELSE {"E"}
             /\ m.state = "Completed" => Needs(m) = {"K"}
             /\ m.state \notin {"Trying", "Proceeding", "Completed"} =>
                   Needs(m) = {}
  <2>1. CASE m.state \in {"Trying", "Proceeding"}
    <3>1. Ending(m) = {"F"} /\ Repeating(m) = IF Reliable THEN {} ELSE {"E"}
      BY <1>3, <2>1 DEF Ending, Repeating
    <3> QED BY <2>1, <3>1 DEF Needs
  <2>2. CASE m.state \notin {"Trying", "Proceeding"}
    BY <1>3, <2>2 DEF Needs, Ending, Repeating
  <2> QED BY <2>1, <2>2
<1>4. ASSUME m.kind = "ServerInvite"
      PROVE  /\ m.state = "Completed" =>
                   Needs(m) = {"H"} \cup IF Reliable THEN {} ELSE {"G"}
             /\ m.state = "Confirmed" => Needs(m) = {"I"}
             /\ m.state \notin {"Completed", "Confirmed"} => Needs(m) = {}
  <2>1. CASE m.state = "Completed"
    <3>1. Ending(m) = {"H"} /\ Repeating(m) = IF Reliable THEN {} ELSE {"G"}
      BY <1>4, <2>1 DEF Ending, Repeating
    <3> QED BY <2>1, <3>1 DEF Needs
  <2>2. CASE m.state # "Completed"
    BY <1>4, <2>2 DEF Needs, Ending, Repeating
  <2> QED BY <2>1, <2>2
<1>5. ASSUME m.kind = "ServerNonInvite"
      PROVE  /\ m.state = "Completed" => Needs(m) = {"J"}
             /\ m.state # "Completed" => Needs(m) = {}
  BY <1>5 DEF Needs, Ending, Repeating
<1> QED BY <1>1, <1>2, <1>3, <1>4, <1>5

\* The step neither arms nor stops a timer and needs none it did not need.
LEMMA SameNeedsCovers ==
    ASSUME NEW m, NEW n, NEW send, NEW arm, NEW tell, NEW fired,
           Needs(n) \subseteq Needs(m) \ {fired}
    PROVE  Covers(m, fired, Outcome(n, send, {}, arm, tell))
BY OutcomeFields DEF Covers

LEMMA NoNeedsCovers ==
    ASSUME NEW m, NEW n, NEW send, NEW stop, NEW arm, NEW tell, NEW fired,
           Needs(n) = {}
    PROVE  Covers(m, fired, Outcome(n, send, stop, arm, tell))
BY OutcomeFields DEF Covers

LEMMA ArmedCovers ==
    ASSUME NEW m, NEW n, NEW send, NEW stop, NEW arm, NEW tell, NEW fired,
           \A id \in Needs(n) : \E a \in arm : a.id = id
    PROVE  Covers(m, fired, Outcome(n, send, stop, arm, tell))
BY OutcomeFields DEF Covers, Armed

LEMMA ArmedIds ==
    /\ \A id, after : Arm(id, after).id = id
    /\ \A id : ~Reliable => \E a \in Retransmit(id) : a.id = id
BY DEF Arm, Retransmit

LEMMA StartCovers ==
    ASSUME NEW m, NEW fired
    PROVE  /\ Covers(m, fired, ClientInviteStart)
           /\ Covers(m, fired, ClientNonInviteStart)
           /\ Covers(m, fired, ServerInviteStart)
           /\ Covers(m, fired, ServerNonInviteStart)
<1>1. Covers(m, fired, ClientInviteStart)
  <2>1. Needs(Machine("ClientInvite", "Calling")) =
            {"B"} \cup IF Reliable THEN {} ELSE {"A"}
    BY NeedsOf DEF Machine
  <2> QED BY <2>1, ArmedIds, ArmedCovers DEF ClientInviteStart
<1>2. Covers(m, fired, ClientNonInviteStart)
  <2>1. Needs(Machine("ClientNonInvite", "Trying")) =
            {"F"} \cup IF Reliable THEN {} ELSE {"E"}
    BY NeedsOf DEF Machine
  <2> QED BY <2>1, ArmedIds, ArmedCovers DEF ClientNonInviteStart
<1>3. Covers(m, fired, ServerInviteStart)
  <2>1. Needs(Machine("ServerInvite", "Proceeding")) = {}
    BY NeedsOf DEF Machine
  <2> QED BY <2>1, NoNeedsCovers DEF ServerInviteStart
<1>4. Covers(m, fired, ServerNonInviteStart)
  <2>1. Needs(Machine("ServerNonInvite", "Trying")) = {}
    BY NeedsOf DEF Machine
  <2> QED BY <2>1, NoNeedsCovers DEF ServerNonInviteStart
<1> QED BY <1>1, <1>2, <1>3, <1>4

LEMMA ResponseCovers ==
    ASSUME NEW m \in Tx, NEW r \in Response
    PROVE  Covers(m, "none", OnResponse(m, r))
<1>0. "none" \notin Needs(m)
  BY NeedsOf DEF Tx, Kind, Needs, Ending, Repeating
<1>1. /\ Covers(m, "none", Nothing(m))
      /\ \A send, tell : Covers(m, "none", Outcome(m, send, {}, {}, tell))
  BY <1>0, NothingCovers, SameNeedsCovers
<1>2. CASE m.kind = "ClientInvite"
  <2>1. ASSUME m.state \in {"Calling", "Proceeding"}
        PROVE  Covers(m, "none", ClientInviteOnProvisional(m, r))
    <3>1. Needs(Enter(m, "Proceeding")) = {}
      BY <1>2, EnterFields, NeedsOf
    <3> QED BY <1>1, <3>1, NoNeedsCovers DEF ClientInviteOnProvisional
  <2>2. Covers(m, "none", ClientInviteOnSuccess(m, r))
    BY TerminatedCovers DEF ClientInviteOnSuccess
  <2>3. Covers(m, "none", ClientInviteOnFailure(m, r))
    <3>1. Needs(Enter(m, "Completed")) = {"D"}
      BY <1>2, EnterFields, NeedsOf
    <3>2. Covers(m, "none", Outcome(Enter(m, "Completed"), {"ack"}, {},
                                    {Arm("D", Soak.D)}, <<Deliver(r)>>))
      BY <3>1, ArmedIds, ArmedCovers
    <3> QED BY <1>1, <3>2, TerminatedCovers DEF ClientInviteOnFailure
  <2> QED BY <1>1, <1>2, <2>1, <2>2, <2>3 DEF OnResponse, ClientInviteOnResponse
<1>3. CASE m.kind = "ClientNonInvite"
  <2>1. ASSUME m.state \in {"Trying", "Proceeding"}
        PROVE  Covers(m, "none", Outcome(Enter(m, "Proceeding"), {}, {}, {},
                                         <<Deliver(r)>>))
    <3>1. Needs(Enter(m, "Proceeding")) = Needs(m)
      BY <1>3, <2>1, EnterFields, NeedsOf
    <3> QED BY <1>0, <3>1, SameNeedsCovers
  <2>2. Covers(m, "none", ClientNonInviteComplete(m, r))
    <3>1. Needs(Enter(m, "Completed")) = {"K"}
      BY <1>3, EnterFields, NeedsOf
    <3>2. Covers(m, "none", Outcome(Enter(m, "Completed"), {}, {"E", "F"},
                                    {Arm("K", Soak.K)}, <<Deliver(r)>>))
      BY <3>1, ArmedIds, ArmedCovers
    <3> QED BY <3>2, TerminatedCovers DEF ClientNonInviteComplete
  <2> QED BY <1>1, <1>3, <2>1, <2>2 DEF OnResponse, ClientNonInviteOnResponse
<1> QED BY <1>1, <1>2, <1>3 DEF OnResponse

LEMMA RequestCovers ==
    ASSUME NEW m \in Tx, NEW method
    PROVE  Covers(m, "none", OnRequest(m, method))
<1>0. "none" \notin Needs(m)
  BY DEF Needs, Ending, Repeating
<1>1. /\ Covers(m, "none", Nothing(m))
      /\ \A send, tell : Covers(m, "none", Outcome(m, send, {}, {}, tell))
  BY <1>0, NothingCovers, SameNeedsCovers
<1>2. CASE m.kind = "ServerInvite"
  <2>1. Needs(Enter(m, "Confirmed")) = {"I"}
    BY <1>2, EnterFields, NeedsOf
  <2>2. Covers(m, "none", ServerInviteOnAck(m))
    BY <2>1, ArmedIds, ArmedCovers, TerminatedCovers DEF ServerInviteOnAck
  <2> QED BY <1>1, <1>2, <2>2 DEF OnRequest, ServerInviteOnRequest
<1>3. CASE m.kind # "ServerInvite"
  BY <1>1, <1>3 DEF OnRequest, ServerNonInviteOnRequest
<1> QED BY <1>2, <1>3

LEMMA SendCovers ==
    ASSUME NEW m \in Tx, NEW r \in Response
    PROVE  Covers(m, "none", SendResponse(m, r))
<1>0. "none" \notin Needs(m)
  BY DEF Needs, Ending, Repeating
<1>1. Covers(m, "none", Nothing(m))
  BY <1>0, NothingCovers
<1>2. CASE m.kind = "ServerInvite"
  <2>1. Needs(Store(m, "Proceeding", r)) = {}
    BY <1>2, StoreFields, NeedsOf
  <2>2. Needs(Store(m, "Completed", r)) =
            {"H"} \cup IF Reliable THEN {} ELSE {"G"}
    BY <1>2, StoreFields, NeedsOf
  <2>3. Covers(m, "none", ServerInviteSendFinal(m, r))
    BY <2>2, ArmedIds, ArmedCovers DEF ServerInviteSendFinal
  <2> QED BY <1>1, <1>2, <2>1, <2>3, NoNeedsCovers, TerminatedCovers
          DEF SendResponse, ServerInviteSendResponse
<1>3. CASE m.kind = "ServerNonInvite"
  <2>1. Needs(Store(m, "Proceeding", r)) = {}
    BY <1>3, StoreFields, NeedsOf
  <2>2. Needs(Store(m, "Completed", r)) = {"J"}
    BY <1>3, StoreFields, NeedsOf
  <2>3. Covers(m, "none", ServerNonInviteSendFinal(m, r))
    BY <2>2, ArmedIds, ArmedCovers, TerminatedCovers DEF ServerNonInviteSendFinal
  <2> QED BY <1>1, <1>3, <2>1, <2>3, NoNeedsCovers
          DEF SendResponse, ServerNonInviteSendResponse
<1> QED BY <1>1, <1>2, <1>3 DEF SendResponse

LEMMA TimerCovers ==
    ASSUME NEW m \in Tx, NEW id
    PROVE  Covers(m, id, OnTimer(m, id))
<1>0. ASSUME id \notin Needs(m) PROVE Covers(m, id, Nothing(m))
  BY <1>0, NothingCovers
<1>1. \A n, send, stop, arm, e :
          /\ Covers(m, id, Outcome(n, send, stop, arm, <<Terminated>>))
          /\ Covers(m, id, Outcome(n, send, stop, arm, <<e, Terminated>>))
  BY TerminatedCovers
<1>2. ASSUME NEW interval, NEW send
      PROVE  Covers(m, id, Outcome([m EXCEPT !.interval = interval], send, {},
                                   {Arm(id, interval)}, <<>>))
  <2> DEFINE n == [m EXCEPT !.interval = interval]
  <2>1. n.kind = m.kind /\ n.state = m.state
    BY DEF Tx
  <2>2. Needs(n) = Needs(m)
    BY <2>1 DEF Needs, Ending, Repeating
  <2> HIDE DEF n
  <2>3. Covers(m, id, Outcome(n, send, {}, {Arm(id, interval)}, <<>>))
    BY <2>2, ArmedIds, OutcomeFields DEF Covers, Armed
  <2> QED BY <2>3 DEF n
<1>3. CASE m.kind = "ClientInvite"
  BY <1>0, <1>1, <1>2, <1>3, NeedsOf DEF OnTimer, ClientInviteOnTimer
<1>4. CASE m.kind = "ClientNonInvite"
  BY <1>0, <1>1, <1>2, <1>4, NeedsOf
  DEF OnTimer, ClientNonInviteOnTimer, ClientNonInviteRetransmit
<1>5. CASE m.kind = "ServerInvite"
  BY <1>0, <1>1, <1>2, <1>5, NeedsOf DEF OnTimer, ServerInviteOnTimer
<1>6. CASE m.kind = "ServerNonInvite"
  BY <1>0, <1>1, <1>6, NeedsOf DEF OnTimer, ServerNonInviteOnTimer
<1>7. CASE m.kind = "none"
  BY <1>0, <1>7, NeedsOf DEF OnTimer
<1> QED BY <1>3, <1>4, <1>5, <1>6, <1>7 DEF Tx, Kind

\* An outcome that covers its machine's needs keeps them armed.
LEMMA ApplyCovers ==
    ASSUME TypeOK, NeedsArmed, NEW k \in Key, NEW out, NEW fired,
           NEW pending \in SUBSET sleepers, Apply(k, out, pending),
           \A s \in sleepers \ pending : s.key = k /\ s.id = fired,
           Covers(tx[k], fired, out)
    PROVE  NeedsArmed'
<1> SUFFICES ASSUME NEW j \in Key, NEW id \in Needs(tx'[j])
             PROVE  \E t \in sleepers' : t.key = j /\ t.id = id /\ t.fate = "armed"
  BY DEF NeedsArmed, ArmedFor, Needs, Ending, Repeating
<1>1. \A s \in pending : [s EXCEPT !.fate = Fate(s, k, out)] \in sleepers'
  BY DEF Apply
<1>2. \A s \in pending :
          LET t == [s EXCEPT !.fate = Fate(s, k, out)]
          IN  t.key = s.key /\ t.id = s.id /\ t.fate = Fate(s, k, out)
  BY DEF TypeOK, Sleeper
<1>3. CASE j # k
  <2>1. tx'[j] = tx[j]
    BY <1>3 DEF Apply, TypeOK
  <2>2. PICK s \in sleepers : s.key = j /\ s.id = id /\ s.fate = "armed"
    BY <2>1 DEF NeedsArmed, ArmedFor
  <2>3. s \in pending /\ Fate(s, k, out) = "armed"
    BY <1>3, <2>2 DEF Fate
  <2> QED BY <1>1, <1>2, <2>2, <2>3
<1>4. CASE j = k
  <2>1. ~Ends(out)
    <3>1. Ends(out) => Needs(tx'[k]) = {}
      BY NeedsOf DEF Apply, TypeOK, NoTx, Machine
    <3> QED BY <1>4, <3>1
  <2>2. tx'[k] = out.tx
    BY <2>1 DEF Apply, TypeOK
  <2>3. CASE id \in Armed(out)
    <3>1. PICK a \in out.arm : a.id = id
      BY <2>3 DEF Armed
    <3>2. [key |-> k, id |-> a.id, gen |-> gen[k][a.id] + 1, left |-> a.after,
           fate |-> "armed"] \in sleepers'
      BY <2>1 DEF Apply, Spawned
    <3> QED BY <1>4, <3>1, <3>2
  <2>4. CASE id \notin Armed(out)
    <3>1. id \in Needs(tx[k]) /\ id \notin out.stop /\ id # fired
      BY <1>4, <2>1, <2>2, <2>4 DEF Covers
    <3>2. PICK s \in sleepers : s.key = k /\ s.id = id /\ s.fate = "armed"
      BY <3>1 DEF NeedsArmed, ArmedFor
    <3>3. s \in pending /\ Fate(s, k, out) = "armed"
      BY <2>1, <2>4, <3>1, <3>2 DEF Fate
    <3> QED BY <1>1, <1>2, <1>4, <3>2, <3>3
  <2> QED BY <2>3, <2>4
<1> QED BY <1>3, <1>4

LEMMA NeedsArmedStep ==
    ASSUME TypeOK, SleepersSound, NeedsArmed, [Next]_vars
    PROVE  NeedsArmed'
<1>1. ASSUME NEW k \in Key, NEW out, Apply(k, out, sleepers),
             Covers(tx[k], "none", out)
      PROVE  NeedsArmed'
  <2>1. sleepers \in SUBSET sleepers
    OBVIOUS
  <2>2. \A s \in sleepers \ sleepers : s.key = k /\ s.id = "none"
    OBVIOUS
  <2> QED BY <1>1, <2>1, <2>2, ApplyCovers
<1>2. ASSUME NEW k \in Key PROVE tx[k] \in Tx
  BY DEF TypeOK
<1>3. ASSUME NEW k \in ClientKey, StartClient(k) PROVE NeedsArmed'
  <2>1. Covers(tx[k], "none", Start(k))
    BY StartCovers DEF Start
  <2> QED BY <1>1, <1>3, <2>1 DEF StartClient, Key
<1>4. ASSUME NEW k \in ClientKey, NEW r \in Response, ReceiveResponse(k, r)
      PROVE  NeedsArmed'
  BY <1>1, <1>2, <1>4, ResponseCovers DEF ReceiveResponse, Key
<1>5. ASSUME NEW k \in ServerKey, OpenServer(k) PROVE NeedsArmed'
  <2>1. Covers(tx[k], "none", Open(k))
    BY StartCovers DEF Open
  <2> QED BY <1>1, <1>5, <2>1 DEF OpenServer, Key
<1>6. ASSUME NEW k \in ServerKey, NEW method \in {"request", "ack"},
             ReceiveRequest(k, method)
      PROVE  NeedsArmed'
  BY <1>1, <1>2, <1>6, RequestCovers DEF ReceiveRequest, Key
<1>7. ASSUME NEW k \in ServerKey, NEW r \in Response, SendServerResponse(k, r)
      PROVE  NeedsArmed'
  BY <1>1, <1>2, <1>7, SendCovers DEF SendServerResponse, Key
<1>8. ASSUME NEW s \in sleepers, FireCurrent(s) PROVE NeedsArmed'
  <2>1. s.key \in Key /\ tx[s.key] \in Tx
    BY DEF TypeOK, Sleeper
  <2>2. Covers(tx[s.key], s.id, OnTimer(tx[s.key], s.id))
    BY <2>1, TimerCovers
  <2>3. \A t \in sleepers \ (sleepers \ {s}) : t.key = s.key /\ t.id = s.id
    OBVIOUS
  <2> QED BY <1>8, <2>1, <2>2, <2>3, ApplyCovers DEF FireCurrent
<1>9. ASSUME NEW s \in sleepers, FireStale(s) PROVE NeedsArmed'
  <2>1. s.fate # "armed"
    BY <1>9 DEF FireStale, Current, SleepersSound
  <2> QED BY <1>9, <2>1 DEF FireStale, NeedsArmed, ArmedFor, Needs, Ending, Repeating
<1>10. CASE Tick
  <2>1. \A s \in sleepers : /\ Aged(s).key = s.key /\ Aged(s).id = s.id
                            /\ Aged(s).fate = s.fate /\ Aged(s) \in sleepers'
    BY <1>10 DEF Tick, TypeOK, Sleeper, Aged
  <2>2. \A k \in Key : \A id \in Needs(tx[k]) :
            \E t \in sleepers' : t.key = k /\ t.id = id /\ t.fate = "armed"
    BY <2>1 DEF NeedsArmed, ArmedFor
  <2>3. tx' = tx
    BY <1>10 DEF Tick
  <2>4. \A k \in Key : \A id \in Needs(tx'[k]) :
            \E t \in sleepers' : t.key = k /\ t.id = id /\ t.fate = "armed"
    BY <2>2, <2>3
  <2> QED BY <2>4 DEF NeedsArmed, ArmedFor, Needs, Ending, Repeating
<1>11. CASE UNCHANGED vars
  BY <1>11 DEF vars, NeedsArmed, ArmedFor, Needs, Ending, Repeating
<1> QED BY <1>3, <1>4, <1>5, <1>6, <1>7, <1>8, <1>9, <1>10, <1>11 DEF Next

LEMMA NeedsArmedInvariant == Spec => [](SleepersSound /\ NeedsArmed)
<1>1. Init => NeedsArmed
  BY NeedsOf DEF Init, NeedsArmed, NoTx, Machine
<1>2. TypeOK /\ SleepersSound /\ NeedsArmed /\ [Next]_vars => NeedsArmed'
  BY NeedsArmedStep
<1> QED BY <1>1, <1>2, TypeCorrect, SoundInvariant, PTL DEF Spec

LEMMA NeedsLive ==
    ASSUME SleepersSound, NeedsArmed
    PROVE  \A k \in Key : \A id \in Needs(tx[k]) : Live(k, id)
BY DEF SleepersSound, NeedsArmed, ArmedFor, Live, Current

\* Every state that a timer must end has that timer pending and accepted: no
\* order of packets, commands and fires strands a transaction.
THEOREM WaitsAreGuarded == Spec => []Guarded
<1>1. SleepersSound /\ NeedsArmed => Guarded
  BY NeedsLive DEF Guarded, Needs
<1> QED BY <1>1, NeedsArmedInvariant, PTL

\* While a machine repeats its message, the next repetition is scheduled.
THEOREM RepetitionGoesOn == Spec => []Repeats
<1>1. SleepersSound /\ NeedsArmed => Repeats
  BY NeedsLive DEF Repeats, Needs
<1> QED BY <1>1, NeedsArmedInvariant, PTL


-----------------------------------------------------------------------------
(* The engine implements the transaction service.                          *)
(*                                                                         *)
(* An outcome moves the view of one key, and the event lists the machines  *)
(* use leave few moves that do not break the promise: those the service    *)
(* allows.  That no server transaction is waited for is an invariant of    *)
(* its own, since Fits speaks of machines and not of the side of their key.*)

Tellings ==
    {<<>>, <<Terminated>>, <<TimedOut, Terminated>>}
        \cup {<<Deliver(r)>> : r \in Response}
        \cup {<<Deliver(r), Terminated>> : r \in Response}

LEMMA ResponseTells ==
    ASSUME NEW m, NEW r \in Response
    PROVE  OnResponse(m, r).tell \in Tellings
BY DEF OnResponse, Tellings, Outcome, Nothing, ClientInviteOnResponse,
    ClientInviteOnProvisional, ClientInviteOnSuccess, ClientInviteOnFailure,
    ClientNonInviteOnResponse, ClientNonInviteComplete

LEMMA RequestTells ==
    ASSUME NEW m, NEW method
    PROVE  OnRequest(m, method).tell \in Tellings
BY DEF OnRequest, Tellings, Outcome, Nothing, ServerInviteOnRequest,
    ServerInviteOnAck, ServerNonInviteOnRequest, Replay

LEMMA SendTells ==
    ASSUME NEW m, NEW r
    PROVE  SendResponse(m, r).tell \in Tellings
BY DEF SendResponse, Tellings, Outcome, Nothing, ServerInviteSendResponse,
    ServerInviteSendFinal, ServerNonInviteSendResponse, ServerNonInviteSendFinal

LEMMA TimerTells ==
    ASSUME NEW m, NEW id
    PROVE  OnTimer(m, id).tell \in Tellings
BY DEF OnTimer, Tellings, Outcome, Nothing, Replay, ClientInviteOnTimer,
    ClientNonInviteOnTimer, ClientNonInviteRetransmit, ServerInviteOnTimer,
    ServerNonInviteOnTimer

\* What a view may become when a machine's outcome is heard.
LEMMA HeardFrom ==
    ASSUME NEW v \in View, NEW tell \in Tellings
    PROVE  \/ HearAll(v, tell) \in {v, "broken"}
           \/ v = "waiting" /\ HearAll(v, tell) \in {"answered", "closed"}
           \/ v \in {"answered", "serving"} /\ HearAll(v, tell) = "closed"
           \/ v = "expired"
<1>1. Hear("broken", Terminated) = "broken"
  BY DEF Hear, Terminated
<1>2. ASSUME NEW u \in View \ {"expired"}
      PROVE  Hear(u, Terminated)
                = IF u \in {"answered", "serving"} THEN "closed" ELSE "broken"
  BY <1>2 DEF Hear, Terminated, View
<1>3. ASSUME NEW u \in View
      PROVE  Hear(u, TimedOut)
                = IF u \in {"waiting", "serving"} THEN "expired" ELSE "broken"
  BY <1>3 DEF Hear, TimedOut, View
<1>4. ASSUME NEW r \in Response
      PROVE  IF v = "waiting" THEN Hear(v, Deliver(r)) \in {"waiting", "answered"}
                              ELSE Hear(v, Deliver(r)) = "broken"
  BY DEF Hear, Deliver, View
<1>5. Hear("expired", Terminated) = "closed"
  BY DEF Hear, Terminated
<1>6. CASE tell = <<>>
  BY <1>6 DEF HearAll
<1>7. CASE tell = <<Terminated>>
  BY <1>2, <1>7 DEF HearAll
<1>8. CASE tell = <<TimedOut, Terminated>>
  <2>1. HearAll(v, tell) = Hear(Hear(v, TimedOut), Terminated)
    BY <1>8 DEF HearAll
  <2> QED BY <2>1, <1>1, <1>3, <1>5
<1>9. ASSUME NEW r \in Response, tell = <<Deliver(r)>>
      PROVE  \/ HearAll(v, tell) \in {v, "broken"}
             \/ v = "waiting" /\ HearAll(v, tell) = "answered"
  <2>1. HearAll(v, tell) = Hear(v, Deliver(r))
    BY <1>9 DEF HearAll
  <2> QED BY <2>1, <1>4
<1>10. ASSUME NEW r \in Response, tell = <<Deliver(r), Terminated>>
       PROVE  \/ HearAll(v, tell) = "broken"
              \/ v = "waiting" /\ HearAll(v, tell) = "closed"
  <2>1. HearAll(v, tell) = Hear(Hear(v, Deliver(r)), Terminated)
    BY <1>10 DEF HearAll
  <2>2. {"waiting", "answered"} \subseteq View \ {"expired"}
    BY DEF View
  <2> QED BY <2>1, <2>2, <1>1, <1>2, <1>4
<1> QED BY <1>6, <1>7, <1>8, <1>9, <1>10 DEF Tellings

\* No server transaction is ever waited for.
ServersServe == \A k \in ServerKey : view[k] # "waiting"

\* An outcome of a key's machine moves its view as the service allows.
LEMMA OutcomeServes ==
    ASSUME TypeOK, AllFit, AllFit', ServersServe, NEW k \in Key,
           NEW tell \in Tellings, view' = [view EXCEPT ![k] = HearAll(@, tell)]
    PROVE  [Service!Next]_view /\ ServersServe'
<1> DEFINE v == view[k]
           w == HearAll(v, tell)
<1>1. v \in View /\ v # "expired" /\ v # "broken"
  BY DEF TypeOK, AllFit, Fits
<1>2. view'[k] = w /\ view' = [view EXCEPT ![k] = w]
  BY DEF TypeOK
<1>3. w # "broken"
  BY <1>2 DEF AllFit, Fits
<1>4. \/ w = v
      \/ v = "waiting" /\ w \in {"answered", "closed"}
      \/ v \in {"answered", "serving"} /\ w = "closed"
  <2> HIDE DEF v
  <2> QED BY <1>1, <1>3, HeardFrom
<1>5. v = "waiting" => k \in ClientKey
  BY DEF ServersServe, Key
<1>6. ServersServe'
  <2> HIDE DEF w
  <2> QED BY <1>2, <1>4 DEF ServersServe, TypeOK, Key
<1>7. w = v => UNCHANGED view
  <2> HIDE DEF w
  <2> QED BY <1>2 DEF TypeOK
<1>8. (v = "waiting" /\ w \in {"answered", "closed"}) => Service!Answer(k)
  BY <1>2 DEF Service!Answer, Service!Become
<1>9. (v \in {"answered", "serving"} /\ w = "closed") => Service!Close(k)
  BY <1>2 DEF Service!Close, Service!Become
<1> HIDE DEF v, w
<1>10. k \in ClientKey \/ k \in ServerKey
  BY DEF Key
<1> QED BY <1>4, <1>5, <1>6, <1>7, <1>8, <1>9, <1>10 DEF Service!Next

LEMMA ServiceStep ==
    ASSUME TypeOK, AllFit, AllFit', ServersServe, [Next]_vars
    PROVE  [Service!Next]_view /\ ServersServe'
<1>1. ASSUME NEW k \in ClientKey, StartClient(k)
      PROVE  Service!Begin(k) /\ ServersServe'
  BY <1>1, KeyAssumption
  DEF StartClient, Service!Begin, Service!Become, ServersServe, TypeOK, Key
<1>2. ASSUME NEW k \in ClientKey, NEW r \in Response, ReceiveResponse(k, r)
      PROVE  [Service!Next]_view /\ ServersServe'
  <2>1. k \in Key
    BY DEF Key
  <2>2. OnResponse(tx[k], r).tell \in Tellings
    BY ResponseTells
  <2> QED BY <1>2, <2>1, <2>2, OutcomeServes DEF ReceiveResponse
<1>3. ASSUME NEW k \in ServerKey, OpenServer(k)
      PROVE  Service!Serve(k) /\ ServersServe'
  <2>1. k \in Key
    BY DEF Key
  <2>2. view[k] \in {"idle", "closed"}
    BY <1>3, <2>1 DEF OpenServer, AllFit, Fits, NoTx, Machine, ClientKind
  <2>3. Open(k).tell = <<Request>>
    BY OutcomeFields DEF Open, ServerInviteStart, ServerNonInviteStart
  <2>4. HearAll(view[k], Open(k).tell) = "serving"
    BY <2>2, <2>3 DEF HearAll, Hear, Request
  <2>5. view' = [view EXCEPT ![k] = "serving"]
    BY <1>3, <2>4 DEF OpenServer
  <2> QED BY <2>1, <2>2, <2>5
      DEF Service!Serve, Service!Become, ServersServe, TypeOK, Key
<1>4. ASSUME NEW k \in ServerKey, NEW method \in {"request", "ack"},
             ReceiveRequest(k, method)
      PROVE  [Service!Next]_view /\ ServersServe'
  <2>1. k \in Key
    BY DEF Key
  <2>2. OnRequest(tx[k], method).tell \in Tellings
    BY RequestTells
  <2> QED BY <1>4, <2>1, <2>2, OutcomeServes DEF ReceiveRequest
<1>5. ASSUME NEW k \in ServerKey, NEW r \in Response, SendServerResponse(k, r)
      PROVE  [Service!Next]_view /\ ServersServe'
  <2>1. k \in Key
    BY DEF Key
  <2>2. SendResponse(tx[k], r).tell \in Tellings
    BY SendTells
  <2> QED BY <1>5, <2>1, <2>2, OutcomeServes DEF SendServerResponse
<1>6. ASSUME NEW s \in sleepers, FireCurrent(s)
      PROVE  [Service!Next]_view /\ ServersServe'
  <2>1. s.key \in Key
    BY DEF TypeOK, Sleeper
  <2>2. OnTimer(tx[s.key], s.id).tell \in Tellings
    BY TimerTells
  <2> QED BY <1>6, <2>1, <2>2, OutcomeServes DEF FireCurrent
<1>7. CASE (\E s \in sleepers : FireStale(s)) \/ Tick \/ UNCHANGED vars
  BY <1>7 DEF FireStale, Tick, vars, ServersServe
<1> QED BY <1>1, <1>2, <1>3, <1>4, <1>5, <1>6, <1>7 DEF Next, Service!Next

\* The steps of the engine, seen through what the TU has heard, are steps of
\* the service; that a transaction is closed in the end is left to fairness.
THEOREM EveryStepServes == Spec => Service!Init /\ [][Service!Next]_view
<1>1. Init => Service!Init /\ ServersServe
  BY DEF Init, Service!Init, Key, ServersServe
<1>2. TypeOK /\ AllFit /\ AllFit' /\ ServersServe /\ [Next]_vars
          => [Service!Next]_view /\ ServersServe'
  BY ServiceStep
<1> QED BY <1>1, <1>2, TypeCorrect, AllFitInvariant, PTL DEF Spec

-----------------------------------------------------------------------------
(* Sleepers of a transaction that is gone.                                 *)
(*                                                                         *)
(* OrphanIsStale fails when the peer uses a branch again.  If it never     *)
(* does, the key of an orphaned sleeper is out of use for good, and        *)
(* on_timer_fire ignores the sleeper as its comment says.                  *)

\* The transaction of this key has ended, and there will be no other.
Gone(k) ==
    /\ tx[k] = NoTx /\ gen[k] = NoTimers /\ view[k] = "closed"
    /\ k \in ServerKey => opens[k] >= 1

UsedOnce ==
    /\ \A s \in sleepers : s.fate = "orphaned" => Gone(s.key)
    /\ \A k \in ServerKey : tx[k] # NoTx => opens[k] >= 1

\* An outcome of a key without orphans orphans sleepers only by ending it.
LEMMA ApplyOnce ==
    ASSUME TypeOK, UsedOnce, NEW k \in Key, NEW out,
           NEW pending \in SUBSET sleepers, Apply(k, out, pending),
           \A s \in sleepers : s.fate = "orphaned" => s.key # k,
           \A j \in Key : j # k => view'[j] = view[j],
           \A j \in ServerKey : j # k => opens'[j] = opens[j],
           Ends(out) => view'[k] = "closed",
           k \in ServerKey /\ (Ends(out) \/ out.tx # NoTx) => opens'[k] >= 1
    PROVE  UsedOnce'
<1>1. /\ tx'[k] = IF Ends(out) THEN NoTx ELSE out.tx
      /\ Ends(out) => gen'[k] = NoTimers
      /\ \A j \in Key : j # k => tx'[j] = tx[j] /\ gen'[j] = gen[j]
  BY DEF Apply, TypeOK
<1>2. ASSUME NEW t \in sleepers', t.fate = "orphaned" PROVE Gone(t.key)'
  <2>1. t \notin Spawned(k, out)
    BY <1>2 DEF Spawned
  <2>2. PICK s \in pending : t = [s EXCEPT !.fate = Fate(s, k, out)]
    BY <1>2, <2>1 DEF Apply
  <2>3. s \in sleepers /\ s \in Sleeper
    BY <2>2 DEF TypeOK
  <2>4. t.key = s.key /\ t.fate = Fate(s, k, out) /\ s.key \in Key
    BY <2>2, <2>3 DEF Sleeper
  <2>5. CASE s.key # k
    <3>1. s.fate = "orphaned"
      BY <1>2, <2>4, <2>5 DEF Fate
    <3>2. Gone(s.key)
      BY <2>3, <3>1 DEF UsedOnce
    <3> QED BY <1>1, <2>4, <2>5, <3>2 DEF Gone
  <2>6. CASE s.key = k
    <3>1. s.fate # "orphaned"
      BY <2>3, <2>6
    <3>2. Ends(out)
      BY <1>2, <2>4, <2>6, <3>1 DEF Fate
    <3> QED BY <1>1, <2>4, <2>6, <3>2 DEF Gone
  <2> QED BY <2>5, <2>6
<1>3. ASSUME NEW j \in ServerKey, tx'[j] # NoTx PROVE opens'[j] >= 1
  <2>1. j \in Key
    BY DEF Key
  <2> QED BY <1>1, <1>3, <2>1 DEF UsedOnce
<1> QED BY <1>2, <1>3 DEF UsedOnce

\* The outcome of a machine in the table: its key has no orphans, and was opened.
LEMMA TransactionOnce ==
    ASSUME TypeOK, UsedOnce, NEW k \in Key, NEW out, tx[k] # NoTx,
           NEW pending \in SUBSET sleepers, Apply(k, out, pending),
           KeepsFit(view[k], out), UNCHANGED opens,
           view' = [view EXCEPT ![k] = HearAll(@, out.tell)]
    PROVE  UsedOnce'
<1>1. \A s \in sleepers : s.fate = "orphaned" => s.key # k
  BY DEF UsedOnce, Gone
<1>2. /\ \A j \in Key : j # k => view'[j] = view[j]
      /\ Ends(out) => view'[k] = "closed"
  BY DEF TypeOK, KeepsFit
<1>3. k \in ServerKey => opens'[k] >= 1
  BY DEF UsedOnce
<1> QED BY <1>1, <1>2, <1>3, ApplyOnce

LEMMA UsedOnceStep ==
    ASSUME MaxOpens <= 1, TypeOK, SleepersSound, AllFit, UsedOnce, [Next]_vars
    PROVE  UsedOnce'
<1>1. ASSUME NEW k \in ClientKey, StartClient(k) PROVE UsedOnce'
  <2>1. k \in Key /\ k \notin ServerKey
    BY KeyAssumption DEF Key
  <2>2. ~Ends(Start(k))
    BY OutcomeFields, TellNone DEF Start, ClientInviteStart, ClientNonInviteStart
  <2>3. \A s \in sleepers : s.fate = "orphaned" => s.key # k
    BY <1>1 DEF StartClient, UsedOnce, Gone
  <2>4. /\ \A j \in Key : j # k => view'[j] = view[j]
        /\ \A j \in ServerKey : j # k => opens'[j] = opens[j]
    BY <1>1 DEF StartClient, TypeOK
  <2> QED BY <1>1, <2>1, <2>2, <2>3, <2>4, ApplyOnce DEF StartClient
<1>2. ASSUME NEW k \in ClientKey, NEW r \in Response, ReceiveResponse(k, r)
      PROVE  UsedOnce'
  <2>1. k \in Key /\ tx[k] \in Tx
    BY DEF Key, TypeOK
  <2>2. KeepsFit(view[k], OnResponse(tx[k], r))
    BY <2>1, ResponseFits DEF AllFit
  <2> QED BY <1>2, <2>1, <2>2, TransactionOnce DEF ReceiveResponse
<1>3. ASSUME NEW k \in ServerKey, OpenServer(k) PROVE UsedOnce'
  <2>1. k \in Key /\ opens[k] \in Nat
    BY DEF Key, TypeOK
  <2>2. ~Ends(Open(k))
    <3>1. Open(k).tell = <<Request>>
      BY OutcomeFields DEF Open, ServerInviteStart, ServerNonInviteStart
    <3>2. Request # Terminated
      BY DEF Request, Terminated
    <3> QED BY <3>1, <3>2 DEF Ends
  <2>3. \A s \in sleepers : s.fate = "orphaned" => s.key # k
    BY <1>3, <2>1, KeyAssumption DEF OpenServer, UsedOnce, Gone
  <2>4. /\ \A j \in Key : j # k => view'[j] = view[j]
        /\ \A j \in ServerKey : j # k => opens'[j] = opens[j]
        /\ opens'[k] = opens[k] + 1
    BY <1>3 DEF OpenServer, TypeOK
  <2>5. opens'[k] >= 1
    BY <2>1, <2>4
  <2> QED BY <1>3, <2>1, <2>2, <2>3, <2>4, <2>5, ApplyOnce DEF OpenServer
<1>4. ASSUME NEW k \in ServerKey, NEW method \in {"request", "ack"},
             ReceiveRequest(k, method)
      PROVE  UsedOnce'
  <2>1. k \in Key /\ tx[k] \in Tx
    BY DEF Key, TypeOK
  <2>2. KeepsFit(view[k], OnRequest(tx[k], method))
    BY <2>1, RequestFits DEF AllFit
  <2> QED BY <1>4, <2>1, <2>2, TransactionOnce DEF ReceiveRequest
<1>5. ASSUME NEW k \in ServerKey, NEW r \in Response, SendServerResponse(k, r)
      PROVE  UsedOnce'
  <2>1. k \in Key /\ tx[k] \in Tx
    BY DEF Key, TypeOK
  <2>2. KeepsFit(view[k], SendResponse(tx[k], r))
    BY <2>1, SendFits DEF AllFit
  <2> QED BY <1>5, <2>1, <2>2, TransactionOnce DEF SendServerResponse
<1>6. ASSUME NEW s \in sleepers, FireCurrent(s) PROVE UsedOnce'
  <2>1. s.key \in Key /\ tx[s.key] \in Tx /\ s.id \in TimerId
    BY DEF TypeOK, Sleeper
  <2>2. KeepsFit(view[s.key], OnTimer(tx[s.key], s.id))
    BY <2>1, TimerFits DEF AllFit
  <2>3. CASE tx[s.key] # NoTx
    BY <1>6, <2>1, <2>2, <2>3, TransactionOnce DEF FireCurrent
  <2>4. CASE tx[s.key] = NoTx
    <3>1. OnTimer(tx[s.key], s.id) = Nothing(tx[s.key])
      BY <2>4 DEF OnTimer, NoTx, Machine
    <3>2. ~Ends(OnTimer(tx[s.key], s.id)) /\ OnTimer(tx[s.key], s.id).tx = NoTx
      BY <2>4, <3>1, OutcomeFields, TellNone DEF Nothing
    <3>3. gen[s.key] # NoTimers
      BY <1>6, <2>1 DEF FireCurrent, Current, NoTimers, SleepersSound
    <3>4. \A t \in sleepers : t.fate = "orphaned" => t.key # s.key
      BY <3>3 DEF UsedOnce, Gone
    <3>5. /\ \A j \in Key : j # s.key => view'[j] = view[j]
          /\ \A j \in ServerKey : opens'[j] = opens[j]
      BY <1>6 DEF FireCurrent, TypeOK
    <3> QED BY <1>6, <2>1, <3>2, <3>4, <3>5, ApplyOnce DEF FireCurrent
  <2> QED BY <2>3, <2>4
<1>7. CASE \E s \in sleepers : FireStale(s)
  BY <1>7 DEF FireStale, UsedOnce, Gone
<1>8. CASE Tick
  <2>1. \A s \in sleepers : Aged(s).key = s.key /\ Aged(s).fate = s.fate
    BY DEF TypeOK, Sleeper, Aged
  <2> QED BY <1>8, <2>1 DEF Tick, UsedOnce, Gone
<1>9. CASE UNCHANGED vars
  BY <1>9 DEF vars, UsedOnce, Gone
<1> QED BY <1>1, <1>2, <1>3, <1>4, <1>5, <1>6, <1>7, <1>8, <1>9 DEF Next

\* Where no branch is used again (RFC 3261 asks that of the peer), a timer whose
\* transaction is already gone is ignored, as engine.rs says of on_timer_fire:
\* reuse is all that OrphanIsStale can fail for.
THEOREM OrphansStaleUnlessReused ==
    ASSUME MaxOpens <= 1
    PROVE  Spec => []OrphanIsStale
<1>1. Init => UsedOnce
  BY DEF Init, UsedOnce, Key
<1>2. TypeOK /\ SleepersSound /\ AllFit /\ UsedOnce /\ [Next]_vars => UsedOnce'
  BY UsedOnceStep
<1>3. TypeOK /\ SleepersSound /\ UsedOnce => OrphanIsStale
  BY DEF TypeOK, Sleeper, SleepersSound, UsedOnce, Gone, NoTimers, OrphanIsStale,
         Current
<1> QED BY <1>1, <1>2, <1>3, TypeCorrect, SoundInvariant, AllFitInvariant, PTL
    DEF Spec

=============================================================================
