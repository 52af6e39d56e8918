# A verification project for wavekat-sip

TLA+ models of the SIP stack in `src/crates/wavekat-sip/src`, TLC
configurations that check them on small instances, and TLAPS proofs of what
matters most for every value of the constants. `PROJECT.json` maps each
definition to the lines it models and lists the runs, the faults each property
detects, the hazards of the code and the theorems.

Run `tlc -config X.cfg M` for a run of section 4 and `tlapm M.tla` for a module
of section 5.

## 1. The system

wavekat-sip is a SIP user agent and RTP library. Its tasks talk over bounded
tokio channels and share a few maps and mutexes:

```
 application tasks                    one task per endpoint        one task per engine
 Registrar / Caller / Call   --cmd(64)-->                          Engine::run
 IncomingCall                                                      select: cancel, message,
      ^      ^                                                     timer, cmd (biased)
      |      |  calls(16)        incoming(32)      event(64)          |   ^     ^
      |      +--- route_inbound <----- router <-----------------------+   |     | timer(256)
      |      |      |                    |                                |     sleepers (one
      |      +------+ a call's stream(16)                                 |     task per timer)
      +------- per-flow channel(16) <----+        read task, pinger, write mutex (TCP, TLS)
```

| Component | State it keeps | Operations | What is hard | What makes it correct |
|---|---|---|---|---|
| Transaction machines `stack/transaction/*` | a state, timer interval, last responses | start, on_response, on_request, send_response, on_timer | retransmission, duplicates, acknowledgements that cannot be built | one outcome per transaction; every wait is bounded by a timer; messages repeat until answered |
| Engine `stack/engine.rs` | table of transactions, timer generations; detached sleepers | four select arms, `apply` | a fired timer racing its stop; keys used again | a stopped timer never fires; the table entry is released |
| UA flows and router `stack/ua.rs` | subscriptions by key | register, query, call with CANCEL, re-INVITE, BYE, INFO, REFER | bounded channels in a cycle; cancel against answer | each flow ends; no request is lost on its way |
| Registrar `registrar.rs`, `stack/registration.rs`, `stack/auth.rs` | CSeq, learnt floor, granted lifetime; diagnostics | register, unregister, probe, keepalive loop | the lock is free while a REGISTER is on the wire; challenges and 423; late arrivals | CSeqs grow; the state holds the lifetime granted; no endless retry; the loop stops |
| Endpoint `endpoint.rs` | registries: undecided INVITEs, established calls, opted-in dialogs | route_inbound, next_incoming_call, register/unregister | CANCEL and BYE between any two steps of the application; full channels | one final response; cancelled and ended calls are reported |
| Inbound call `callee.rs` | key, token, tag | ring, accept, reject, drop | as above | as above |
| In-dialog requests `inbound.rs` | a call's stream and its registry entry | opt in, take, respond, drop | the drop has two steps; a stream nobody reads | every request settled once |
| Caller and Call `caller.rs` | dialog behind a mutex, hold state, SDP version | dial, hold, transfer, hangup, session handle | an in-dialog request holds the mutex until answered | a call can be hung up; nothing is left established at the peer only |
| Dialog, builders `stack/dialog.rs`, `call.rs`, `response.rs` | local CSeq, route set, targets | build in-dialog requests, ACK, CANCEL, responses | two ends read one Record-Route from opposite sides | each message reaches what it is for |
| Session timer `session_timer.rs` | interval, deadline | refresher and watchdog loops, negotiation | timeout read as "dialog gone"; refreshes answered elsewhere | exactly one side refreshes, in time; a dead dialog is hung up |
| Stream transport `stack/stream.rs`, `keepalive.rs`, `framing.rs` | framer buffer, keepalive counter, close token | read task, send, pinger | a reader blocked on a full queue counts no pongs; any split of the bytes | framing does not depend on the split; only a dead connection is judged dead, and then all ends |
| Server location, TLS, account `resolve.rs`, `stack/tls.rs`, `transport.rs`, `account.rs` | the candidates, the verdict on a certificate | location_plan, SRV walk, fallbacks, handshake | partial answers of DNS; what an error blames | the right server, the right certificate, the right reason |
| SDP `sdp.rs` | none | parse, select, build | payload-type numbers of two parties | the answer is within the offer; both ends go by the same media |
| DTMF over RTP `rtp/dtmf.rs`, `dtmf_recv.rs`, RTP `rtp/mod.rs` | current press; sequence numbers, timestamps | send a burst, push a packet | loss, reordering, wrap-around, new streams | at most one press and one release per key, in order |

## 2. Plan

The modules were written in this order, the behaviour that everything else
rests on first:

1. **Transactions, Engine, TransactionService** - every flow rests on them.
2. **Registrar** - shared by several tasks for the life of the application.
3. **InboundCall** - the endpoint's router against accept and reject.
4. **SessionTimer, Session** - an established call, two parties on one Dialog.
5. **OutboundCall**, then **Messages** and **Signalling** - a dial, and where
   its messages go.
6. **Sdp, Keypad, DtmfRtp, Media** - what a call agrees on, and keys over it.
7. **Locate, Stream, Fifo, Connection** - from an account to a connection, and
   its life.
8. **Routing** - the bounded channels of all tasks, as a composition whose
   questions are loss and deadlock.

Compositions: Engine over Transactions; Session over SessionTimer; Signalling
over OutboundCall and Messages; Media over Sdp and DtmfRtp; Connection over
Locate and Stream. Abstract specifications: TransactionService (implemented by
Engine), Keypad (by Media), Fifo (by Connection). What would come next: time in
Session, so that the watchdog's deadline and its notifications can be told apart;
the endpoint's shutdown; more events of a call as requests in Routing.

## 3. Modules

**Transactions** has no variables: each machine is a group of operators from a
machine record and an input to an *outcome* (the next machine, what it sends, which
timers it stops and arms, what it tells the TU), the `Vec<TxAction>` of the source.
Events keep their order; sends and timers are sets, since nothing depends on
their order within one step. `Timeout` is 64*T1 in the code and
`TimeoutFactor`*T1 here.

**Engine** is the task that owns the table. One action per arm of the select
loop and input: StartClient, SendServerResponse, ReceiveResponse, OpenServer,
ReceiveRequest, FireCurrent, FireStale, and Tick for time. A sleeper is a record
with its generation, as in the source it is a task nobody cancels. `wire` is the
set of messages ever sent: the network loses, copies and reorders. A response
can only arrive for a request that was sent and an ACK only after a failure was.
`view` and `opens` are history: what a TU makes of the events, and how often a
server key opened. `Tick` waits for elapsed sleepers, so a clock instant ends
only when its timers have been handled; an elapsed sleeper may still be overtaken by
any message or command, which is the race the generations are for. Executing a
command or delivering an event takes no time of its own.

**TransactionService** is the abstract specification: a client transaction is
answered once or expires once, then closed; a server transaction is served and
closed; an answered transaction is eventually closed. Engine implements it with
`view` as the mapping.

**Registrar** has one record per task: the operation, its step, what the attempt
carries. The steps are those between which the code releases the lock or
awaits: Begin, TakeCSeq, Send, Receive (with the challenge's Retry inside),
TimeOut, Disconnected, Carry, Settle. The far end is external: it may challenge,
refuse a lifetime below its minimum with 423, grant any lifetime, fail or say
nothing, in any order and late; it remembers the highest CSeq it accepted
for the Call-ID and ignores smaller ones (RFC 3261 section 10.3), and it names the
lifetime it grants in the `Expires` of its 200 or only in the Contact there, which the
code does not read. Diagnostics (counters, times, last
error) are left out: nothing reads them back.

**InboundCall** has the router task with its steps between awaits, the two
registries, the channel of new calls, the queue of answers, and the application's
dealings with each call. The engine appears only as the server INVITE sees it:
what is sent before the first final response goes out, what comes after is
dropped. The peer is external. Left out: requests inside a dialog other than
BYE (Routing has them), engine shutdown, retransmitted INVITEs, and the 200s to
CANCEL and BYE, which touch no other state.

**SessionTimer** has no variables: the negotiation of both sides
(`negotiate_uac`, `negotiate_uas`) and the two delays. A header is an interval
and a refresher; absent and malformed are the same.

**Session** starts when a call is set up. Two parties, the application and the
loop of the session timer, send requests on one Dialog. `mutex` is the FIFO queue of
tokio's mutex, its head the holder, and the guard is held from Start to the
final result, as in `Call::set_hold` and `CallSession::refresh`. Ask queues an
operation of the application, Wake the loop's refresh or BYE; HearFinal, NoAnswer and
StartFails return a result and do what the party does with it (AppReturns,
LoopGoesOn). A request may time out, except that Timer B stops at a re-INVITE's
provisional response. The far end takes, refuses or rings for a re-INVITE, may grant
another interval, and may hang up; it, or a proxy before it, may refuse any
request. `doubt` is history: a hold whose answer never came leaves the two sides
unsure. Left out: time (a sleep may end at any moment), refreshes and other
requests by the far end, the SDP version, the route set (Messages has it).
`body` is the loop's `refresh_body`, chosen once with the call: no SDP, or the one the
call was set up with. `far.offer` is the re-INVITE whose offer the far end goes by.

**OutboundCall** is `Caller::dial` and `Ua::call_cancellable` for one call:
StartInvite, HearProvisional and Inform (the send on the progress channel, during
which nothing else is watched), NoticeCancel, HearFinal, Retry for the first
challenge, FlowClosed. The flags of the cancellation are those of
`await_final_cancellable`, made anew for each INVITE. The engine appears as one
client INVITE machine per attempt and the flow's bounded channel; the peer may
ring, answer with a usable or unusable 2xx, challenge, refuse, or end a cancelled
INVITE with 487, and its responses may be late, lost and repeated. A dial future that
the application drops is left out.

**Messages** has no variables: the builders and readers of a call's messages -
INVITE, CANCEL, the answered challenge, both kinds of ACK, responses, the dialog
made from either side, the requests in it, and the transaction keys. A message is
what decides where it goes: method, Request-URI, top Via, tags, CSeq, Contact,
Record-Route, Route, credentials. **Signalling** composes it with OutboundCall: for
what a dial has sent in a state, every path of up to two recording proxies and
every transport, it asks where the messages arrive.

**Sdp** has no variables: what a body says of its payload types (`parse_sdp`), the
choice of codec and keypad (`select_codec`, `select_dtmf`), the bodies written
(`build_sdp_with`). **DtmfRtp** is the burst of `send_dtmf` packet by packet beside
the sender of audio, a network that loses, repeats and reorders, and
`DtmfReceiver`; durations and timestamps are modulo their width, `at` and `press` of
a packet are history. A receiver can order two timestamps only when they are less than
half the field apart, so its network neither keeps a packet for that long (`Fresh`)
nor loses all packets of the presses that follow the one heard last for that long
(`Near`): 12 hours at 48 kHz. **Keypad** is what they promise: of each press the far end hears
at most once that it was made, in order, and at most once its release, with the key and
the length. A length is in ticks of the clock the receiver has negotiated (160 in 20 ms
at 8 kHz, 960 at 48 kHz). **Media** composes them: an offer and answer between this crate and
itself, or another implementation on either side, then presses over the line that
was agreed. An offer that moves G.711 to a number of its own and puts its telephone-event on
the static one gets an answer that would need that number twice; the codec wins, there is
no keypad, and AnswerFits and EndsAgree name the case (`Clash`).

**Locate** is `SipEndpoint::new` up to a transport: the plan from the account, the
SRV records in the order of priority and weighted choice, the walk over targets that
do not resolve, the fallbacks, the route lookup, connecting, and the judgement of a
certificate under the account's policy. A certificate is an identity, names and a set of
faults; DNS is external. **Stream** is one TCP or TLS connection: the read task with
framer and bounded queue, the write half behind the mutex that engine and pinger share,
the pinger, the close token. A byte is a token, so a read may split anything.
**Fifo** is what it promises the engine. **Connection** composes the two.

**Routing** is the way of an inbound request over every bounded channel: engine,
events, router, incoming, `route_inbound`, the channel of new calls, an opted-in
call's stream with the two steps of its drop, and the answer back over the
commands. A request is its kind; an event that is not a request takes room among the
events and nothing else. A flow's own channel is taken as read.

The MC modules name the instances. Each fault operator (`X_Fault` before `X`)
is a plausible mistake in `X`; a run with `X` replaced by it must fail. They are
never used by the specifications.

## 4. Runs

| Run | Instance | What it shows |
|---|---|---|
| engine_udp | MCEngine, all four machines in slices (below), UDP, fair | TypeOK, Conforms, Guarded, Repeats, CancelledIsStale, refinement of TransactionService, EveryWaitEnds |
| engine_orphan_timer | a server INVITE opened twice, the code's 64*T1 | *violated*: OrphanIsStale |
| registrar_serial | keepalive and application taking turns, one operation each, two floors, fair | FreshCSeq, InSync, UnregisterSticks, RetriesBounded, OperationsEnd, KeepaliveStops |
| inbound_calls | two calls, channel of one, fair | OneFinal, CancelledTold, CancelResolves |
| inbound_queued_cancel | one call | *violated*: CancelHeard |
| inbound_early_bye | one call | *violated*: ByeHeard |
| session | a call made (we refresh, without SDP or with the set-up's) and a call taken (the far end does), one grant, three requests, fair | TypeOK, AwaitedIsNewest, HoldAgrees, HungUpIsDown, RefreshInTime, RequestsEnd, LoopStops |
| session_refresh_times_out | a call made | *violated*: StandsDown |
| outbound_call | Signalling: flow channel of two, progress channel of one, two proxies, fair | CancelFits, ConfirmedIsKept, SignalsMeet, CancelEnds |
| media | every offer of up to three payload types or ours; two presses, two streams | AnswerFits, EndsAgree, PressesToldApart, refinement of Keypad |
| connection | every account and answer of DNS, then two items in any reads | LocationSound, CertificatesJudged, FramedAsSent, FairVerdict, refinement of Fifo, ConnectionEnds |
| routing | five events, every channel of one, fair | NoneLost, JamTakesAll, Settles |

**Bounds, and why they are enough.**

- *engine_udp.* T1 = 1, T2 = 2, T4 = 3 and a timeout of 6 keep what the code's
  500 ms, 4 s, 5 s and 32 s tell apart: the interval doubles, reaches its cap, and
  repeats at the cap before the timeout. Responses: one of each class, and one
  failure that cannot be acknowledged. `Slice` lets one key run alone and be opened
  twice (the least that lets a sleeper meet a later transaction), or the two
  INVITE keys or the two others beside each other. Transactions share nothing but
  the timer queue, and the proofs cover any number of them and both kinds of transport;
  the reliable transport is not run.
- *registrar_serial.* Two tasks with one operation each let an unregister or a probe
  follow a registration that was challenged, refused with 423 or unanswered; two floors
  let a registrar raise its minimum under the client.
- *inbound_calls.* One place in the channel and two calls make the router block with
  another call's CANCEL behind it.
- *session.* Three requests are a hold, its undoing and a refresh, or a refused
  refresh, its BYE and a hangup, with both parties in the queue; the interval of
  1800 s and the grant of 90 s have the same roles as any others, which is a theorem.
- *outbound_call.* Two INVITEs are all the code makes; one place for progress makes
  the dial wait for its listener, two for events keep a provisional behind another one
  and let the engine wait for the flow. Two proxies are the least that have an order.
- *media.* Three payload types, out of the two static and two dynamic numbers named in
  six ways, put any codec before, after or without each other one and a keypad at a
  matching or a foreign clock. Two presses in two streams, timestamps of 32 values with
  half of them behind, starting at 5 and at 29: the second start wraps within the first
  press. Holds of one and two packets and durations up to 3 saturate the duration.
- *connection.* Two items are messages or keepalives, the last perhaps unsized, garbled
  or endless, with a queue of one, so that the reader waits behind the first; `ReadChunk` 8 and
  `MaxHeader` 7 tokens leave room for a head and a body in one read, and for a head that
  is too long. Two SRV records of two priorities and two weights show every order.
- *routing.* With every channel at one place, five events are what JamTakesAll names
  as the fewest that can jam the way, so the jam is reached.

`MaxOpens`, `MaxOps`, `Room`, `MaxSeq`, `FlowRoom`, `ProgressRoom`, `MaxPresses`,
`MaxStreams`, `MaxItems`, `MaxEvents` and the rooms of Routing are the only bounds
besides the instance sets.

Deadlock checking is off in all runs: transactions, operations, calls, items and
events are bounded by the instance and everything may come to rest; a deadlock that
matters is asked for by a liveness property (EveryWaitEnds, OperationsEnd,
CancelResolves, RequestsEnd, CancelEnds, ConnectionEnds, Settles).

**Fairness.**

- *Engine*: time passes and the engine handles fired timers, which is its select
  loop. The select is biased, so this assumes that messages pause now and then.
- *Registrar*: a task that can run does, and an awaited transaction ends, which is
  Engine's EveryWaitEnds (Timer F).
- *InboundCall*: the router and the engine run, accept and reject run to their end, and
  the application keeps calling next_incoming_call.
- *Session*: tasks that can run do, a request is answered or times out, and the far end
  decides on a re-INVITE it rang for (the code has no timer there: see section 6).
- *OutboundCall*: the dial runs and its progress is read, or dropped; Timer B fires; a
  peer heeds the CANCEL, and a final response, which it repeats, gets through in the
  end. NoticeCancel is strongly fair because informing the listener takes the task away
  from the select again and again.
- *Media*: none; KeysHeard is the safety of Keypad, and every packet may be lost.
- *Connection*: every task is scheduled; tokio's mutex serves its waiters in turn, so
  taking it is strongly fair, and so is what a select reaches only when other arms let
  it (a stop, a read from the queue). A write ends one way or the other: the peer reads,
  or TCP gives up.
- *Routing*: every task is scheduled and channels serve senders in turn. Arrivals are
  bounded, so the biased select reaches the commands; the application reads the calls and
  the stream it opened, and decides.

Nothing else obliges the network, the peer, the far end or a shutdown to act.

### What the violated runs show

- **engine_orphan_timer** - generations live in the table entry and restart at
  zero with it. A sleeper of a finished server transaction is taken for the new
  one's when the peer opens the same branch again: Timer H of a call that was
  rejected and acknowledged may end the next one early.
- **inbound_queued_cancel** - an INVITE is registered for CANCEL only when the
  application takes it from the channel; a CANCEL before that is forgotten.
- **inbound_early_bye** - accept sends the 200 before the Call registers for
  BYE; a BYE between the two is answered and forgotten, and `terminated` never fires.
- **session_refresh_times_out** - `CallSession::refresh` returns `Ok(None)` for a
  re-INVITE that timed out, which the loop reads as "the dialog is gone already": it
  ends without the BYE that a refused refresh gets, while the far end may be up.

## 5. Proofs

All by tlapm, for any constants that meet the named assumptions
(`TimersAssumption`, `ResponseAssumption`, `KeyAssumption`, `RegistrarAssumption`,
`InboundAssumption`, `SessionAssumption`, `OutboundAssumption`,
`RoutingAssumption`, `AnswerAssumption`, `CertAssumption`, `StreamAssumption`,
`NoneAssumption`, `MediaAssumption`, `DtmfAssumption`) and what a theorem names itself.
Each is stated where its constants are declared and evaluated in the runs. Every safety
property a passing run checks, invariant, action property or refinement, is a theorem.

**EngineProofs**

- *TypeCorrect*: `Spec => []TypeOK`. Each machine operator returns a typed
  outcome; `Apply` keeps the types.
- *OneOutcome*: `Spec => []Conforms`. Conforms alone is not inductive: a machine
  that has answered could answer again. `AllFit` relates each machine's state to
  the TU's view (a waiting client is Calling, Trying or Proceeding; one in Completed
  has been answered; a free entry is idle or closed), and every outcome keeps the
  fit.
- *CancelledTimersStale*: `Spec => []CancelledIsStale`, from `SleepersSound`: an
  armed sleeper carries its timer's present generation, a cancelled one a smaller
  one.
- *WaitsAreGuarded* and *RepetitionGoesOn*: from `SleepersSound` and
  `NeedsArmed`, which says that each timer a state needs has an armed sleeper. The core is
  `Covers`: the next state needs only timers that the step arms, or that were
  needed and neither stopped nor just fired.
- *EveryStepServes*: the safety part of ImplementsService,
  `Spec => Service!Init /\ [][Service!Next]_view`. The machines tell the TU one of five
  lists of events (`Tellings`); heard from a view that fits, and unless it breaks the
  promise, each moves one key as TransactionService allows. `ServersServe` adds that no
  server transaction is waited for.
- *OrphansStaleUnlessReused*: if a peer uses no branch again (`MaxOpens <= 1`),
  `Spec => []OrphanIsStale`, from `UsedOnce`: the key of an orphaned sleeper is out of use for
  good. So reuse is all that the run engine_orphan_timer shows the code to be exposed to.

**RegistrarProofs**

- *RegistrarTypes*: `Spec => []TypeOK`.
- *NumbersOnlyGrow*: if tasks take turns (`Overlap = FALSE`), `Spec => []FreshCSeq`.
  FreshCSeq says nothing of numbers not on the wire yet, so it is strengthened with
  `OneBusy` (one task at a time) and `Numbered` (all numbers sent are at most the
  busy task's number or, when none holds one, the state's). The premise is needed:
  see section 6.

The next three are for tasks that take turns as well.

- *LifetimesAgree*: `Spec => []InSync`, and *UnregisteringSticks*:
  `Spec => []UnregisterSticks`. A 200 need not name the lifetime in `Expires`: InSync says
  that the state then holds what was asked for, and otherwise what the registrar keeps the
  binding for. The key is `Heard`: once the far end has answered the
  newest REGISTER, every other one carries a number it has passed, so nothing on its way
  can change the binding. `Lease` follows that fact from the answer, over its way back
  and the two locks of the operation, to the state.
- *RetriesStop*: `Spec => []RetriesBounded`. `Spent` counts what an operation has sent
  and may still send at each of its steps.

**InboundProofs**

- *InboundTypes*: `Spec => []TypeOK`.
- *OneFinalHolds*: `Spec => []OneFinal`, from `OneInv`: nothing knows of a call whose
  INVITE has not arrived (`FreshIsUnknown`), so an INVITE opens its transaction once, and no
  final response has been sent to an open one (`OpenIsUnanswered`).
- *CancelledToldHolds*: `Spec => []CancelledTold`, from `CancelInv`: a call is in
  one place between the router and the application (`OneWay`); while the application has not
  decided, only the router's 487 is queued or sent (`OnlyCancelled`), and it is once the
  token has fired (`Told`).

**SessionProofs**

- *RefreshBeforeExpiry*, *CalleeNegotiates*: the arithmetic of the two delays, and that
  both readers of the callee's 2xx get one interval and opposite roles.
- *SessionTypes*: `Spec => []TypeOK`. `Lock` ties the mutex's queue to the parties'
  steps: without it a party could queue twice, or release what another holds.
- *RequestsTakeTurns*: `Spec => []AwaitedIsNewest`, from `Numbered`: what is awaited
  carries the dialog's number, all numbers sent are at most that, and what the far end
  has seen and rings for is among them.
- *RefreshesComeInTime*: if the far end asks for no less than 90 s
  (`FarObeysFloor`, RFC 4028's minimum), `Spec => []RefreshInTime`. RefreshInTime
  looks at the moments between refreshes only; `Sync` follows a refresh: while
  the far end may still take it the intervals agree, once it has taken it they differ by
  the grant on its way to us, and no earlier refresh can be taken any more. The
  premise is needed: we floor what is smaller and the far end does not.
- *HangupsEndTheCall*: `Spec => []HungUpIsDown`. Between the far end's step and our
  hearing of it, a response on its way stands for what the far end has done
  (`AnswerMeans`): a success to our BYE means that it is down.
- *HoldFollowsTheFarEnd*: `Spec => []HoldAgrees`, whatever refreshes carry, from
  `HoldInv`: for the hold that is awaited, a success means the far end holds as asked and a
  refusal that it holds as before; `OthersClosed` says that no other hold or resume can
  still be taken. `BodyFixed` is what makes the exception, a refresh that repeats the
  set-up's SDP over a hold, the only one (section 6).

**OutboundProofs**

- *CancelsFit*: `Spec => []CancelFits`, and *ConfirmedIsReturned*:
  `Spec => []ConfirmedIsKept`, from `DialInv`: the types; `Counted`, the CANCELs sent are
  those the flags say; `Current`, an INVITE that is on the wire has the flow and
  the flags of its own, those of the one before are gone; `Final`, what the outcome says of the ACK.
- *SignalsAlwaysMeet*: `Spec => []SignalsMeet`, for any set of proxies: from CancelsFit's
  invariant and the algebra of Messages (keys of the two INVITEs differ, their CANCEL and
  their ACK share them, an ACK of a 2xx has neither; two ends' route sets are each
  other's reverse).

**RoutingProofs**

- *RequestsAreKept*: `Spec => []NoneLost`, an equation between a counter and the places
  a request can be in, for channels of any room.
- *JamNeedsAll*: `Spec => []JamTakesAll`, with one more count, `Raised`: every request
  owed and every other event under way was raised by a message or a timer of its own.

**MediaProofs**, for any bodies another implementation offers or answers with

- *AnswersFit*: `Spec => []AnswerFits`, and *EndsOfCallsAgree*: `Spec => []EndsAgree`, from
  `Negotiated`, which says what each end's body and view were made of. The rest is algebra
  of Sdp: what `Parse` finds in a list (`ParsedCodec`, `ParsedEvents`), what is chosen from
  it (`DtmfSelected`), and that a pinned menu is read back as what it was written from
  (`PinnedRead`), which is what makes the far end and every re-offer agree.
- *PressesAreToldApart*: `Spec => []PressesToldApart`. `Kept` says of the presses on the
  running stream (those after a `base`) that their times grow, that the packets on the
  wire are theirs, and that the receiver goes by one of them; `NewerIsLater` is the
  wrapping comparison: for times less than half the field apart it orders the remainders
  as it orders the times.
- *KeysAreHeard*: `Spec => KeysHeard`, the refinement of Keypad. What `heard` ends with is
  the press the receiver goes by (`Heard`), so a new press is a later one and a release is of
  the last. `Opened` keeps sound apart from keys: on an open line their numbers differ, which
  rests on MediaAssumption for answers that are not ours; and both ends count by one clock,
  which rests on EndsAgree, so a burst's ticks are the receiver's.

**ConnectionProofs**

- *RightServerLocated*: `Spec => []LocationSound`, from `Located`: while the walk goes on, no
  usable record has been put aside, and what is tried has the best priority left
  (`NextsAreBest`, `WithoutKeeps`), whatever the dice show.
- *OnlyAcceptedCertificates*: `Spec => []CertificatesJudged`, from `Judged`: nothing but the
  handshake looks at a certificate.
- *MessagesFramedAsSent*: `Spec => []FramedAsSent`, for any bodies, sizes of reads, queues and
  header limits. FramedAsSent speaks of whole items and knows nothing of the bytes between.
  `Framing` says where the reader stands: the items lie one after another in the stream
  (`Laid`), the buffer starts at the end of the d-th, what is on its way ends with the e-th
  (`Cut`), every item between is spelled there in full (`Spelled`), and what stands before has
  been told once and in order (`Ordered`). `Judging` is the framer on a buffer that starts with
  an item or a part of it: it finds that item's end, or waits, or gives up on what cannot be
  framed; a body that looks like a keepalive or a header does not mislead it. A break of
  the path only takes the end away.
- *MessagesInOrder*: `Spec => InOrder`, the refinement of Fifo, from `Framing`.
- *VerdictsAreFair*: `Spec => FairVerdict`, from `Baselined`: what the pinger compares with was
  counted before its ping could leave.

Only model-checked: all liveness, with the fairness that ImplementsService asks of the
engine, since it is beyond the prover together with ENABLED. What a recursive definition
computes for every input is induction over data and out of its reach too: of the sums of
weights in Locate the proofs use only what does not depend on them.

## 6. What is not modelled, and what is open

**Not modelled**

- The bytes of SIP and RTP headers and their parsing, digests and their cryptography
  (rsip), TLS itself (rustls): libraries or formats without state of their own.
- The bodies of DTMF over INFO and of REFER, Replaces and sipfrag: texts without
  state; the requests that carry them are in Session.
- Time in Session: the watchdog's deadline, what moves it, and what the far end's own
  refreshes do to it.
- The future of a dial that the application drops; the endpoint's shutdown; its own
  address; the socket loops of RTP; passwords and names of an account; the crate root.
- A flow's own channel (16) in Routing, and a command channel that is full while a
  transaction is opened in Engine.
- The engine of Connection writes and does not read meanwhile, as in the code; the
  deadlock of two peers that both only write is left to TCP's patience.

**Where code and its documents part**, besides the violated runs

- `registrar.rs:177-181` says that a retry's number is carried into the state so that
  later REGISTERs use fresh ones, but the carrying happens after the answer
  (`:269-270`) and the lock is free meanwhile (`:162`): tasks that overlap use one
  number twice. With `Overlap = TRUE` TLC finds FreshCSeq violated; with turns it is a
  theorem.
- `stack/transaction/mod.rs:5-7` promises that duplicates are absorbed; a 2xx ends the
  server INVITE at once, so a retransmitted INVITE is a second call to the application.
- `sdp.rs:15-18` promises the offer's own payload-type numbers; G.711 offered on a
  dynamic number is answered with 0 or 8. AnswerFits lists it as its exception
  (`Renumbered`), and the offer whose telephone-event then has that number as another
  (`Clash`).
- `inbound.rs:12-13` and `caller.rs:195` say BYE and OPTIONS are answered
  automatically in any case. A call that opted in and does not read its stream, or an
  application that takes no calls, stops `route_inbound` once the channel is full, and
  with it every other call's BYE and OPTIONS. Settles assumes that the application reads.
- `registration.rs:168-170` names EngineStopped; register and register_query report a
  stopped engine as TimedOut (`ua.rs:429`).
- `registration.rs:52` says of a registration "the server granted this lifetime (seconds)"
  and `docs/20-register-interval-too-brief.md:67-69` that "the lifetime that actually governs
  the binding is the `Expires` in its own `200 OK`, which we already read". RFC 3261 section
  10.3 lets a registrar name the lifetime in the `expires` parameter of the Contact it returns;
  `granted_expires` (`registration.rs:173-176`) reads the header alone, and without it
  `ua.rs:149-151` takes what was asked for. A shorter grant named that way leaves
  `negotiated_expires`, from which docs/20 (`:75-77`) lets a consumer size its refreshes, too
  long. InSync has it as its exception (`far.named`); UnregisterSticks and the rest hold for it.
- `session_timer.rs:381-383` tells the consumer to "repeat the SDP you sent when the call was
  set up" and calls it "a no-op per RFC 3264", the example there (`:43-52`) passes a sendrecv
  body, and `docs/07-session-timers.md:75-77` says the same. During a hold it is no no-op: the
  re-INVITE takes the call off hold at the far end while `held` stays set. HoldAgrees has it as
  its exception, the one way in which refreshes part the two.
- `dtmf_recv.rs:61-62` and `:104-105` and `docs/05-dtmf-receive.md:20` give durations in "ticks
  at 8 kHz (divide by 8 for milliseconds)". They are ticks of the negotiated clock
  (`dtmf.rs:215-217`, `:321-323`), 960 in 20 ms on a line at 48 kHz, where the division is wrong
  by six. KeysHeard demands the length in ticks of the clock the receiver negotiated, and
  holds; the doc holds for lines at 8 kHz only.
- `callee.rs:101-103` says that the token of a call does not fire once accept or reject has been
  called. The router answers a CANCEL with 487 and fires the token in separate steps: accept in
  between succeeds for the application and the token fires afterwards, while the peer has been
  told 487. CancelledTold speaks of calls that are not decided yet.
- The docs name `RemoteMedia::dtmf_payload_type`, which does not exist.

**Known behaviour without a property of its own**

- A burst of events that fills event (64), incoming (32) and command (64) channels at
  once jams engine, router and endpoint for good: Settles has it as its exception,
  JamTakesAll says what it takes. The bias of the select towards messages makes it likelier.
- An INVITE that the application abandons (dropped undecided, rejected with a status
  below 300, an accept that fails before answering) waits in Proceeding for ever, where
  the server INVITE has no timer; CancelResolves lists it. An INVITE with an unusable SDP is skipped by
  `next_incoming_call` and never answered (`endpoint.rs:281`). Requests still queued
  when an `InboundRequests` is dropped are never answered.
- A 2xx repeated because our ACK was lost is not acknowledged again. A dial whose 2xx has an
  unusable SDP acknowledges it and returns an error without a BYE.
- A refusal of an INVITE that cannot be acknowledged (`client_invite.rs:154`) is ignored: the
  transaction waits on, and its TU is told of a timeout in place of the answer. Engine has it;
  Timer B ends the wait, so no property of section 4 fails over it.
- A read task that waits for room in its queue counts no pongs, and the pinger then finds a
  live connection dead. FairVerdict speaks of the pongs that were counted: it keeps the
  baseline before the ping and does not forbid this verdict.
- A client INVITE in Proceeding waits for its peer without bound, by RFC 3261, and the
  dialog's mutex with it: a far end that rings for a re-INVITE and falls silent keeps a
  hangup waiting. RequestsEnd and LoopStops hold only under the fairness that it decides.
- `refresh_secs` is never compared with the granted lifetime; a grant below it lapses
  between refreshes.
- Keypad: a hold of 21.8 minutes or more is cut by a conversion to 16 bits; a clock rate
  below 50 Hz makes a packet of no ticks; a burst that fails or is abandoned returns no
  next timestamp; a straggler from before a change of SSRC presses its key again (the
  network of DtmfRtp delivers none); `RtpHeader::header_len` ignores the extension bit. An
  answer of another implementation may renumber, and then each end sends on the number it
  was given.
- A domain that has SRV records only and no address of its own (`docs/06-srv-lookup.md:93-97`)
  still fails where the endpoint looks for its own address.
