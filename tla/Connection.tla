----------------------------- MODULE Connection -----------------------------
(***************************************************************************)
(* An endpoint's connection from its account on: Locate until a stream is  *)
(* established, then Stream.  Nothing of the search is read again once the *)
(* connection stands, so it is forgotten there.                            *)
(***************************************************************************)
EXTENDS Locate, Stream

vars == <<locate, stream>>

Init == Unbound /\ Connected

\* StreamTransport::connect spawns its tasks.
Spawn ==
    /\ step = "stream"
    /\ step' = "running"
    /\ account' = None /\ srv' = <<>> /\ lookup' = None /\ candidates' = <<>>
    /\ server' = None /\ cert' = None /\ failure' = None
    /\ UNCHANGED stream

Next ==
    \/ LocateNext /\ UNCHANGED stream
    \/ Spawn
    \/ step = "running" /\ StreamNext /\ UNCHANGED locate

Run(A) == step = "running" /\ A /\ UNCHANGED locate

\* Every task is scheduled.  tokio's mutex is fair, the engine's select asks
\* recv first, and select! gives a cancelled token its turn: strong fairness.
\* A write ends one way or the other: the peer reads, or TCP gives up.
Fairness ==
    /\ WF_vars(Run(Read \/ ReadEnds \/ Frame \/ Enqueue)) /\ SF_vars(Run(ReaderStops))
    /\ SF_vars(Run(Recv \/ RecvFails))
    /\ SF_vars(Run(SendLocks)) /\ WF_vars(Run(SendDone \/ SendFails))
    /\ WF_vars(Run(PingDue \/ PingDone \/ PingFails \/ PongDue))
    /\ SF_vars(Run(PingLocks)) /\ SF_vars(Run(PingerStops))

Spec == Init /\ [][Next]_vars /\ Fairness

-----------------------------------------------------------------------------
(* Correctness. *)

\* What is located is what the account pins, or the usable record of the best
\* priority, or the server's own name when SRV knows nothing; and only when
\* there is no such address does the search give up.
LocationSound ==
    LET own == [host |-> Server(account), port |-> Port(account)]
        usable == {srv[i] : i \in {j \in DOMAIN srv : Usable(srv[j])}}
        alone == Pinned(account) \/ srv = <<>>
    IN  /\ step \in {"located", "routed", "handshake", "stream"} =>
              \/ alone /\ server = own
              \/ ~alone /\ \E r \in usable :
                    /\ server = [host |-> r.target, port |-> r.port]
                    /\ \A other \in usable : r.priority <= other.priority
        /\ step = "failed" /\ failure.kind = "unresolved" =>
              IF alone THEN Lookup(Server(account)) # "found" ELSE usable = {}

\* A TLS connection stands only on a certificate the policy accepts: the one
\* that is pinned, or a trusted one for the account's domain, whatever host SRV
\* named.  An error that names a certificate names the one the server showed
\* and what speaks against it under the policy; a handshake that fails for
\* another reason blames none.
CertificatesJudged ==
    LET pinned == account.policy # None
        named == cert # None /\ account.domain \in cert.names
    IN  /\ step = "stream" /\ account.transport = "tls" =>
              IF pinned THEN cert.id = account.policy ELSE named /\ cert.faults = {}
        /\ step = "failed" /\ failure.cert # None =>
              /\ failure.cert = cert.id
              /\ IF pinned
                 THEN failure.kind = "pin mismatch" /\ cert.id # account.policy
                 ELSE \/ failure.kind = "name mismatch" /\ ~named
                      \/ failure.kind \in cert.faults
        /\ step = "failed" /\ failure.kind = "handshake" /\ cert # None =>
              IF pinned THEN cert.id = account.policy ELSE named /\ cert.faults = {}

\* Whatever the reads split: of the bytes taken so far, every message that is
\* complete has been passed on, in order and nothing else, and every keepalive
\* between messages is counted, and none that stands in a body.
Complete(kind) == {i \in DOMAIN items : items[i].kind = kind /\ items[i].end <= taken}

FramedAsSent ==
    reader = "reading" =>
        /\ got \o queue = [n \in 1..Cardinality(Complete("message")) |-> n]
        /\ keepalives = Cardinality(Complete("keepalive"))

\* The connection is judged dead for want of a pong only if the peer has sent
\* keepalives before and none was counted since the ping could leave: by
\* FramedAsSent, none was read, unless the read task waits for room.
FairVerdict ==
    [][pinger' = "judged" /\ pinger # "judged" =>
          keepalives > 0 /\ keepalives = atPing]_vars

\* Of a connection that ended, or was found dead, the engine hears, and all
\* that held it is let go; a path that breaks in silence is found dead, if the
\* peer is known to answer.
Ended == engine = "stopped" /\ reader = "gone" /\ pinger \in {"gone", "judged"}

ConnectionEnds ==
    closed \/ reader = "gone" \/ (path = "broken" /\ keepalives > 0) ~> Ended

\* The engine receives the peer's messages as Fifo promises.
Sent == [n \in 1..Count("message", Len(items)) |-> n]
Transport == INSTANCE Fifo WITH Message <- 1..MaxItems, sent <- Sent
InOrder == Transport!Spec

=============================================================================
