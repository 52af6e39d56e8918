------------------------------- MODULE Stream -------------------------------
(***************************************************************************)
(* One TCP or TLS connection (stream.rs, framing.rs, keepalive.rs): the    *)
(* read task with its framer and its bounded queue to the engine, the      *)
(* write half behind a mutex that the engine and the pinger share, the     *)
(* pinger, and the token that says the connection is dead.                 *)
(*                                                                         *)
(* The peer writes items: messages, keepalives, and bytes that are neither.*)
(* A byte is a token: CR, LF, the start line of a message (with its place  *)
(* among the messages, as history), its Content-Length, or other text.     *)
(***************************************************************************)
EXTENDS Integers, Sequences, FiniteSets

CONSTANTS
    Bodies,     \* bodies of messages, as sequences of bytes
    ReadChunk,  \* READ_CHUNK
    Depth,      \* INBOUND_DEPTH
    MaxHeader,  \* MAX_HEADER_BYTES
    MaxItems    \* bound: items the peer writes

\* What a byte can be to the framer, and which message or length it tells.
AnyByte == [t : {"cr", "lf", "start", "length", "text"}, n : Nat]

ASSUME StreamAssumption ==
    /\ Bodies \subseteq Seq(AnyByte)
    /\ ReadChunk \in Nat \ {0}
    /\ Depth \in Nat \ {0}
    /\ MaxHeader \in Nat
    /\ MaxItems \in Nat

VARIABLES
    items,       \* history: what the peer has written
    net,         \* bytes on their way to us
    path,        \* "open", "ended" by the peer, or silently "broken"
    taken,       \* history: bytes read
    buf,         \* Framer::buf
    skipped,     \* Framer::keepalives
    reader,      \* read_task
    pending,     \* the message it waits to send
    queue,       \* the inbound channel
    got,         \* history: what the engine has received
    keepalives,  \* the counter the read task and the pinger share
    closed,      \* StreamTransport::closed
    lock,        \* who holds the write half
    pinger,      \* keepalive::run
    before,      \* its count from before the ping
    atPing,      \* history: the count when the ping could leave
    engine       \* the engine's loop, as far as the transport sees it

wire == <<items, net, path>>
framer == <<buf, skipped>>
reading == <<taken, buf, skipped, reader, pending, keepalives>>
pinging == <<pinger, before, atPing>>
stream == <<wire, reading, queue, got, closed, lock, pinging, engine>>

Nobody == "nobody"

-----------------------------------------------------------------------------
(* Bytes and items. *)

Byte(t, n) == [t |-> t, n |-> n]
CR == Byte("cr", 0)
LF == Byte("lf", 0)
Text == Byte("text", 0)
CRLF == <<CR, LF>>

Item == {[kind |-> "message", body |-> b] : b \in Bodies}
        \cup {[kind |-> k, body |-> <<>>] :
                 k \in {"keepalive", "unsized", "garbled", "endless"}}

\* How many of the first d items are of a kind.
Count(kind, d) == Cardinality({i \in 1..d : items[i].kind = kind})

\* The bytes of an item; a message is the n-th.
Bytes(item, n) ==
    CASE item.kind = "message" ->
            <<Byte("start", n)>> \o CRLF \o <<Byte("length", Len(item.body))>>
                \o CRLF \o CRLF \o item.body
      [] item.kind = "keepalive" -> CRLF
      [] item.kind = "unsized" -> <<Byte("start", n)>> \o CRLF \o CRLF
      [] item.kind = "garbled" -> <<Byte("length", 0)>> \o CRLF \o CRLF
      [] item.kind = "endless" -> [j \in 1..(MaxHeader + 1) |-> Text]

Written == IF items = <<>> THEN 0 ELSE items[Len(items)].end

-----------------------------------------------------------------------------
(* Framer. *)

\* The CRLFs a buffer starts with.
Pair(b, k) == 2 * k <= Len(b) /\ SubSeq(b, 2 * k - 1, 2 * k) = CRLF

Leading(b) ==
    CHOOSE k \in 0..Len(b) : ~Pair(b, k + 1) /\ \A i \in 1..k : Pair(b, i)

Stripped(b) == SubSeq(b, 2 * Leading(b) + 1, Len(b))

\* find_header_end; 0 when there is none yet.
HeaderEnd(b) ==
    LET ends == {i \in 4..Len(b) : SubSeq(b, i - 3, i) = CRLF \o CRLF}
    IN  IF ends = {} THEN 0 ELSE CHOOSE i \in ends : \A j \in ends : i <= j

\* content_length; -1 when there is none.
ContentLength(b) ==
    LET fields == {i \in 1..HeaderEnd(b) : b[i].t = "length"}
    IN  IF fields = {} THEN -1 ELSE b[CHOOSE i \in fields : \A j \in fields : i <= j].n

Total(b) == HeaderEnd(b) + ContentLength(b)

\* Fault: the bytes of a message that was framed stay in the buffer.
Rest_Kept(b) == b

\* What is left of a buffer once its first message is taken out.
Rest(b) == SubSeq(b, Total(b) + 1, Len(b))

\* What next_message makes of a buffer without leading CRLFs.
Verdict(b) ==
    CASE HeaderEnd(b) = 0 /\ Len(b) > MaxHeader -> "broken"
      [] HeaderEnd(b) = 0 /\ Len(b) <= MaxHeader -> "wait"
      [] HeaderEnd(b) > 0 /\ ContentLength(b) = -1 -> "broken"
      [] HeaderEnd(b) > 0 /\ ContentLength(b) >= 0 /\ Len(b) < Total(b) -> "wait"
      [] OTHER -> IF b[1].t = "start" THEN "message" ELSE "broken"

-----------------------------------------------------------------------------
(* The peer and the path to it. *)

\* Bytes that cannot be framed are the last: nothing is read after them.
Write(item) ==
    /\ Len(items) < MaxItems
    /\ \A i \in DOMAIN items : items[i].kind \in {"message", "keepalive"}
    /\ path # "ended"
    /\ LET bytes == Bytes(item, Count("message", Len(items)) + 1)
       IN  /\ items' = Append(items, [kind |-> item.kind, end |-> Written + Len(bytes)])
           /\ net' = IF path = "broken" THEN net ELSE net \o bytes
    /\ UNCHANGED <<path, reading, queue, got, closed, lock, pinging, engine>>

PeerCloses ==
    /\ path = "open"
    /\ path' = "ended"
    /\ UNCHANGED <<items, net, reading, queue, got, closed, lock, pinging, engine>>

\* A middlebox forgets the connection, or the peer is gone without a word.
PathBreaks ==
    /\ path = "open"
    /\ path' = "broken"
    /\ UNCHANGED <<items, net, reading, queue, got, closed, lock, pinging, engine>>

\* What happens once we have let go is not followed.
Peer ==
    /\ engine # "stopped"
    /\ (\E item \in Item : Write(item)) \/ PeerCloses \/ PathBreaks

-----------------------------------------------------------------------------
(* read_task. *)

Read ==
    /\ reader = "reading"
    /\ net # <<>>
    /\ \E n \in 1..ReadChunk :
          /\ n <= Len(net)
          /\ buf' = buf \o SubSeq(net, 1, n)
          /\ net' = SubSeq(net, n + 1, Len(net))
          /\ taken' = taken + n
    /\ reader' = "framing"
    /\ UNCHANGED <<items, path, skipped, pending, keepalives, queue, got, closed,
                   lock, pinging, engine>>

\* The task returns, and its framer with it.
ReaderReturns ==
    /\ reader' = "gone"
    /\ buf' = <<>> /\ skipped' = 0
    /\ UNCHANGED <<wire, taken, pending, keepalives, queue, got, closed, lock, pinging,
                   engine>>

ReadEnds == reader = "reading" /\ path = "ended" /\ net = <<>> /\ ReaderReturns

\* The operating system gives the connection up, sooner or later or never.
ReadFails == reader = "reading" /\ path = "broken" /\ ReaderReturns

\* Fault: the read task does not watch the token.
ReaderStops_Deaf == FALSE /\ UNCHANGED stream

ReaderStops == reader = "reading" /\ closed /\ ReaderReturns

\* Fault: keepalives are counted as they are read, wherever they stand.
Counted_Anywhere(b, k) == k + Cardinality({i \in 2..Len(b) : b[i - 1] = CR /\ b[i] = LF})

Counted(b, k) == k + Leading(b)

\* One call of next_message, and what the read task does with its result.
Frame ==
    /\ reader = "framing"
    /\ LET b == Stripped(buf)
           verdict == Verdict(b)
           k == Counted(buf, skipped)
       IN  /\ buf' = CASE verdict = "message" -> Rest(b)
                       [] verdict = "wait"    -> b
                       [] verdict = "broken"  -> <<>>
           /\ pending' = IF verdict = "message" THEN b[1].n ELSE 0
           /\ skipped' = IF verdict = "message" THEN k ELSE 0
           /\ keepalives' = IF verdict = "wait" THEN keepalives + k ELSE keepalives
           /\ reader' = CASE verdict = "message" -> "sending"
                          [] verdict = "wait"    -> "reading"
                          [] verdict = "broken"  -> "gone"
    /\ UNCHANGED <<wire, taken, queue, got, closed, lock, pinging, engine>>

\* The queue has room; while it has none the task waits and reads nothing.
Enqueue ==
    /\ reader = "sending"
    /\ Len(queue) < Depth
    /\ queue' = Append(queue, pending)
    /\ pending' = 0
    /\ reader' = "framing"
    /\ UNCHANGED <<wire, taken, framer, keepalives, got, closed, lock, pinging, engine>>

Reader == Read \/ ReadEnds \/ ReadFails \/ ReaderStops \/ Frame \/ Enqueue

-----------------------------------------------------------------------------
(* The engine's side: recv, send_to, and the drop of the transport. *)

Recv ==
    /\ engine = "running"
    /\ queue # <<>>
    /\ got' = Append(got, Head(queue))
    /\ queue' = Tail(queue)
    /\ UNCHANGED <<wire, reading, closed, lock, pinging, engine>>

\* Drop: the token, the abort of both tasks, and with them both halves.
Drop ==
    /\ engine' = "stopped"
    /\ closed' = TRUE
    /\ reader' = "gone"
    /\ pinger' = "gone"
    /\ lock' = Nobody
    /\ net' = <<>> /\ buf' = <<>> /\ skipped' = 0 /\ pending' = 0 /\ queue' = <<>>
    /\ before' = 0 /\ atPing' = 0
    /\ UNCHANGED <<items, path, taken, keepalives, got>>

\* recv reports the connection closed once the queue is drained: the engine
\* breaks out of its loop and its transport is dropped.
RecvFails ==
    /\ engine = "running"
    /\ reader = "gone"
    /\ queue = <<>>
    /\ Drop

Shutdown ==
    /\ engine = "running"
    /\ Drop

Send ==
    /\ engine = "running"
    /\ engine' = "locking"
    /\ UNCHANGED <<wire, reading, queue, got, closed, lock, pinging>>

SendLocks ==
    /\ engine = "locking"
    /\ lock = Nobody
    /\ lock' = "engine"
    /\ engine' = "writing"
    /\ UNCHANGED <<wire, reading, queue, got, closed, pinging>>

SendDone ==
    /\ engine = "writing"
    /\ lock' = Nobody
    /\ engine' = "running"
    /\ UNCHANGED <<wire, reading, queue, got, closed, pinging>>

SendFails ==
    /\ engine = "writing"
    /\ path # "open"
    /\ closed' = TRUE
    /\ lock' = Nobody
    /\ engine' = "running"
    /\ UNCHANGED <<wire, reading, queue, got, pinging>>

Engine == Recv \/ RecvFails \/ Shutdown \/ Send \/ SendLocks \/ SendDone \/ SendFails

-----------------------------------------------------------------------------
(* keepalive::run. *)

PingDue ==
    /\ pinger = "sleeping"
    /\ pinger' = "locking"
    /\ before' = keepalives
    /\ UNCHANGED <<wire, reading, queue, got, closed, lock, atPing, engine>>

PingLocks ==
    /\ pinger = "locking"
    /\ lock = Nobody
    /\ lock' = "pinger"
    /\ pinger' = "writing"
    /\ atPing' = keepalives
    /\ UNCHANGED <<wire, reading, queue, got, closed, before, engine>>

\* Fault: the count is taken once the ping is out.
Baseline_Late == keepalives

\* The count a ping is compared with.
Baseline == before

PingDone ==
    /\ pinger = "writing"
    /\ lock' = Nobody
    /\ before' = Baseline
    /\ pinger' = IF before = 0 THEN "sleeping" ELSE "waiting"
    /\ UNCHANGED <<wire, reading, queue, got, closed, atPing, engine>>

PingFails ==
    /\ pinger = "writing"
    /\ path # "open"
    /\ lock' = Nobody
    /\ closed' = TRUE
    /\ pinger' = "gone" /\ before' = 0 /\ atPing' = 0
    /\ UNCHANGED <<wire, reading, queue, got, engine>>

\* pong_missed: silence says something only of a peer that has answered before.
PongMissed == before > 0 /\ keepalives = before

PongDue ==
    /\ pinger = "waiting"
    /\ pinger' = IF PongMissed THEN "judged" ELSE "sleeping"
    /\ closed' = (closed \/ PongMissed)
    /\ UNCHANGED <<wire, reading, queue, got, lock, before, atPing, engine>>

PingerStops ==
    /\ pinger \in {"sleeping", "waiting"}
    /\ closed
    /\ pinger' = "gone" /\ before' = 0 /\ atPing' = 0
    /\ UNCHANGED <<wire, reading, queue, got, closed, lock, engine>>

Pinger == PingDue \/ PingLocks \/ PingDone \/ PingFails \/ PongDue \/ PingerStops

-----------------------------------------------------------------------------
Connected ==
    /\ items = <<>> /\ net = <<>> /\ path = "open"
    /\ taken = 0 /\ buf = <<>> /\ skipped = 0
    /\ reader = "reading" /\ pending = 0 /\ queue = <<>> /\ got = <<>>
    /\ keepalives = 0 /\ closed = FALSE /\ lock = Nobody
    /\ pinger = "sleeping" /\ before = 0 /\ atPing = 0
    /\ engine = "running"

StreamNext == Peer \/ Reader \/ Engine \/ Pinger

=============================================================================
