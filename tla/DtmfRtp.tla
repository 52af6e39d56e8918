------------------------------ MODULE DtmfRtp ------------------------------
(***************************************************************************)
(* Key presses over RTP: the burst of rtp/dtmf.rs, the sender of           *)
(* rtp/mod.rs beside it, a network that loses, repeats and reorders, and   *)
(* the receiver of rtp/dtmf_recv.rs.                                       *)
(*                                                                         *)
(* A packet keeps what the receiver reads.  Sequence number, marker and    *)
(* volume are written and never read back.  A timestamp is counted modulo  *)
(* the width of the field; `at` is the same time before it wraps, and      *)
(* `press` the press a packet belongs to: both are history.                *)
(***************************************************************************)
EXTENDS Integers, Sequences

CONSTANTS
    Key,          \* event codes of the keys pressed, out of 0..15
    Hold,         \* packets a press is held for (hold_duration_ms / 20, up)
    Redundancy,   \* REDUNDANCY: copies of the first and of the last packet
    MaxDuration,  \* u16::MAX of the duration field
    HalfRange,    \* half of what the timestamp field can hold
    Start,        \* timestamps a stream may start at
    MaxPresses,   \* bound: presses made
    MaxStreams    \* bound: streams started in one call

\* The events that are keys; codes from 16 on are flash-hook and fax.
Digit == 0..15

ASSUME DtmfAssumption ==
    /\ Key \subseteq Digit
    /\ Hold \subseteq Nat \ {0}
    /\ Redundancy \in Nat \ {0}
    /\ MaxDuration \in Nat \ {0}
    /\ HalfRange \in Nat \ {0}
    /\ Start \subseteq 0..(2 * HalfRange - 1)
    /\ MaxPresses \in Nat
    /\ MaxStreams \in Nat

VARIABLES
    line,    \* what was negotiated: both ends' numbers and ticks per packet
    stream,  \* the sender's SSRC, one more with each stream
    clock,   \* the caller's next initial_timestamp, not wrapped
    presses, \* history: the presses made
    sent,    \* packets of the current burst sent so far
    busy,    \* a burst is being sent
    wire,    \* packets of this stream the network may deliver, again and again
    active,  \* DtmfReceiver::active
    heard    \* history: the events push has returned

media == <<line, stream, clock, presses, sent, busy, wire, active, heard>>

Modulus == 2 * HalfRange

NoEvent == [ssrc |-> 0, ts |-> 0, event |-> -1, released |-> TRUE, press |-> 0]

-----------------------------------------------------------------------------
(* send_dtmf_burst. *)

Saturated(n) == IF n > MaxDuration THEN MaxDuration ELSE n

\* A press: its key, the packets it is held for and its initial timestamp.
Ticks(p) == Saturated(p.hold * line.ticks)

BurstLength(p) == Redundancy + (p.hold - 1) + Redundancy

\* The duration in the i-th packet: one tick for the first copies, one more in
\* each continuation, the last one again in the end packets.
DurationOf(p, i) ==
    CASE i <= Redundancy -> Saturated(line.ticks)
      [] i > Redundancy /\ i < Redundancy + p.hold ->
            Saturated((i - Redundancy + 1) * line.ticks)
      [] i >= Redundancy + p.hold -> Ticks(p)

EventPacket(n, i) ==
    LET p == presses[n]
    IN  [pt |-> line.send, ssrc |-> stream, ts |-> p.at % Modulus, event |-> p.key,
         end |-> i >= Redundancy + p.hold, duration |-> DurationOf(p, i),
         at |-> p.at, press |-> n]

\* The caller starts a burst at the timestamp the last one returned.
Press(k, h) ==
    /\ ~busy
    /\ Len(presses) < MaxPresses
    /\ presses' = Append(presses, [key |-> k, hold |-> h, at |-> clock])
    /\ busy' = TRUE
    /\ sent' = 0
    /\ UNCHANGED <<line, stream, clock, wire, active, heard>>

\* What the burst returns as the next timestamp.
NextTimestamp(p) == p.at + Ticks(p)

SendPacket ==
    /\ busy
    /\ LET n == Len(presses)
           last == sent + 1 = BurstLength(presses[n])
       IN  /\ wire' = wire \cup {EventPacket(n, sent + 1)}
           /\ busy' = ~last
           /\ clock' = IF last THEN NextTimestamp(presses[n]) ELSE clock
    /\ sent' = sent + 1
    /\ UNCHANGED <<line, stream, presses, active, heard>>

\* The future is dropped, or a send fails: nothing is returned, and the caller
\* moves its clock past the press itself, as the doc of the config asks.
Abandon ==
    /\ busy
    /\ busy' = FALSE
    /\ clock' = NextTimestamp(presses[Len(presses)])
    /\ UNCHANGED <<line, stream, presses, sent, wire, active, heard>>

\* The media is set up anew (a re-INVITE): another SSRC, any timestamp.  The
\* round trips of it outlast what the network still holds of the old stream.
NewStream ==
    /\ ~busy
    /\ stream < MaxStreams
    /\ stream' = stream + 1
    /\ \E t \in Start : clock' = t
    /\ wire' = {}
    /\ UNCHANGED <<line, presses, sent, busy, active, heard>>

\* What send_loop puts on the same socket all the while: sound, whatever it
\* looks like where an event packet has its code and its end bit.
Audio == {[pt |-> line.audio, ssrc |-> 0, ts |-> 0, event |-> k, end |-> e,
           duration |-> 0, at |-> clock, press |-> 0] : k \in Key, e \in BOOLEAN}

-----------------------------------------------------------------------------
(* DtmfReceiver. *)

\* Fault: timestamps are compared as plain numbers.
Newer_Unwrapped(a, b) == a > b

\* timestamp_newer: a forward distance below half the range.
Newer(a, b) ==
    LET forward == (a - b) % Modulus
    IN  forward # 0 /\ forward < HalfRange

\* Fault: the payload type is not looked at.
IsDigit_AnyType(p) == p.event \in Digit

\* An event packet of the negotiated number with a digit in it.
IsDigit(p) == p.pt = line.recv /\ p.event \in Digit

Same(p) == active.ssrc = p.ssrc /\ active.ts = p.ts /\ active.event = p.event

Told(kind, p, duration) ==
    heard' = Append(heard, [kind |-> kind, press |-> p.press, key |-> p.event,
                            length |-> duration])

Straggler(p) ==
    active # NoEvent /\ active.ssrc = p.ssrc /\ ~Newer(p.ts, active.ts)

\* push of the first packet of a press that gets through.
HearPressed(p) ==
    /\ IsDigit(p)
    /\ ~Same(p)
    /\ ~Straggler(p)
    /\ active' = [ssrc |-> p.ssrc, ts |-> p.ts, event |-> p.event,
                  released |-> FALSE, press |-> p.press]
    /\ Told("pressed", p, 0)

\* push of the first end packet of the press that was heard.
HearReleased(p) ==
    /\ IsDigit(p)
    /\ Same(p)
    /\ p.end
    /\ ~active.released
    /\ active' = [active EXCEPT !.released = TRUE]
    /\ Told("released", p, p.duration)

\* Timestamps half a range apart cannot be ordered (half a day at 48 kHz): the
\* network neither keeps a packet for so long, nor loses every packet of the
\* presses that follow the one heard last for so long.
Fresh(p) == clock - p.at < HalfRange
Near(p) == active.ssrc = p.ssrc => p.at - presses[active.press].at < HalfRange

Deliverable == {p \in wire : Fresh(p) /\ Near(p)} \cup Audio

Deliver ==
    /\ \E p \in Deliverable : HearPressed(p) \/ HearReleased(p)
    /\ UNCHANGED <<line, stream, clock, presses, sent, busy, wire>>

-----------------------------------------------------------------------------
Idle ==
    /\ stream = 1
    /\ clock \in Start
    /\ presses = <<>>
    /\ sent = 0
    /\ busy = FALSE
    /\ wire = {}
    /\ active = NoEvent
    /\ heard = <<>>

Talk ==
    \/ \E k \in Key, h \in Hold : Press(k, h)
    \/ SendPacket
    \/ Abandon
    \/ NewStream
    \/ Deliver

=============================================================================
