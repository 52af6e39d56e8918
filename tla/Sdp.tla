-------------------------------- MODULE Sdp --------------------------------
(***************************************************************************)
(* The negotiation of sdp.rs as operators: what a body says (parse_sdp),   *)
(* what is chosen from it (select_codec, select_dtmf), and the two menus   *)
(* that are ever written (build_sdp_with).                                 *)
(*                                                                         *)
(* A body is the payload types of its m=audio line, what its rtpmap lines  *)
(* say of them, and whether it names an address and a port.  Direction and *)
(* version are Session's concern.                                          *)
(***************************************************************************)
EXTENDS Integers, Sequences

CONSTANT None   \* an absent option

PayloadType == 0..127

\* The first member of s that is in S; s is a sequence, or has some places of one.
First(s, S) ==
    IF \E i \in DOMAIN s : s[i] \in S
    THEN s[CHOOSE i \in DOMAIN s :
              s[i] \in S /\ \A j \in DOMAIN s : j < i => s[j] \notin S]
    ELSE None

-----------------------------------------------------------------------------
(* Codecs: G.711 rides the static numbers, Opus the one it was given. *)

Opus(pt) == [name |-> "opus", pt |-> pt]
Pcmu == [name |-> "pcmu", pt |-> 0]
Pcma == [name |-> "pcma", pt |-> 8]

Codec == {Pcmu, Pcma} \cup {Opus(pt) : pt \in PayloadType}

ClockOf(codec) == IF codec.name = "opus" THEN 48 ELSE 8

\* A telephone-event entry: its number and clock (in kHz).
DtmfSpec == [pt : PayloadType, clock : {8, 16, 48}]
EventClock == [event8k |-> 8, event16k |-> 16, event48k |-> 48]

\* What is absent is none of what may be there.
ASSUME NoneAssumption ==
    None \notin PayloadType /\ None \notin Codec /\ None \notin DtmfSpec

-----------------------------------------------------------------------------
(* parse_sdp. *)

\* An rtpmap wins over the static assignment; without one, only 0 and 8 are
\* self-describing.
Named(body, pt) ==
    CASE pt \in DOMAIN body.map -> body.map[pt]
      [] pt \notin DOMAIN body.map /\ pt = 0 -> "pcmu"
      [] pt \notin DOMAIN body.map /\ pt = 8 -> "pcma"
      [] OTHER -> "other"

Called(body, names) == {pt \in PayloadType : Named(body, pt) \in names}

Resolve(body, pt) ==
    CASE pt = None -> None
      [] pt # None /\ Named(body, pt) = "opus" -> Opus(pt)
      [] pt # None /\ Named(body, pt) = "pcmu" -> Pcmu
      [] pt # None /\ Named(body, pt) = "pcma" -> Pcma

IsEvent(body, pt) == pt \in DOMAIN body.map /\ body.map[pt] \in DOMAIN EventClock

EventAt(body, pt) == [pt |-> pt, clock |-> EventClock[body.map[pt]]]

\* parse_sdp fails on a body without address, audio port or payload type.
Readable(body) == body.placed /\ body.pts # <<>>

\* RemoteMedia: the first known codec, Opus wherever it stands, every event
\* entry that is both listed and named, at its place in the list.
Parse(body) ==
    [codec  |-> Resolve(body, First(body.pts, Called(body, {"opus", "pcmu", "pcma"}))),
     opus   |-> First(body.pts, Called(body, {"opus"})),
     events |-> [i \in {i \in DOMAIN body.pts : IsEvent(body, body.pts[i])} |->
                    EventAt(body, body.pts[i])]]

-----------------------------------------------------------------------------
(* Choosing. *)

\* Fault: the peer's order decides, as if Opus had no preference.
SelectCodec_PeerOrder(media) == media.codec

\* Opus wherever it appears, else the peer's first G.711.
SelectCodec(media) == IF media.opus # None THEN Opus(media.opus) ELSE media.codec

\* The event entry with the codec's clock, else the first.
SelectDtmf(media, codec) ==
    LET match == First(media.events, [pt : PayloadType, clock : {ClockOf(codec)}])
    IN  IF match # None THEN match ELSE First(media.events, DtmfSpec)

\* RemoteMedia::dtmf.
DtmfOf(media) ==
    IF media.codec # None THEN SelectDtmf(media, media.codec)
                          ELSE First(media.events, DtmfSpec)

-----------------------------------------------------------------------------
(* The menus of build_sdp_with. *)

\* CodecMenu::Full, the initial offer.
FullMenu ==
    [pts |-> <<111, 0, 8, 101, 110>>,
     map |-> [pt \in {111, 0, 8, 101, 110} |->
                CASE pt = 111 -> "opus"    [] pt = 0 -> "pcmu"
                  [] pt = 8 -> "pcma"      [] pt = 101 -> "event8k"
                  [] pt = 110 -> "event48k"],
     placed |-> TRUE]

EventName(dtmf) == CHOOSE name \in DOMAIN EventClock : EventClock[name] = dtmf.clock

\* CodecMenu::Pinned, every answer and every re-offer.
Pinned(codec, dtmf) ==
    [pts |-> IF dtmf = None THEN <<codec.pt>> ELSE <<codec.pt, dtmf.pt>>,
     map |-> [pt \in {codec.pt} \cup (IF dtmf = None THEN {} ELSE {dtmf.pt}) |->
                IF pt = codec.pt THEN codec.name ELSE EventName(dtmf)],
     placed |-> TRUE]

\* The menu of a hold or a refresh, from what the call negotiated.
Reoffer(media) ==
    IF media.codec # None THEN Pinned(media.codec, DtmfOf(media)) ELSE FullMenu

=============================================================================
