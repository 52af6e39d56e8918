------------------------------- MODULE Media -------------------------------
(***************************************************************************)
(* A call's media from the offer to the key presses: caller.rs and         *)
(* callee.rs negotiate with the operators of Sdp, and what they agreed is  *)
(* the line on which DtmfRtp sends.                                        *)
(*                                                                         *)
(* Either end may be another implementation: it offers any body of         *)
(* ForeignOffer, or answers our offer with any of ForeignAnswer.  Its own  *)
(* idea of an answer is what parsing it says, first codec first.           *)
(***************************************************************************)
EXTENDS Sdp, DtmfRtp

CONSTANTS
    ForeignOffer,   \* bodies another implementation may offer
    ForeignAnswer,  \* bodies it may answer our full menu with
    TicksAt         \* ticks of one packet at a clock of 8, 16 and 48 kHz

\* An answer keeps the numbers of the menu it answers: on the static ones, which
\* the full menu gives to G.711, it puts no telephone-event.
ASSUME MediaAssumption ==
    /\ \A body \in ForeignOffer \cup ForeignAnswer : body.pts \in Seq(PayloadType)
    /\ \A body \in ForeignAnswer : ~IsEvent(body, 0) /\ ~IsEvent(body, 8)
    /\ TicksAt \in [{8, 16, 48} -> Nat \ {0}]

VARIABLES
    phase,   \* of the call
    offer,   \* the bodies, while they are looked at
    answer,
    ours,    \* the ends this crate runs
    view     \* the media each end goes by: RemoteMedia

vars == <<media, phase, offer, answer, ours, view>>

End == {"caller", "callee"}

NoBody == [pts |-> <<>>, map |-> <<>>, placed |-> FALSE]
NoMedia == [codec |-> None, opus |-> None, events |-> <<>>]
NoLine == [send |-> None, recv |-> None, audio |-> None, ticks |-> 0, unit |-> 0]

Init ==
    /\ Idle
    /\ line = NoLine
    /\ phase = "offering"
    /\ offer = NoBody
    /\ answer = NoBody
    /\ ours \in {{"caller"}, {"callee"}, End}
    /\ view = [e \in End |-> NoMedia]

-----------------------------------------------------------------------------
(* Offer and answer. *)

\* Caller::dial offers the full menu; another implementation what it likes.
Offer ==
    /\ phase = "offering"
    /\ \/ "caller" \in ours /\ offer' = FullMenu
       \/ "caller" \notin ours /\ offer' \in ForeignOffer
    /\ phase' = "answering"
    /\ UNCHANGED <<media, answer, ours, view>>

\* Fault: the call keeps the peer's first preference as its codec.
Selected_Unchanged(heardOf, codec) == heardOf

\* The RemoteMedia of the established call: its codec is our selection.
Selected(heardOf, codec) == [heardOf EXCEPT !.codec = codec]

\* IncomingCall::accept of an offer next_incoming_call could read.
Accept ==
    /\ phase = "answering"
    /\ "callee" \in ours
    /\ Readable(offer)
    /\ LET remote == Parse(offer)
           codec  == SelectCodec(remote)
       IN  /\ codec # None
           /\ answer' = Pinned(codec, SelectDtmf(remote, codec))
           /\ view' = [view EXCEPT !["callee"] = Selected(remote, codec)]
    /\ phase' = "answered"
    /\ UNCHANGED <<media, offer, ours>>

\* No usable offer (skipped), or no codec in it (488).
Refuse ==
    /\ phase = "answering"
    /\ "callee" \in ours
    /\ \/ ~Readable(offer)
       \/ SelectCodec(Parse(offer)) = None
    /\ phase' = "refused"
    /\ UNCHANGED <<media, offer, answer, ours, view>>

ForeignAccept ==
    /\ phase = "answering"
    /\ "callee" \notin ours
    /\ answer' \in ForeignAnswer
    /\ view' = [view EXCEPT !["callee"] = Parse(answer')]
    /\ phase' = "answered"
    /\ UNCHANGED <<media, offer, ours>>

\* Caller::dial with the 2xx: an answer it cannot read ends the attempt.
Establish ==
    /\ phase = "answered"
    /\ \/ /\ Readable(answer)
          /\ view' = [view EXCEPT !["caller"] = Parse(answer)]
          /\ phase' = "up"
       \/ /\ ~Readable(answer)
          /\ phase' = "refused"
          /\ view' = view
    /\ UNCHANGED <<media, offer, answer, ours>>

\* One end takes its keypad to the other: the number and clock are those of its
\* own view, and the receiver goes by those of its own.
OpenLine(from, to) ==
    /\ phase = "up"
    /\ \A e \in End : view[e].codec # None /\ DtmfOf(view[e]) # None
    /\ line' = [send  |-> DtmfOf(view[from]).pt,
                recv  |-> DtmfOf(view[to]).pt,
                audio |-> view[from].codec.pt,
                ticks |-> TicksAt[DtmfOf(view[from]).clock],
                unit  |-> TicksAt[DtmfOf(view[to]).clock]]
    /\ phase' = "talking"
    /\ offer' = NoBody
    /\ answer' = NoBody
    /\ view' = [e \in End |-> NoMedia]
    /\ ours' = End
    /\ UNCHANGED <<stream, clock, presses, sent, busy, wire, active, heard>>

Next ==
    \/ Offer
    \/ Accept
    \/ Refuse
    \/ ForeignAccept
    \/ Establish
    \/ \E from, to \in End : from # to /\ OpenLine(from, to)
    \/ phase = "talking" /\ Talk /\ UNCHANGED <<phase, offer, answer, ours, view>>

Spec == Init /\ [][Next]_vars

-----------------------------------------------------------------------------
(* Correctness. *)

ListedAs(body, pt) == IF \E i \in DOMAIN body.pts : body.pts[i] = pt
                      THEN Named(body, pt) ELSE None

\* G.711 on a number of the peer's own choice: the crate answers 0 or 8.
Renumbered(body) ==
    \E pt \in PayloadType : \/ pt # Pcmu.pt /\ ListedAs(body, pt) = "pcmu"
                            \/ pt # Pcma.pt /\ ListedAs(body, pt) = "pcma"

\* An offer that moves G.711 away and has its telephone-event on the static
\* number: the answer would need that number for both, and names the codec.
Clash(remote) ==
    remote.codec # None /\ DtmfOf(remote) # None /\ DtmfOf(remote).pt = remote.codec.pt

\* An answer of ours is within the offer (sdp.rs: "echo back only the codec we
\* selected from the offer, at the offer's own payload-type numbers"): what it
\* lists, the offer listed under the same number with the same meaning; it is
\* Opus wherever the offer had it, and its keypad runs at the codec's clock
\* wherever the offer had such an entry.
AnswerFits ==
    phase = "answered" /\ "callee" \in ours =>
        LET remote == Parse(offer)
            own == Parse(answer)
        IN  /\ \A i \in DOMAIN answer.pts :
                  \/ ListedAs(offer, answer.pts[i]) = ListedAs(answer, answer.pts[i])
                  \/ i = 1 /\ Renumbered(offer)
                  \/ Clash(view["callee"])
            /\ remote.opus # None => own.codec = Opus(remote.opus)
            /\ \/ Clash(view["callee"])
               \/ (\E i \in DOMAIN remote.events :
                      remote.events[i].clock = ClockOf(own.codec))
                    => DtmfOf(own).clock = ClockOf(own.codec)

\* Both ends of an established call go by the same codec and the same keypad,
\* and a hold or refresh that either of them offers says so again: no re-offer
\* invites another codec.
EndsAgree ==
    phase = "up" =>
        /\ view["caller"].codec = view["callee"].codec
        /\ \/ Clash(view["callee"])
           \/ DtmfOf(view["caller"]) = DtmfOf(view["callee"])
        /\ \A e \in ours :
              view[e].codec # None =>
                 LET again == Parse(Reoffer(view[e]))
                 IN  /\ again.codec = view[e].codec
                     /\ SelectCodec(again) = view[e].codec
                     /\ Clash(view[e]) \/ DtmfOf(again) = DtmfOf(view[e])

\* Presses are told apart by wrapping timestamps: of what the network may still
\* deliver, a later press than the one the receiver goes by is taken for a new
\* one, the same press for the same, an earlier one for a straggler.
PressesToldApart ==
    \A p \in wire : p \in Deliverable =>
        /\ p.press > active.press => ~Same(p) /\ ~Straggler(p)
        /\ p.press = active.press => Same(p)
        /\ p.press < active.press => ~Same(p) /\ Straggler(p)

\* The keypad at the far end is the one of the near end, as Keypad promises, and
\* a release tells how long its key was held by the clock the receiver itself
\* has negotiated.  That is what a tick means: dtmf_recv.rs's "ticks at 8 kHz
\* (divide by 8 for milliseconds)" is wrong by six on a line at 48 kHz.
Held(p) == Saturated(p.hold * line.unit)
Pressed == [i \in DOMAIN presses |->
              [key |-> presses[i].key, length |-> Held(presses[i])]]
Remote == INSTANCE Keypad WITH Length <- 0..MaxDuration, made <- Pressed, heard <- heard
KeysHeard == Remote!Spec

=============================================================================
