---------------------------- MODULE MediaProofs ----------------------------
(***************************************************************************)
(* Proofs about Sdp, DtmfRtp and their composition in Media.               *)
(***************************************************************************)
EXTENDS Media, SequenceTheorems, WellFoundedInduction, TLAPS

-----------------------------------------------------------------------------
(* The first member of a list that is wanted. *)

LEMMA Least ==
    ASSUME NEW S \in SUBSET Nat, S # {}
    PROVE  \E n \in S : \A k \in S : n <= k
<1>1. IsWellFoundedOn(OpToRel(<, Nat), Nat)
  BY NatLessThanWellFounded
<1>2. PICK n \in S : \A k \in S : ~ (<<k, n>> \in OpToRel(<, Nat))
  BY <1>1, WFMin
<1>3. \A k \in S : ~ (k < n)
  BY <1>2 DEF OpToRel
<1> QED BY <1>3

LEMMA FirstAt ==
    ASSUME NEW s, NEW S, DOMAIN s \subseteq Nat, NEW i \in DOMAIN s, s[i] \in S,
           \A j \in DOMAIN s : j < i => s[j] \notin S
    PROVE  First(s, S) = s[i]
<1> DEFINE At(k) == s[k] \in S /\ \A j \in DOMAIN s : j < k => s[j] \notin S
           c == CHOOSE k \in DOMAIN s : At(k)
<1>1. c \in DOMAIN s /\ At(c)
  OBVIOUS
<1>2. c = i
  <2>1. ~ (c < i) /\ ~ (i < c)
    BY <1>1
  <2>2. c \in Nat /\ i \in Nat
    BY <1>1
  <2> QED BY <2>1, <2>2
<1>3. First(s, S) = s[c]
  BY DEF First
<1> QED BY <1>2, <1>3

LEMMA FirstFound ==
    ASSUME NEW s, NEW S, DOMAIN s \subseteq Nat, \E i \in DOMAIN s : s[i] \in S
    PROVE  \E i \in DOMAIN s :
              /\ s[i] \in S /\ First(s, S) = s[i]
              /\ \A j \in DOMAIN s : j < i => s[j] \notin S
<1> DEFINE W == {i \in DOMAIN s : s[i] \in S}
<1>1. PICK i \in W : \A k \in W : i <= k
  BY Least
<1>2. \A j \in DOMAIN s : j < i => s[j] \notin S
  BY <1>1
<1> QED BY <1>1, <1>2, FirstAt

LEMMA FirstMissing ==
    ASSUME NEW s, NEW S, \A i \in DOMAIN s : s[i] \notin S
    PROVE  First(s, S) = None
BY DEF First

-----------------------------------------------------------------------------
(* What a body says. *)

Listing(body) == body.pts \in Seq(PayloadType)

\* A number on the list that a body gives to a telephone-event.
EventsOf(body) == {i \in DOMAIN body.pts : IsEvent(body, body.pts[i])}

LEMMA EventTyped ==
    ASSUME NEW body, NEW pt \in PayloadType, IsEvent(body, pt)
    PROVE  /\ EventAt(body, pt) \in DtmfSpec
           /\ EventAt(body, pt).pt = pt
           /\ EventName(EventAt(body, pt)) = body.map[pt]
           /\ Named(body, pt) = body.map[pt]
           /\ body.map[pt] \in {"event8k", "event16k", "event48k"}
<1>1. body.map[pt] \in DOMAIN EventClock
  BY DEF IsEvent
<1>2. /\ DOMAIN EventClock = {"event8k", "event16k", "event48k"}
      /\ EventClock["event8k"] = 8 /\ EventClock["event16k"] = 16
      /\ EventClock["event48k"] = 48
  BY DEF EventClock
<1>3. EventClock[body.map[pt]] \in {8, 16, 48}
  BY <1>1, <1>2
<1>4. \A name \in DOMAIN EventClock :
         EventClock[name] = EventClock[body.map[pt]] => name = body.map[pt]
  BY <1>1, <1>2
<1>5. EventName(EventAt(body, pt)) = body.map[pt]
  BY <1>1, <1>4 DEF EventName, EventAt
<1>6. Named(body, pt) = body.map[pt]
  BY DEF Named, IsEvent
<1> QED BY <1>1, <1>2, <1>3, <1>5, <1>6 DEF EventAt, DtmfSpec

LEMMA ListingPlaces ==
    ASSUME NEW body, Listing(body)
    PROVE  /\ DOMAIN body.pts \subseteq Nat
           /\ \A i \in DOMAIN body.pts : body.pts[i] \in PayloadType
<1>1. DOMAIN body.pts = 1..Len(body.pts) /\ Len(body.pts) \in Nat
  BY DEF Listing
<1> QED BY <1>1, ElementOfSeq DEF Listing

LEMMA ParsedEvents ==
    ASSUME NEW body, Listing(body)
    PROVE  LET events == Parse(body).events
           IN  /\ DOMAIN events = EventsOf(body)
               /\ DOMAIN events \subseteq Nat
               /\ \A i \in DOMAIN events :
                     /\ events[i] = EventAt(body, body.pts[i])
                     /\ events[i] \in DtmfSpec
<1>1. Parse(body).events = [i \in EventsOf(body) |-> EventAt(body, body.pts[i])]
  BY DEF Parse, EventsOf
<1> QED BY <1>1, ListingPlaces, EventTyped DEF EventsOf

LEMMA ParsedCodec ==
    ASSUME NEW body, Listing(body)
    PROVE  LET known == {"opus", "pcmu", "pcma"}
               codec == Parse(body).codec
           IN  \/ codec = None
               \/ /\ codec \in Codec
                  /\ \E i \in DOMAIN body.pts :
                        /\ codec = Resolve(body, body.pts[i])
                        /\ codec.name = Named(body, body.pts[i])
<1> DEFINE known == {"opus", "pcmu", "pcma"}
           pt == First(body.pts, Called(body, known))
<1>1. Parse(body).codec = Resolve(body, pt)
  BY DEF Parse
<1>2. CASE \E i \in DOMAIN body.pts : body.pts[i] \in Called(body, known)
  <2>1. PICK i \in DOMAIN body.pts : body.pts[i] \in Called(body, known) /\ pt = body.pts[i]
    BY <1>2, ListingPlaces, FirstFound
  <2>2. pt \in PayloadType /\ pt # None /\ Named(body, pt) \in known
    BY <2>1, NoneAssumption DEF Called
  <2>3. /\ Named(body, pt) = "opus" => Resolve(body, pt) = Opus(pt)
        /\ Named(body, pt) = "pcmu" => Resolve(body, pt) = Pcmu
        /\ Named(body, pt) = "pcma" => Resolve(body, pt) = Pcma
    BY <2>2 DEF Resolve
  <2>4. Resolve(body, pt) \in Codec /\ Resolve(body, pt).name = Named(body, pt)
    BY <2>2, <2>3 DEF Codec, Opus, Pcmu, Pcma
  <2> QED BY <1>1, <2>1, <2>4
<1>3. CASE \A i \in DOMAIN body.pts : body.pts[i] \notin Called(body, known)
  <2>1. pt = None
    BY <1>3, FirstMissing
  <2> QED BY <1>1, <2>1 DEF Resolve
<1> QED BY <1>2, <1>3

LEMMA ParsedOpus ==
    ASSUME NEW body, Listing(body), Parse(body).opus # None
    PROVE  /\ Parse(body).opus \in PayloadType
           /\ Named(body, Parse(body).opus) = "opus"
           /\ \E i \in DOMAIN body.pts : body.pts[i] = Parse(body).opus
<1> DEFINE W == Called(body, {"opus"})
<1>1. Parse(body).opus = First(body.pts, W)
  BY DEF Parse
<1>2. \E i \in DOMAIN body.pts : body.pts[i] \in W
  BY <1>1, FirstMissing
<1>3. PICK i \in DOMAIN body.pts : body.pts[i] \in W /\ First(body.pts, W) = body.pts[i]
  BY <1>2, ListingPlaces, FirstFound
<1> QED BY <1>1, <1>3 DEF Called

-----------------------------------------------------------------------------
(* What is chosen. *)

\* What Parse puts among the events of a RemoteMedia.
Events(remote) ==
    /\ DOMAIN remote.events \subseteq Nat
    /\ \A i \in DOMAIN remote.events : remote.events[i] \in DtmfSpec

\* select_dtmf chooses one of the events if there are any, and one with the
\* codec's clock if there are any of those.
LEMMA DtmfSelected ==
    ASSUME NEW remote, NEW codec, Events(remote)
    PROVE  LET dtmf == SelectDtmf(remote, codec)
           IN  /\ dtmf = None <=> DOMAIN remote.events = {}
               /\ dtmf # None => \E i \in DOMAIN remote.events : dtmf = remote.events[i]
               /\ (\E i \in DOMAIN remote.events : remote.events[i].clock = ClockOf(codec))
                     => dtmf.clock = ClockOf(codec)
<1> DEFINE Clocked == [pt : PayloadType, clock : {ClockOf(codec)}]
           match == First(remote.events, Clocked)
<1>1. \A i \in DOMAIN remote.events :
         remote.events[i] \in Clocked <=> remote.events[i].clock = ClockOf(codec)
  BY DEF Events, DtmfSpec
<1>2. SelectDtmf(remote, codec) = IF match # None THEN match
                                  ELSE First(remote.events, DtmfSpec)
  BY DEF SelectDtmf
<1>3. CASE \E i \in DOMAIN remote.events : remote.events[i].clock = ClockOf(codec)
  <2>1. PICK i \in DOMAIN remote.events :
           remote.events[i] \in Clocked /\ match = remote.events[i]
    <3>1. \E i \in DOMAIN remote.events : remote.events[i] \in Clocked
      BY <1>1, <1>3
    <3> HIDE DEF Clocked
    <3> QED BY <3>1, FirstFound DEF Events
  <2>2. match # None
    BY <2>1, NoneAssumption DEF Events
  <2> QED BY <1>1, <1>2, <2>1, <2>2
<1>4. CASE \A i \in DOMAIN remote.events : remote.events[i].clock # ClockOf(codec)
  <2>1. match = None
    BY <1>1, <1>4, FirstMissing
  <2>2. CASE DOMAIN remote.events = {}
    BY <1>2, <2>1, <2>2, FirstMissing
  <2>3. CASE DOMAIN remote.events # {}
    <3>1. PICK i \in DOMAIN remote.events : First(remote.events, DtmfSpec) = remote.events[i]
      BY <2>3, FirstFound DEF Events
    <3> QED BY <1>2, <1>4, <2>1, <3>1, NoneAssumption DEF Events
  <2> QED BY <2>2, <2>3
<1> QED BY <1>3, <1>4

\* The menu of every answer and re-offer: the codec, then the keypad.
LEMMA PinnedLists ==
    ASSUME NEW codec \in Codec, NEW dtmf \in DtmfSpec \cup {None}
    PROVE  LET body == Pinned(codec, dtmf)
           IN  /\ Listing(body) /\ Readable(body)
               /\ DOMAIN body.pts = IF dtmf = None THEN {1} ELSE {1, 2}
               /\ body.pts[1] = codec.pt
               /\ dtmf # None => body.pts[2] = dtmf.pt
               /\ Named(body, codec.pt) = codec.name
               /\ ~ IsEvent(body, codec.pt)
               /\ dtmf # None =>
                     /\ EventName(dtmf) \notin {"opus", "pcmu", "pcma"}
                     /\ dtmf.pt # codec.pt =>
                           /\ Named(body, dtmf.pt) = EventName(dtmf)
                           /\ IsEvent(body, dtmf.pt)
                           /\ EventAt(body, dtmf.pt) = dtmf
<1> DEFINE body == Pinned(codec, dtmf)
<1>1. codec.pt \in PayloadType /\ codec.name \in {"opus", "pcmu", "pcma"}
  BY DEF Codec, Opus, Pcmu, Pcma, PayloadType
<1>2. dtmf # None => dtmf.pt \in PayloadType /\ dtmf.clock \in {8, 16, 48}
  BY DEF DtmfSpec
<1>3. /\ body.pts = IF dtmf = None THEN <<codec.pt>> ELSE <<codec.pt, dtmf.pt>>
      /\ body.placed
      /\ body.map = [pt \in {codec.pt} \cup (IF dtmf = None THEN {} ELSE {dtmf.pt}) |->
                        IF pt = codec.pt THEN codec.name ELSE EventName(dtmf)]
  BY DEF Pinned
<1>4. Listing(body) /\ Readable(body)
  BY <1>1, <1>2, <1>3 DEF Listing, Readable
<1>5. /\ DOMAIN body.pts = IF dtmf = None THEN {1} ELSE {1, 2}
      /\ body.pts[1] = codec.pt
      /\ dtmf # None => body.pts[2] = dtmf.pt
  BY <1>3
<1>6. Named(body, codec.pt) = codec.name /\ ~ IsEvent(body, codec.pt)
  BY <1>1, <1>3 DEF Named, IsEvent, EventClock
<1>7. ASSUME dtmf # None
      PROVE  /\ EventName(dtmf) \in DOMAIN EventClock
             /\ EventName(dtmf) \notin {"opus", "pcmu", "pcma"}
             /\ EventClock[EventName(dtmf)] = dtmf.clock
  BY <1>2, <1>7 DEF EventName, EventClock
<1>8. ASSUME dtmf # None, dtmf.pt # codec.pt
      PROVE  /\ Named(body, dtmf.pt) = EventName(dtmf)
             /\ IsEvent(body, dtmf.pt)
             /\ EventAt(body, dtmf.pt) = dtmf
  <2>1. dtmf.pt \in DOMAIN body.map /\ body.map[dtmf.pt] = EventName(dtmf)
    BY <1>3, <1>8
  <2> QED BY <2>1, <1>7, <1>8 DEF Named, IsEvent, EventAt, DtmfSpec
<1> QED BY <1>4, <1>5, <1>6, <1>7, <1>8

\* An answer or a re-offer of ours, read by the other end: the codec, wherever it
\* is asked for, and the keypad unless it has the codec's number.
LEMMA PinnedRead ==
    ASSUME NEW codec \in Codec, NEW dtmf \in DtmfSpec \cup {None}
    PROVE  LET remote == Parse(Pinned(codec, dtmf))
           IN  /\ remote.codec = codec
               /\ SelectCodec(remote) = codec
               /\ dtmf = None \/ dtmf.pt # codec.pt => DtmfOf(remote) = dtmf
<1> DEFINE body == Pinned(codec, dtmf)
           remote == Parse(body)
           known == {"opus", "pcmu", "pcma"}
<1> HIDE DEF body
<1>1. codec.pt \in PayloadType /\ codec.pt # None /\ codec.name \in known
  BY NoneAssumption DEF Codec, Opus, Pcmu, Pcma, PayloadType
<1>2. /\ Listing(body) /\ Readable(body)
      /\ DOMAIN body.pts = IF dtmf = None THEN {1} ELSE {1, 2}
      /\ body.pts[1] = codec.pt
      /\ dtmf # None => body.pts[2] = dtmf.pt
      /\ Named(body, codec.pt) = codec.name
      /\ ~ IsEvent(body, codec.pt)
      /\ dtmf # None =>
            /\ EventName(dtmf) \notin known
            /\ dtmf.pt # codec.pt =>
                  /\ Named(body, dtmf.pt) = EventName(dtmf)
                  /\ IsEvent(body, dtmf.pt)
                  /\ EventAt(body, dtmf.pt) = dtmf
  BY PinnedLists DEF body
<1>3. DOMAIN body.pts \subseteq Nat /\ 1 \in DOMAIN body.pts
  BY <1>2
<1>4. /\ codec.name = "opus" => codec = Opus(codec.pt)
      /\ codec.name = "pcmu" => codec = Pcmu
      /\ codec.name = "pcma" => codec = Pcma
  BY DEF Codec, Opus, Pcmu, Pcma
<1>5. remote.codec = codec
  <2>1. \A j \in DOMAIN body.pts : ~ (j < 1)
    BY <1>2
  <2>2. body.pts[1] \in Called(body, known)
    BY <1>1, <1>2 DEF Called
  <2>3. First(body.pts, Called(body, known)) = codec.pt
    BY <1>2, <1>3, <2>1, <2>2, FirstAt
  <2>4. remote.codec = Resolve(body, codec.pt)
    BY <2>3 DEF Parse
  <2> QED BY <1>1, <1>2, <1>4, <2>4 DEF Resolve
<1>6. remote.opus # None => remote.opus = codec.pt /\ codec.name = "opus"
  <2>1. ASSUME remote.opus # None PROVE remote.opus = codec.pt
    <3>1. PICK i \in DOMAIN body.pts : body.pts[i] = remote.opus
      BY <1>2, <2>1, ParsedOpus
    <3>2. Named(body, remote.opus) = "opus"
      BY <1>2, <2>1, ParsedOpus
    <3>3. body.pts[i] = codec.pt \/ (dtmf # None /\ body.pts[i] = dtmf.pt)
      BY <1>2, <3>1
    <3> QED BY <1>2, <3>1, <3>2, <3>3
  <2> QED BY <2>1, <1>2, ParsedOpus
<1>7. codec.name = "opus" => remote.opus # None
  <2>1. ASSUME codec.name = "opus" PROVE body.pts[1] \in Called(body, {"opus"})
    BY <1>1, <1>2, <2>1 DEF Called
  <2>2. codec.name = "opus" => \E i \in DOMAIN body.pts :
           First(body.pts, Called(body, {"opus"})) = body.pts[i] /\ body.pts[i] \in PayloadType
    BY <2>1, <1>3, FirstFound DEF Called
  <2> QED BY <2>2, NoneAssumption DEF Parse
<1>8. SelectCodec(remote) = codec
  BY <1>4, <1>5, <1>6, <1>7 DEF SelectCodec
<1>9. ASSUME dtmf = None \/ dtmf.pt # codec.pt PROVE DtmfOf(remote) = dtmf
  <2>1. DtmfOf(remote) = SelectDtmf(remote, codec)
    BY <1>5, NoneAssumption DEF DtmfOf
  <2>2. Events(remote) /\ DOMAIN remote.events = EventsOf(body)
    BY <1>2, ParsedEvents DEF Events
  <2>3. CASE dtmf = None
    <3>1. EventsOf(body) = {}
      BY <1>2, <2>3 DEF EventsOf
    <3> QED BY <2>1, <2>2, <2>3, <3>1, DtmfSelected
  <2>4. CASE dtmf # None
    <3>1. EventsOf(body) = {2}
      BY <1>2, <1>9, <2>4 DEF EventsOf
    <3>2. remote.events[2] = dtmf
      BY <1>2, <1>9, <2>2, <2>4, <3>1, ParsedEvents
    <3>3. SelectDtmf(remote, codec) = remote.events[2]
      BY <2>2, <3>1, DtmfSelected
    <3> QED BY <2>1, <3>2, <3>3
  <2> QED BY <2>3, <2>4
<1> QED BY <1>5, <1>8, <1>9 DEF body

-----------------------------------------------------------------------------
(* What is negotiated (AnswerFits, EndsAgree). *)

Negotiated ==
    /\ DOMAIN view = End /\ ours \subseteq End
    /\ phase \in {"answering", "answered", "up"} => Listing(offer)
    /\ phase \in {"answered", "up"} /\ "callee" \in ours =>
          LET remote == Parse(offer)
              codec  == SelectCodec(remote)
          IN  /\ codec # None
              /\ answer = Pinned(codec, SelectDtmf(remote, codec))
              /\ view["callee"] = Selected(remote, codec)
    /\ phase \in {"answered", "up"} /\ "callee" \notin ours =>
          answer \in ForeignAnswer /\ view["callee"] = Parse(answer)
    /\ phase = "up" => view["caller"] = Parse(answer)

\* What either end of an established call goes by is made of a body's entries.
LEMMA CodecSelected ==
    ASSUME NEW body, Listing(body), SelectCodec(Parse(body)) # None
    PROVE  /\ SelectCodec(Parse(body)) \in Codec
           /\ SelectDtmf(Parse(body), SelectCodec(Parse(body))) \in DtmfSpec \cup {None}
           /\ DtmfOf(Selected(Parse(body), SelectCodec(Parse(body)))) =
                 SelectDtmf(Parse(body), SelectCodec(Parse(body)))
           /\ Selected(Parse(body), SelectCodec(Parse(body))).codec = SelectCodec(Parse(body))
<1> DEFINE remote == Parse(body)
           codec == SelectCodec(remote)
<1>1. codec \in Codec
  BY ParsedCodec, ParsedOpus DEF SelectCodec, Codec
<1>2. Events(remote)
  BY ParsedEvents DEF Events
<1>3. SelectDtmf(remote, codec) \in DtmfSpec \cup {None}
  <2> HIDE DEF remote, codec
  <2> QED BY <1>2, DtmfSelected DEF Events
<1>4. Selected(remote, codec).events = remote.events /\ Selected(remote, codec).codec = codec
  BY DEF Selected, Parse
<1>5. DtmfOf(Selected(remote, codec)) = SelectDtmf(remote, codec)
  <2>1. codec # None
    OBVIOUS
  <2> HIDE DEF remote, codec
  <2> QED BY <2>1, <1>4 DEF DtmfOf, SelectDtmf
<1> QED BY <1>1, <1>3, <1>4, <1>5

LEMMA NegotiatedInitially == Init => Negotiated
BY DEF Init, Negotiated, End

LEMMA FullMenuLists == Listing(FullMenu)
BY DEF Listing, FullMenu, PayloadType

LEMMA NegotiatedStep ==
    ASSUME Negotiated, [Next]_vars
    PROVE  Negotiated'
<1>1. CASE UNCHANGED <<phase, offer, answer, ours, view>>
  BY <1>1 DEF Negotiated
<1>2. CASE Offer
  <2>1. Listing(offer')
    BY <1>2, FullMenuLists, MediaAssumption DEF Offer, Listing
  <2> QED BY <1>2, <2>1 DEF Offer, Negotiated
<1>3. CASE Accept
  BY <1>3 DEF Accept, Negotiated, End
<1>4. CASE Refuse
  BY <1>4 DEF Refuse, Negotiated
<1>5. CASE ForeignAccept
  BY <1>5 DEF ForeignAccept, Negotiated, End
<1>6. CASE Establish
  BY <1>6 DEF Establish, Negotiated, End
<1>7. ASSUME NEW from \in End, NEW to \in End, OpenLine(from, to) PROVE Negotiated'
  BY <1>7 DEF OpenLine, Negotiated
<1> QED BY <1>1, <1>2, <1>3, <1>4, <1>5, <1>6, <1>7 DEF Next, vars

\* An answer of ours against the offer it answers.
LEMMA AnswerOfOurs ==
    ASSUME Negotiated, phase = "answered", "callee" \in ours
    PROVE  AnswerFits
<1> DEFINE remote == Parse(offer)
           codec == SelectCodec(remote)
           dtmf == SelectDtmf(remote, codec)
           own == Parse(answer)
<1>1. Listing(offer) /\ codec # None
  BY DEF Negotiated
<1>2. /\ answer = Pinned(codec, dtmf)
      /\ view["callee"] = Selected(remote, codec)
  BY DEF Negotiated
<1>3. /\ codec \in Codec /\ dtmf \in DtmfSpec \cup {None}
      /\ DtmfOf(view["callee"]) = dtmf /\ view["callee"].codec = codec
  BY <1>1, <1>2, CodecSelected
<1>4. Clash(view["callee"]) <=> dtmf # None /\ dtmf.pt = codec.pt
  BY <1>1, <1>3 DEF Clash
<1>5. /\ own.codec = codec
      /\ ~ Clash(view["callee"]) => DtmfOf(own) = dtmf
  <2> HIDE DEF codec, dtmf
  <2> QED BY <1>2, <1>3, <1>4, PinnedRead
<1>6. /\ DOMAIN answer.pts = IF dtmf = None THEN {1} ELSE {1, 2}
      /\ answer.pts[1] = codec.pt
      /\ ListedAs(answer, codec.pt) = codec.name
      /\ dtmf # None =>
            /\ answer.pts[2] = dtmf.pt
            /\ ~ Clash(view["callee"]) => ListedAs(answer, dtmf.pt) = EventName(dtmf)
  <2> HIDE DEF codec, dtmf
  <2>1. /\ DOMAIN answer.pts = IF dtmf = None THEN {1} ELSE {1, 2}
        /\ answer.pts[1] = codec.pt
        /\ dtmf # None => answer.pts[2] = dtmf.pt
        /\ Named(answer, codec.pt) = codec.name
        /\ dtmf # None /\ dtmf.pt # codec.pt => Named(answer, dtmf.pt) = EventName(dtmf)
    BY <1>2, <1>3, PinnedLists
  <2> QED BY <2>1, <1>4 DEF ListedAs
<1>7. ListedAs(offer, codec.pt) = codec.name \/ Renumbered(offer)
  <2>1. CASE remote.opus # None
    BY <1>1, <2>1, ParsedOpus DEF SelectCodec, ListedAs, Opus
  <2>2. CASE remote.opus = None
    <3>1. codec = remote.codec
      BY <2>2 DEF SelectCodec
    <3>2. PICK i \in DOMAIN offer.pts :
             codec = Resolve(offer, offer.pts[i]) /\ codec.name = Named(offer, offer.pts[i])
      BY <1>1, <3>1, ParsedCodec
    <3>3. offer.pts[i] \in PayloadType /\ offer.pts[i] # None
      BY <1>1, <3>2, ListingPlaces, NoneAssumption
    <3>4. ListedAs(offer, offer.pts[i]) = codec.name
      BY <3>2 DEF ListedAs
    <3>5. CASE codec.name = "opus"
      BY <3>2, <3>3, <3>4, <3>5 DEF Resolve, Opus
    <3>6. CASE codec.name = "pcmu"
      <4>1. codec.pt = Pcmu.pt
        BY <3>2, <3>3, <3>6 DEF Resolve
      <4> QED BY <3>3, <3>4, <3>6, <4>1 DEF Renumbered
    <3>7. CASE codec.name = "pcma"
      <4>1. codec.pt = Pcma.pt
        BY <3>2, <3>3, <3>7 DEF Resolve
      <4> QED BY <3>3, <3>4, <3>7, <4>1 DEF Renumbered
    <3> HIDE DEF codec
    <3> QED BY <1>3, <3>5, <3>6, <3>7 DEF Codec, Opus, Pcmu, Pcma
  <2> QED BY <2>1, <2>2
<1>8. dtmf # None => ListedAs(offer, dtmf.pt) = EventName(dtmf)
  <2>1. ASSUME dtmf # None PROVE ListedAs(offer, dtmf.pt) = EventName(dtmf)
    <3>1. Events(remote) /\ DOMAIN remote.events = EventsOf(offer)
      BY <1>1, ParsedEvents DEF Events
    <3>2. PICK i \in DOMAIN remote.events : dtmf = remote.events[i]
      <4> HIDE DEF remote, codec
      <4> QED BY <2>1, <3>1, DtmfSelected
    <3>3. /\ i \in DOMAIN offer.pts /\ IsEvent(offer, offer.pts[i])
          /\ dtmf = EventAt(offer, offer.pts[i])
      BY <1>1, <3>1, <3>2, ParsedEvents DEF EventsOf
    <3>4. offer.pts[i] \in PayloadType
      BY <1>1, <3>3, ListingPlaces
    <3>5. dtmf.pt = offer.pts[i] /\ EventName(dtmf) = Named(offer, offer.pts[i])
      <4> HIDE DEF dtmf
      <4> QED BY <3>3, <3>4, EventTyped
    <3> HIDE DEF dtmf
    <3> QED BY <3>3, <3>5 DEF ListedAs
  <2> QED BY <2>1
<1>9. ASSUME NEW i \in DOMAIN answer.pts
      PROVE  \/ ListedAs(offer, answer.pts[i]) = ListedAs(answer, answer.pts[i])
             \/ i = 1 /\ Renumbered(offer)
             \/ Clash(view["callee"])
  <2> HIDE DEF codec, dtmf
  <2>1. i = 1 \/ (i = 2 /\ dtmf # None)
    BY <1>6
  <2> QED BY <2>1, <1>6, <1>7, <1>8
<1>10. remote.opus # None => own.codec = Opus(remote.opus)
  BY <1>5 DEF SelectCodec
<1>11. \/ Clash(view["callee"])
       \/ (\E i \in DOMAIN remote.events : remote.events[i].clock = ClockOf(own.codec))
             => DtmfOf(own).clock = ClockOf(own.codec)
  <2>1. Events(remote)
    BY <1>1, ParsedEvents DEF Events
  <2> HIDE DEF remote, codec, own
  <2> QED BY <2>1, <1>5, DtmfSelected
<1> QED BY <1>9, <1>10, <1>11 DEF AnswerFits

\* A re-offer says again what the end that makes it goes by.
LEMMA ReofferRead ==
    ASSUME NEW remote, remote.codec \in Codec, DtmfOf(remote) \in DtmfSpec \cup {None}
    PROVE  LET again == Parse(Reoffer(remote))
           IN  /\ again.codec = remote.codec
               /\ SelectCodec(again) = remote.codec
               /\ Clash(remote) \/ DtmfOf(again) = DtmfOf(remote)
<1>1. remote.codec # None
  BY NoneAssumption
<1>2. Reoffer(remote) = Pinned(remote.codec, DtmfOf(remote))
  BY <1>1 DEF Reoffer
<1>3. Clash(remote) \/ DtmfOf(remote) = None \/ DtmfOf(remote).pt # remote.codec.pt
  BY <1>1 DEF Clash
<1> QED BY <1>2, <1>3, PinnedRead

LEMMA ParsedTyped ==
    ASSUME NEW body, Listing(body), Parse(body).codec # None
    PROVE  /\ Parse(body).codec \in Codec
           /\ DtmfOf(Parse(body)) \in DtmfSpec \cup {None}
<1>1. Parse(body).codec \in Codec
  BY ParsedCodec
<1>2. Events(Parse(body))
  BY ParsedEvents DEF Events
<1>3. DtmfOf(Parse(body)) = SelectDtmf(Parse(body), Parse(body).codec)
  BY DEF DtmfOf
<1>4. SelectDtmf(Parse(body), Parse(body).codec) \in DtmfSpec \cup {None}
  BY <1>2, DtmfSelected DEF Events
<1> QED BY <1>1, <1>3, <1>4

LEMMA EndsOfACall ==
    ASSUME Negotiated, phase = "up"
    PROVE  EndsAgree
<1> DEFINE remote == Parse(offer)
           codec == SelectCodec(remote)
           dtmf == SelectDtmf(remote, codec)
           Says(m) == LET again == Parse(Reoffer(m))
                           IN  /\ again.codec = m.codec
                               /\ SelectCodec(again) = m.codec
                               /\ Clash(m) \/ DtmfOf(again) = DtmfOf(m)
<1>1. view["caller"] = Parse(answer) /\ ours \subseteq {"caller", "callee"}
  BY DEF Negotiated, End
<1>2. CASE "callee" \notin ours
  <2>1. answer \in ForeignAnswer /\ view["callee"] = view["caller"]
    BY <1>1, <1>2 DEF Negotiated
  <2>2. Listing(answer)
    BY <2>1, MediaAssumption DEF Listing
  <2>3. view["caller"].codec # None => Says(view["caller"])
    BY <1>1, <2>2, ParsedTyped, ReofferRead
  <2> HIDE DEF Says
  <2>4. \A e \in ours : view[e].codec # None => Says(view[e])
    BY <1>1, <1>2, <2>3
  <2> QED BY <2>1, <2>4 DEF EndsAgree, Says
<1>3. CASE "callee" \in ours
  <2>1. /\ Listing(offer) /\ codec # None
        /\ answer = Pinned(codec, dtmf) /\ view["callee"] = Selected(remote, codec)
    BY <1>3 DEF Negotiated
  <2>2. /\ codec \in Codec /\ dtmf \in DtmfSpec \cup {None}
        /\ DtmfOf(view["callee"]) = dtmf /\ view["callee"].codec = codec
    BY <2>1, CodecSelected
  <2>3. Clash(view["callee"]) \/ dtmf = None \/ dtmf.pt # codec.pt
    BY <2>1, <2>2 DEF Clash
  <2> HIDE DEF codec, dtmf
  <2>4. /\ Listing(answer) /\ view["caller"].codec = codec
        /\ Clash(view["callee"]) \/ DtmfOf(view["caller"]) = dtmf
    BY <1>1, <2>1, <2>2, <2>3, PinnedLists, PinnedRead
  <2>5. Says(view["callee"])
    BY <2>2, ReofferRead
  <2>6. Says(view["caller"])
    BY <1>1, <2>1, <2>4, ParsedTyped, ReofferRead
  <2> HIDE DEF Says
  <2>7. \A e \in ours : view[e].codec # None => Says(view[e])
    BY <1>1, <2>5, <2>6
  <2> QED BY <2>2, <2>4, <2>7 DEF EndsAgree, Says
<1> QED BY <1>2, <1>3

\* What this crate answers is within what it was offered, whatever that was
\* (sdp.rs, select_codec, select_dtmf and build_sdp_with).
THEOREM AnswersFit == Spec => []AnswerFits
<1>1. Negotiated => AnswerFits
  BY AnswerOfOurs DEF AnswerFits
<1> QED BY <1>1, NegotiatedInitially, NegotiatedStep, PTL DEF Spec

\* Both ends of an established call go by the same codec and keypad, and no hold
\* or refresh of theirs offers another (callee.rs accept, Call::set_hold).
THEOREM EndsOfCallsAgree == Spec => []EndsAgree
<1>1. Negotiated => EndsAgree
  BY EndsOfACall DEF EndsAgree
<1> QED BY <1>1, NegotiatedInitially, NegotiatedStep, PTL DEF Spec

-----------------------------------------------------------------------------
(* The line that is opened. *)

\* Nothing has been pressed before the line is open; on an open line, sound and
\* keypad have numbers of their own and both ends the same clock.
Opened ==
    /\ phase # "talking" => Idle
    /\ phase = "talking" =>
          /\ line.audio # line.recv
          /\ line.ticks \in Nat \ {0}
          /\ line.unit = line.ticks

\* A keypad that would have the codec's number is never opened: our answer leaves
\* it out for the other end, and an answer to our menu has none there.
LEMMA NumbersDiffer ==
    ASSUME Negotiated, phase = "up",
           \A e \in End : view[e].codec # None /\ DtmfOf(view[e]) # None
    PROVE  ~ Clash(view["callee"])
<1> SUFFICES ASSUME Clash(view["callee"]) PROVE FALSE
  OBVIOUS
<1>1. /\ view["caller"] = Parse(answer) /\ "caller" \in End /\ "callee" \in End
      /\ DtmfOf(view["caller"]) # None
  BY DEF Negotiated, End
<1>2. CASE "callee" \in ours
  <2> DEFINE remote == Parse(offer)
             codec == SelectCodec(remote)
             dtmf == SelectDtmf(remote, codec)
             body == Pinned(codec, dtmf)
  <2>1. /\ Listing(offer) /\ codec # None
        /\ answer = body /\ view["callee"] = Selected(remote, codec)
    BY <1>2 DEF Negotiated
  <2>2. /\ codec \in Codec /\ dtmf \in DtmfSpec \cup {None}
        /\ dtmf # None /\ dtmf.pt = codec.pt
    BY <2>1, CodecSelected DEF Clash
  <2> HIDE DEF codec, dtmf
  <2>3. /\ Listing(body) /\ ~ IsEvent(body, codec.pt)
        /\ \A i \in DOMAIN body.pts : body.pts[i] = codec.pt
    BY <2>2, PinnedLists
  <2>4. EventsOf(body) = {}
    BY <2>3 DEF EventsOf
  <2>5. Parse(body).codec = codec /\ Events(Parse(body)) /\ DOMAIN Parse(body).events = {}
    BY <2>2, <2>3, <2>4, PinnedRead, ParsedEvents DEF Events
  <2>6. DtmfOf(Parse(body)) = None
    BY <2>1, <2>5, DtmfSelected DEF DtmfOf
  <2> QED BY <1>1, <2>1, <2>6
<1>3. CASE "callee" \notin ours
  <2> DEFINE remote == Parse(answer)
             codec == remote.codec
             dtmf == DtmfOf(remote)
  <2>1. answer \in ForeignAnswer /\ view["callee"] = remote
    BY <1>3 DEF Negotiated
  <2>2. Listing(answer) /\ ~ IsEvent(answer, 0) /\ ~ IsEvent(answer, 8)
    BY <2>1, MediaAssumption DEF Listing
  <2>3. codec # None /\ dtmf # None /\ dtmf.pt = codec.pt
    BY <2>1 DEF Clash
  <2>4. PICK i \in DOMAIN answer.pts :
           codec = Resolve(answer, answer.pts[i]) /\ codec.name = Named(answer, answer.pts[i])
    BY <2>2, <2>3, ParsedCodec
  <2>5. answer.pts[i] \in PayloadType /\ answer.pts[i] # None /\ codec \in Codec
    BY <2>2, <2>3, <2>4, ListingPlaces, ParsedCodec, NoneAssumption
  <2>6. PICK j \in EventsOf(answer) : dtmf = EventAt(answer, answer.pts[j])
    <3>1. Events(remote) /\ DOMAIN remote.events = EventsOf(answer)
      BY <2>2, ParsedEvents DEF Events
    <3>2. dtmf = SelectDtmf(remote, codec)
      BY <2>3 DEF DtmfOf
    <3>3. \E j \in DOMAIN remote.events : dtmf = remote.events[j]
      <4> HIDE DEF remote, codec
      <4> QED BY <2>3, <3>1, <3>2, DtmfSelected
    <3> QED BY <2>2, <3>1, <3>3, ParsedEvents
  <2>7. IsEvent(answer, codec.pt)
    <3>1. j \in DOMAIN answer.pts /\ IsEvent(answer, answer.pts[j])
      BY <2>6 DEF EventsOf
    <3>2. dtmf.pt = answer.pts[j]
      BY <2>6 DEF EventAt
    <3> QED BY <2>3, <3>1, <3>2
  <2>8. codec.pt = answer.pts[i] /\ codec.name = "opus"
    <3> HIDE DEF codec
    <3>1. codec.name \in {"opus", "pcmu", "pcma"}
      BY <2>5 DEF Codec, Opus, Pcmu, Pcma
    <3> QED BY <2>2, <2>4, <2>5, <2>7, <3>1 DEF Resolve, Opus, Pcmu, Pcma
  <2>9. Named(answer, codec.pt) \in {"event8k", "event16k", "event48k"}
    BY <2>5, <2>7, <2>8, EventTyped
  <2> QED BY <2>4, <2>8, <2>9
<1> QED BY <1>2, <1>3

LEMMA ViewsTyped ==
    ASSUME Negotiated, phase = "up", NEW e \in End,
           view[e].codec # None, DtmfOf(view[e]) # None
    PROVE  DtmfOf(view[e]) \in DtmfSpec
<1>1. view["caller"] = Parse(answer) /\ e \in {"caller", "callee"}
  BY DEF Negotiated, End
<1>2. Listing(answer)
  <2>1. CASE "callee" \in ours
    <3>1. Listing(offer) /\ SelectCodec(Parse(offer)) # None
      BY <2>1 DEF Negotiated
    <3>2. answer = Pinned(SelectCodec(Parse(offer)),
                          SelectDtmf(Parse(offer), SelectCodec(Parse(offer))))
      BY <2>1 DEF Negotiated
    <3> QED BY <3>1, <3>2, CodecSelected, PinnedLists
  <2>2. CASE "callee" \notin ours
    BY <2>2, MediaAssumption DEF Negotiated, Listing
  <2> QED BY <2>1, <2>2
<1>3. CASE view[e] = Parse(answer)
  BY <1>2, <1>3, ParsedTyped
<1>4. CASE e = "callee" /\ "callee" \in ours
  <2>1. /\ Listing(offer) /\ SelectCodec(Parse(offer)) # None
        /\ view[e] = Selected(Parse(offer), SelectCodec(Parse(offer)))
    BY <1>4 DEF Negotiated
  <2> QED BY <2>1, CodecSelected
<1>5. e = "callee" /\ "callee" \notin ours => view[e] = Parse(answer)
  BY DEF Negotiated
<1> QED BY <1>1, <1>3, <1>4, <1>5

LEMMA OpenedInitially == Init => Opened
BY DEF Init, Opened

LEMMA OpenedStep ==
    ASSUME Negotiated, Opened, [Next]_vars
    PROVE  Opened'
<1>1. CASE UNCHANGED vars
  BY <1>1 DEF vars, media, Opened, Idle
<1>2. CASE Offer \/ Accept \/ Refuse \/ ForeignAccept \/ Establish
  BY <1>2 DEF Offer, Accept, Refuse, ForeignAccept, Establish, media, Opened, Idle
<1>3. ASSUME NEW from \in End, NEW to \in End, from # to, OpenLine(from, to)
      PROVE  Opened'
  <2>1. /\ phase = "up" /\ phase' = "talking"
        /\ \A e \in End : view[e].codec # None /\ DtmfOf(view[e]) # None
    BY <1>3 DEF OpenLine
  <2>2. /\ line'.audio = view[from].codec.pt
        /\ line'.recv = DtmfOf(view[to]).pt
        /\ line'.ticks = TicksAt[DtmfOf(view[from]).clock]
        /\ line'.unit = TicksAt[DtmfOf(view[to]).clock]
    BY <1>3 DEF OpenLine
  <2>3. ~ Clash(view["callee"])
    BY <2>1, NumbersDiffer
  <2>4. /\ view["caller"].codec = view["callee"].codec
        /\ DtmfOf(view["caller"]) = DtmfOf(view["callee"])
    BY <2>1, <2>3, EndsOfACall DEF EndsAgree
  <2>5. DtmfOf(view["callee"]).pt # view["callee"].codec.pt
    BY <2>1, <2>3 DEF Clash, End
  <2>6. line'.audio # line'.recv
    BY <2>2, <2>4, <2>5 DEF End
  <2>7. DtmfOf(view[from]) \in DtmfSpec
    BY <2>1, ViewsTyped
  <2>8. line'.ticks \in Nat \ {0}
    BY <2>2, <2>7, MediaAssumption DEF DtmfSpec
  <2>9. line'.unit = line'.ticks
    BY <2>2, <2>4 DEF End
  <2> QED BY <2>1, <2>6, <2>8, <2>9 DEF Opened
<1>4. CASE phase = "talking" /\ Talk /\ UNCHANGED <<phase, offer, answer, ours, view>>
  <2>1. line' = line
    BY <1>4 DEF Talk, Press, SendPacket, Abandon, NewStream, Deliver
  <2> QED BY <1>4, <2>1 DEF Opened
<1> QED BY <1>1, <1>2, <1>3, <1>4 DEF Next

-----------------------------------------------------------------------------
(* Wrapping timestamps. *)

LEMMA RemainderOf ==
    ASSUME NEW m \in Nat \ {0}, NEW q \in Int, NEW r \in 0..(m - 1)
    PROVE  (q * m + r) % m = r
OBVIOUS

LEMMA Remainder ==
    ASSUME NEW a \in Int
    PROVE  \E q \in Int, r \in 0..(Modulus - 1) : a = q * Modulus + r /\ a % Modulus = r
<1> DEFINE M == Modulus
<1>1. M \in Nat \ {0}
  BY DtmfAssumption DEF Modulus
<1> HIDE DEF M
<1>2. a = (a \div M) * M + (a % M) /\ a % M \in 0..(M - 1) /\ a \div M \in Int
  BY <1>1
<1> QED BY <1>2 DEF M

\* timestamp_newer, on times less than half the range apart.
LEMMA NewerIsLater ==
    ASSUME NEW a \in Nat, NEW b \in Nat, a - b < HalfRange, b - a < HalfRange
    PROVE  /\ Newer(a % Modulus, b % Modulus) <=> b < a
           /\ a % Modulus = b % Modulus <=> a = b
<1> DEFINE M == Modulus
<1>0. a \in Int /\ b \in Int
  OBVIOUS
<1>1. PICK qa \in Int, ra \in 0..(M - 1) : a = qa * M + ra /\ a % M = ra
  BY <1>0, Remainder
<1>2. PICK qb \in Int, rb \in 0..(M - 1) : b = qb * M + rb /\ b % M = rb
  BY <1>0, Remainder
<1>3. M \in Nat \ {0} /\ M = 2 * HalfRange /\ HalfRange \in Nat \ {0}
  BY DtmfAssumption DEF Modulus
<1>4. Newer(ra, rb) <=> (ra - rb) % M # 0 /\ (ra - rb) % M < HalfRange
  BY DEF Newer
<1> HIDE DEF M
<1>5. \A q \in Int, r \in 0..(M - 1) : (q * M + r) % M = r
  BY <1>3, RemainderOf
<1>6. ra - rb = (qb - qa) * M + (a - b)
  BY <1>1, <1>2, <1>3
<1>7. CASE b <= a
  <2>1. a - b \in 0..(M - 1)
    BY <1>3, <1>7
  <2>2. (ra - rb) % M = a - b
    <3>1. qb - qa \in Int
      OBVIOUS
    <3> QED BY <2>1, <3>1, <1>5, <1>6
  <2>3. ra = rb => a = b
    <3>1. ASSUME ra = rb PROVE a = b
      <4>1. (ra - rb) % M = 0
        <5>1. ra - rb = 0 * M + 0 /\ 0 \in 0..(M - 1) /\ 0 \in Int
          BY <3>1, <1>3
        <5> QED BY <5>1, <1>5
      <4> QED BY <4>1, <2>2
    <3> QED BY <3>1
  <2> QED BY <1>1, <1>2, <1>4, <1>7, <2>2, <2>3 DEF M
<1>8. CASE a < b
  <2>1. (a - b) + M \in 0..(M - 1) /\ (a - b) + M > HalfRange
    BY <1>3, <1>8
  <2>2. ra - rb = (qb - qa - 1) * M + ((a - b) + M)
    BY <1>3, <1>6
  <2>3. (ra - rb) % M = (a - b) + M
    <3>1. qb - qa - 1 \in Int
      OBVIOUS
    <3> QED BY <2>1, <2>2, <3>1, <1>5
  <2>4. ra # rb
    <3>1. ASSUME ra = rb PROVE FALSE
      <4>1. (ra - rb) % M = 0
        <5>1. ra - rb = 0 * M + 0 /\ 0 \in 0..(M - 1) /\ 0 \in Int
          BY <3>1, <1>3
        <5> QED BY <5>1, <1>5
      <4> QED BY <4>1, <2>1, <2>3, <1>3
    <3> QED BY <3>1
  <2> QED BY <1>1, <1>2, <1>3, <1>4, <1>8, <2>1, <2>3, <2>4 DEF M
<1> QED BY <1>7, <1>8

-----------------------------------------------------------------------------
(* What is pressed, sent and heard (PressesToldApart, KeysHeard). *)

\* What the sender, the network and the receiver know of the presses: those after
\* base were made on the stream that is running.
Kept(base) ==
    /\ base \in 0..Len(presses)
    /\ busy => base < Len(presses)
    /\ \A n \in (base + 1)..Len(presses) : /\ presses[n].at <= clock
                                           /\ ~ busy => presses[n].at < clock
    /\ \A m, n \in (base + 1)..Len(presses) : m < n => presses[m].at < presses[n].at
    /\ \A n \in (base + 1)..Len(presses) :
          busy /\ n < Len(presses) => presses[n].at < clock
    /\ \A p \in wire :
          /\ p.press \in (base + 1)..Len(presses) /\ p.ssrc = stream
          /\ p.event = presses[p.press].key /\ p.at = presses[p.press].at
          /\ p.ts = p.at % Modulus
          /\ p.end => p.duration = Ticks(presses[p.press])
    /\ active # NoEvent =>
          /\ active.press \in 1..Len(presses) /\ active.ssrc \in 1..stream
          /\ active.ssrc = stream <=> active.press > base
          /\ active.event = presses[active.press].key
          /\ active.ts = presses[active.press].at % Modulus

PressTyped ==
    /\ presses \in Seq([key : Key, hold : Hold, at : Nat])
    /\ stream \in Nat \ {0} /\ clock \in Nat /\ busy \in BOOLEAN /\ sent \in Nat
    /\ active \in [ssrc : Nat, ts : Nat, event : Digit \cup {-1}, released : BOOLEAN,
                   press : Nat]
    /\ active.press = 0 => active = NoEvent

\* What has been heard ends with the press that the receiver goes by.
Heard ==
    /\ heard \in Seq([kind : {"pressed", "released"}, press : Nat, key : Digit, length : Nat])
    /\ \A i \in DOMAIN heard : heard[i].press <= active.press
    /\ ~ active.released =>
          /\ heard # <<>>
          /\ heard[Len(heard)].kind = "pressed" /\ heard[Len(heard)].press = active.press

Pressing == PressTyped /\ Heard /\ \E base \in Nat : Kept(base)

LEMMA TicksTyped ==
    ASSUME line.ticks \in Nat \ {0}, NEW p, p.hold \in Hold
    PROVE  Ticks(p) \in Nat \ {0} /\ Ticks(p) <= MaxDuration
<1>1. p.hold \in Nat \ {0} /\ MaxDuration \in Nat \ {0}
  BY DtmfAssumption
<1>2. p.hold * line.ticks \in Nat \ {0}
  <2>1. \A h, t \in Nat \ {0} : h * t \in Nat \ {0}
    OBVIOUS
  <2> QED BY <1>1, <2>1
<1> QED BY <1>1, <1>2 DEF Ticks, Saturated

LEMMA PressesAre ==
    ASSUME PressTyped
    PROVE  /\ Len(presses) \in Nat /\ DOMAIN presses = 1..Len(presses)
           /\ \A n \in 1..Len(presses) :
                 /\ presses[n].key \in Key /\ presses[n].key \in Digit
                 /\ presses[n].hold \in Hold /\ presses[n].at \in Nat
<1>1. Len(presses) \in Nat /\ DOMAIN presses = 1..Len(presses)
  BY DEF PressTyped
<1>2. \A n \in 1..Len(presses) : presses[n] \in [key : Key, hold : Hold, at : Nat]
  BY ElementOfSeq DEF PressTyped
<1> QED BY <1>1, <1>2, DtmfAssumption

\* Of what the network may deliver of the presses, the receiver takes each for
\* what it is.
LEMMA ToldApart ==
    ASSUME Pressing, NEW p \in wire, p \in Deliverable
    PROVE  /\ p.press > active.press => ~Same(p) /\ ~Straggler(p)
           /\ p.press = active.press => Same(p)
           /\ p.press < active.press => ~Same(p) /\ Straggler(p)
<1>1. PICK base \in Nat : Kept(base)
  BY DEF Pressing
<1>2. PressTyped
  BY DEF Pressing
<1>3. /\ p.press \in (base + 1)..Len(presses) /\ p.ssrc = stream
      /\ p.event = presses[p.press].key /\ p.at = presses[p.press].at
      /\ p.ts = p.at % Modulus
  BY <1>1 DEF Kept
<1>4. Fresh(p) /\ Near(p)
  <2>1. p \notin Audio
    BY <1>2, <1>3 DEF Audio, PressTyped
  <2> QED BY <2>1 DEF Deliverable
<1>5. Len(presses) \in Nat /\ active.press \in Nat /\ stream \in Nat \ {0} /\ p.press \in Nat
  BY <1>2, <1>3, PressesAre DEF PressTyped
<1>6. CASE active = NoEvent
  BY <1>3, <1>5, <1>6 DEF NoEvent, Same, Straggler
<1>7. CASE active # NoEvent
  <2>1. /\ active.press \in 1..Len(presses)
        /\ active.ssrc = stream <=> active.press > base
        /\ active.event = presses[active.press].key
        /\ active.ts = presses[active.press].at % Modulus
    BY <1>1, <1>7 DEF Kept
  <2>2. CASE active.ssrc # stream
    <3>1. active.press < p.press
      BY <1>3, <1>5, <2>1, <2>2
    <3> QED BY <1>3, <1>5, <2>2, <3>1 DEF Same, Straggler
  <2>3. CASE active.ssrc = stream
    <3> DEFINE a == presses[active.press].at
    <3>1. active.press \in (base + 1)..Len(presses)
      BY <1>5, <2>1, <2>3
    <3>2. a \in Nat /\ p.at \in Nat /\ a <= clock /\ p.at <= clock /\ clock \in Nat
      <4>1. {active.press, p.press} \subseteq (base + 1)..Len(presses)
        BY <1>3, <3>1
      <4>2. \A n \in (base + 1)..Len(presses) : n \in 1..Len(presses)
        BY <1>5
      <4>3. a \in Nat /\ presses[p.press].at \in Nat /\ clock \in Nat
        BY <1>2, <4>1, <4>2, PressesAre DEF PressTyped
      <4>4. a <= clock /\ presses[p.press].at <= clock
        BY <1>1, <4>1 DEF Kept
      <4> QED BY <1>3, <4>3, <4>4
    <3>3. /\ p.press < active.press => p.at < a
          /\ active.press < p.press => a < p.at
      BY <1>1, <1>3, <3>1 DEF Kept
    <3>4. HalfRange \in Nat \ {0}
      BY DtmfAssumption
    <3>5. p.at - a < HalfRange /\ a - p.at < HalfRange
      <4>1. p.at - a < HalfRange
        BY <1>3, <1>4, <2>3 DEF Near
      <4>2. clock - p.at < HalfRange
        BY <1>4 DEF Fresh
      <4> HIDE DEF a
      <4> QED BY <4>1, <4>2, <3>2, <3>4
    <3>6. /\ Newer(p.ts, active.ts) <=> a < p.at
          /\ p.ts = active.ts <=> p.at = a
      <4> HIDE DEF a
      <4>1. p.ts = p.at % Modulus /\ active.ts = a % Modulus
        BY <1>3, <2>1 DEF a
      <4> QED BY <4>1, <3>2, <3>5, NewerIsLater
    <3>7. CASE p.press = active.press
      BY <1>3, <2>1, <2>3, <3>7 DEF Same
    <3>8. CASE p.press < active.press
      BY <1>3, <1>5, <1>7, <2>3, <3>2, <3>3, <3>6, <3>8 DEF Same, Straggler
    <3>9. CASE active.press < p.press
      BY <1>3, <1>5, <1>7, <2>3, <3>2, <3>3, <3>6, <3>9 DEF Same, Straggler
    <3> QED BY <1>5, <3>7, <3>8, <3>9
  <2> QED BY <2>2, <2>3
<1> QED BY <1>6, <1>7

LEMMA PressingInitially == Init => Pressing
<1> SUFFICES ASSUME Init PROVE Pressing
  OBVIOUS
<1>1. Idle
  BY DEF Init
<1>2. clock \in Nat
  BY <1>1, DtmfAssumption DEF Idle
<1>3. PressTyped
  <2>1. NoEvent \in [ssrc : Nat, ts : Nat, event : Digit \cup {-1}, released : BOOLEAN,
                    press : Nat]
    BY DEF NoEvent
  <2>2. presses \in Seq([key : Key, hold : Hold, at : Nat])
    BY <1>1 DEF Idle
  <2>3. stream \in Nat \ {0} /\ sent \in Nat /\ active = NoEvent
    BY <1>1 DEF Idle
  <2>4. busy \in BOOLEAN
    BY <1>1 DEF Idle
  <2> QED BY <1>2, <2>1, <2>2, <2>3, <2>4 DEF PressTyped
<1>4. Heard
  BY <1>1 DEF Heard, Idle, NoEvent
<1>5. Kept(0)
  BY <1>1 DEF Kept, Idle
<1> QED BY <1>3, <1>4, <1>5 DEF Pressing

LEMMA PressKeeps ==
    ASSUME Pressing, NEW k \in Key, NEW h \in Hold, Press(k, h)
    PROVE  Pressing'
<1>1. PICK base \in Nat : Kept(base)
  BY DEF Pressing
<1> DEFINE new == [key |-> k, hold |-> h, at |-> clock]
<1>2. /\ ~ busy /\ busy' = TRUE /\ presses' = Append(presses, new)
      /\ UNCHANGED <<line, stream, clock, wire, active, heard>>
  BY DEF Press
<1>3. /\ PressTyped /\ clock \in Nat
      /\ presses \in Seq([key : Key, hold : Hold, at : Nat])
  BY DEF Pressing, PressTyped
<1>4. PICK L \in Nat : L = Len(presses)
  BY <1>3, PressesAre
<1>5. /\ presses' \in Seq([key : Key, hold : Hold, at : Nat])
      /\ Len(presses') = L + 1 /\ presses'[L + 1].at = clock
      /\ \A n \in 1..L : presses'[n] = presses[n]
  <2>1. new \in [key : Key, hold : Hold, at : Nat]
    BY <1>3
  <2>2. /\ presses' \in Seq([key : Key, hold : Hold, at : Nat])
        /\ Len(presses') = L + 1 /\ presses'[L + 1] = new
        /\ \A n \in 1..L : presses'[n] = presses[n]
    <3> HIDE DEF new
    <3> QED BY <2>1, <1>2, <1>3, <1>4, AppendProperties
  <2> QED BY <2>2
<1>6. PressTyped'
  BY <1>2, <1>3, <1>5 DEF PressTyped, Press
<1>7. Heard'
  BY <1>2 DEF Heard, Pressing
<1>8. Kept(base)'
  <2>1. base \in 0..L /\ base \in Nat
    BY <1>1, <1>4 DEF Kept
  <2>2. \A n \in (base + 1)..L : presses[n].at < clock /\ presses'[n] = presses[n]
    BY <1>1, <1>2, <1>4, <1>5, <2>1 DEF Kept
  <2>3. \A m, n \in (base + 1)..L : m < n => presses[m].at < presses[n].at
    BY <1>1, <1>4 DEF Kept
  <2>4. ASSUME NEW m \in (base + 1)..(L + 1), NEW n \in (base + 1)..(L + 1), m < n
        PROVE  presses'[m].at < presses'[n].at
    <3>1. m \in (base + 1)..L
      BY <2>4, <2>1
    <3>2. CASE n = L + 1
      BY <3>1, <3>2, <2>2, <1>5
    <3>3. CASE n # L + 1
      <4>1. n \in (base + 1)..L
        BY <3>3, <2>1
      <4> QED BY <2>4, <3>1, <4>1, <2>2, <2>3
    <3> QED BY <3>2, <3>3
  <2>5. ASSUME NEW n \in (base + 1)..(L + 1)
        PROVE  presses'[n].at <= clock /\ (n < L + 1 => presses'[n].at < clock)
    <3>1. CASE n = L + 1
      BY <3>1, <1>5, <1>3
    <3>2. CASE n # L + 1
      <4>1. n \in (base + 1)..L /\ n \in 1..L
        BY <3>2, <2>1
      <4>2. presses[n].at \in Nat
        BY <4>1, <1>3, <1>4, PressesAre
      <4> QED BY <4>1, <4>2, <2>2, <1>3
    <3> QED BY <3>1, <3>2
  <2>6. ASSUME NEW p \in wire
        PROVE  /\ p.press \in (base + 1)..(L + 1) /\ p.ssrc = stream
               /\ p.event = presses'[p.press].key /\ p.at = presses'[p.press].at
               /\ p.ts = p.at % Modulus
               /\ p.end => p.duration = Ticks(presses'[p.press])
    <3>1. p.press \in (base + 1)..L
      BY <1>1, <1>4 DEF Kept
    <3>2. presses'[p.press] = presses[p.press] /\ p.press \in (base + 1)..(L + 1)
      BY <3>1, <2>1, <2>2
    <3> QED BY <1>1, <3>2 DEF Kept
  <2>7. ASSUME active # NoEvent
        PROVE  /\ active.press \in 1..(L + 1) /\ active.ssrc \in 1..stream
               /\ active.ssrc = stream <=> active.press > base
               /\ active.event = presses'[active.press].key
               /\ active.ts = presses'[active.press].at % Modulus
    <3>1. active.press \in 1..L
      BY <1>1, <1>4, <2>7 DEF Kept
    <3>2. presses'[active.press] = presses[active.press] /\ active.press \in 1..(L + 1)
      BY <3>1, <1>5
    <3> QED BY <1>1, <2>7, <3>2 DEF Kept
  <2>8. base \in 0..(L + 1) /\ base < L + 1
    BY <2>1
  <2> HIDE DEF new
  <2> QED BY <1>2, <1>5, <2>4, <2>5, <2>6, <2>7, <2>8 DEF Kept, Ticks
<1> QED BY <1>6, <1>7, <1>8 DEF Pressing

LEMMA SendPacketKeeps ==
    ASSUME Pressing, Opened, phase = "talking", SendPacket
    PROVE  Pressing'
<1>1. PICK base \in Nat : Kept(base)
  BY DEF Pressing
<1>2. PICK L \in Nat : L = Len(presses)
  BY PressesAre DEF Pressing
<1> DEFINE last == sent + 1 = BurstLength(presses[L])
           packet == EventPacket(L, sent + 1)
<1>3. /\ busy /\ busy' = ~last /\ wire' = wire \cup {packet}
      /\ clock' = IF last THEN NextTimestamp(presses[L]) ELSE clock
      /\ UNCHANGED <<line, stream, presses, active, heard>>
  BY <1>2 DEF SendPacket
<1>4. base < L /\ L \in (base + 1)..L /\ L \in 1..L
  BY <1>1, <1>2, <1>3 DEF Kept
<1>5. /\ PressTyped /\ clock \in Nat /\ stream \in Nat \ {0}
      /\ \A n \in 1..L : presses[n].hold \in Hold /\ presses[n].at \in Nat
  BY <1>2, PressesAre DEF Pressing, PressTyped
<1>6. Ticks(presses[L]) \in Nat \ {0}
  BY <1>4, <1>5, TicksTyped DEF Opened
<1>7. sent \in Nat /\ sent' = sent + 1
  BY <1>5 DEF PressTyped, SendPacket
<1>8. /\ clock' \in Nat
      /\ last => presses[L].at < clock'
      /\ ~ last => clock' = clock
  BY <1>3, <1>4, <1>5, <1>6 DEF NextTimestamp
<1>9. PressTyped'
  BY <1>3, <1>5, <1>7, <1>8 DEF PressTyped
<1>10. Heard'
  BY <1>3 DEF Heard, Pressing
<1>11. Kept(base)'
  <2>1. \A m, n \in (base + 1)..L : m < n => presses[m].at < presses[n].at
    BY <1>1, <1>2 DEF Kept
  <2>2. ASSUME NEW n \in (base + 1)..L
        PROVE  /\ presses[n].at <= clock'
               /\ last => presses[n].at < clock'
               /\ ~ last /\ n < L => presses[n].at < clock'
    <3>1. CASE last
      <4>1. n = L \/ presses[n].at < presses[L].at
        BY <1>4, <2>1
      <4>2. presses[n].at \in Nat /\ presses[L].at \in Nat
        BY <1>1, <1>2, <1>4, <1>5
      <4> QED BY <3>1, <4>1, <4>2, <1>8
    <3>2. CASE ~ last
      BY <3>2, <1>1, <1>2, <1>3, <1>8 DEF Kept
    <3> QED BY <3>1, <3>2
  <2>3. /\ packet.press = L /\ packet.ssrc = stream
        /\ packet.event = presses[L].key /\ packet.at = presses[L].at
        /\ packet.ts = packet.at % Modulus
        /\ packet.end => packet.duration = Ticks(presses[L])
    <3>1. /\ packet.press = L /\ packet.ssrc = stream
          /\ packet.event = presses[L].key /\ packet.at = presses[L].at
          /\ packet.ts = packet.at % Modulus
      BY DEF EventPacket
    <3>2. packet.end => packet.duration = Ticks(presses[L])
      <4>1. /\ packet.end = (sent + 1 >= Redundancy + presses[L].hold)
            /\ packet.duration = DurationOf(presses[L], sent + 1)
        BY DEF EventPacket
      <4>2. /\ presses[L].hold \in Nat \ {0} /\ Redundancy \in Nat \ {0}
            /\ sent + 1 \in Nat
        <5>1. presses[L].hold \in Hold
          BY <1>4, <1>5
        <5>2. Hold \subseteq Nat \ {0} /\ Redundancy \in Nat \ {0}
          BY DtmfAssumption
        <5>3. presses[L].hold \in Nat \ {0}
          BY <5>1, <5>2
        <5>4. sent + 1 \in Nat
          BY <1>7
        <5> QED BY <5>2, <5>3, <5>4
      <4> HIDE DEF packet
      <4>3. sent + 1 >= Redundancy + presses[L].hold
               => DurationOf(presses[L], sent + 1) = Ticks(presses[L])
        BY <4>2 DEF DurationOf
      <4> QED BY <4>1, <4>3
    <3> QED BY <3>1, <3>2
  <2> HIDE DEF packet, last
  <2>4. ASSUME NEW p \in wire'
        PROVE  /\ p.press \in (base + 1)..L /\ p.ssrc = stream
               /\ p.event = presses[p.press].key /\ p.at = presses[p.press].at
               /\ p.ts = p.at % Modulus
               /\ p.end => p.duration = Ticks(presses[p.press])
    <3>1. p \in wire \/ p = packet
      BY <1>3
    <3> QED BY <3>1, <2>3, <1>1, <1>2, <1>4 DEF Kept
  <2>5. active # NoEvent =>
           /\ active.press \in 1..L /\ active.ssrc \in 1..stream
           /\ active.ssrc = stream <=> active.press > base
           /\ active.event = presses[active.press].key
           /\ active.ts = presses[active.press].at % Modulus
    BY <1>1, <1>2 DEF Kept
  <2>6. base \in 0..L
    BY <1>1, <1>2 DEF Kept
  <2> QED BY <1>2, <1>3, <1>4, <2>1, <2>2, <2>4, <2>5, <2>6 DEF Kept, Ticks
<1> QED BY <1>9, <1>10, <1>11 DEF Pressing

LEMMA AbandonKeeps ==
    ASSUME Pressing, Opened, phase = "talking", Abandon
    PROVE  Pressing'
<1>1. PICK base \in Nat : Kept(base)
  BY DEF Pressing
<1>2. PICK L \in Nat : L = Len(presses)
  BY PressesAre DEF Pressing
<1>3. /\ busy /\ busy' = FALSE /\ clock' = NextTimestamp(presses[L])
      /\ UNCHANGED <<line, stream, presses, sent, wire, active, heard>>
  BY <1>2 DEF Abandon
<1>4. base < L /\ L \in (base + 1)..L /\ L \in 1..L
  BY <1>1, <1>2, <1>3 DEF Kept
<1>5. /\ PressTyped
      /\ \A n \in 1..L : presses[n].hold \in Hold /\ presses[n].at \in Nat
  BY <1>2, PressesAre DEF Pressing
<1>6. Ticks(presses[L]) \in Nat \ {0}
  BY <1>4, <1>5, TicksTyped DEF Opened
<1>7. clock' \in Nat /\ presses[L].at < clock'
  BY <1>3, <1>4, <1>5, <1>6 DEF NextTimestamp
<1>8. PressTyped'
  BY <1>3, <1>5, <1>7 DEF PressTyped
<1>9. Heard'
  BY <1>3 DEF Heard, Pressing
<1>10. Kept(base)'
  <2>1. \A m, n \in (base + 1)..L : m < n => presses[m].at < presses[n].at
    BY <1>1, <1>2 DEF Kept
  <2>2. ASSUME NEW n \in (base + 1)..L PROVE presses[n].at < clock' /\ presses[n].at <= clock'
    <3>1. n = L \/ presses[n].at < presses[L].at
      BY <1>4, <2>1
    <3>2. presses[n].at \in Nat /\ presses[L].at \in Nat
      BY <1>1, <1>2, <1>4, <1>5
    <3> QED BY <3>1, <3>2, <1>7
  <2>3. ASSUME NEW p \in wire
        PROVE  /\ p.press \in (base + 1)..L /\ p.ssrc = stream
               /\ p.event = presses[p.press].key /\ p.at = presses[p.press].at
               /\ p.ts = p.at % Modulus
               /\ p.end => p.duration = Ticks(presses[p.press])
    BY <1>1, <1>2 DEF Kept
  <2>4. active # NoEvent =>
           /\ active.press \in 1..L /\ active.ssrc \in 1..stream
           /\ active.ssrc = stream <=> active.press > base
           /\ active.event = presses[active.press].key
           /\ active.ts = presses[active.press].at % Modulus
    BY <1>1, <1>2 DEF Kept
  <2>5. base \in 0..L
    BY <1>1, <1>2 DEF Kept
  <2> QED BY <1>2, <1>3, <2>1, <2>2, <2>3, <2>4, <2>5 DEF Kept, Ticks
<1> QED BY <1>8, <1>9, <1>10 DEF Pressing

\* No press has been made on a stream that is new.
LEMMA NewStreamKeeps ==
    ASSUME Pressing, NewStream
    PROVE  Pressing'
<1>1. PICK base \in Nat : Kept(base)
  BY DEF Pressing
<1>2. PICK L \in Nat : L = Len(presses)
  BY PressesAre DEF Pressing
<1>3. /\ ~ busy /\ stream' = stream + 1 /\ clock' \in Start /\ wire' = {}
      /\ UNCHANGED <<line, presses, sent, busy, active, heard>>
  BY DEF NewStream
<1>4. PressTyped' /\ stream \in Nat
  <2>1. clock' \in Nat
    BY <1>3, DtmfAssumption
  <2> QED BY <1>3, <2>1 DEF PressTyped, Pressing
<1>5. Heard'
  BY <1>3 DEF Heard, Pressing
<1>6. Kept(L)'
  <2>1. active # NoEvent =>
           /\ active.press \in 1..L /\ active.ssrc \in 1..stream
           /\ active.event = presses[active.press].key
           /\ active.ts = presses[active.press].at % Modulus
    BY <1>1, <1>2 DEF Kept
  <2>2. active # NoEvent =>
           active.ssrc \in 1..(stream + 1) /\ active.ssrc # stream + 1 /\ ~ (active.press > L)
    BY <2>1, <1>4
  <2>3. (L + 1)..L = {}
    OBVIOUS
  <2> QED BY <1>2, <1>3, <2>1, <2>2, <2>3 DEF Kept
<1> QED BY <1>2, <1>4, <1>5, <1>6 DEF Pressing

\* What a delivered event packet says is of the press it belongs to.
LEMMA DigitsAreSent ==
    ASSUME Pressing, Opened, phase = "talking", NEW p \in Deliverable, IsDigit(p)
    PROVE  /\ p \in wire /\ p.press \in 1..Len(presses)
           /\ p.event = presses[p.press].key /\ p.event \in Digit
           /\ p.end => p.duration = Ticks(presses[p.press])
<1>1. p \in wire
  <2>1. p \notin Audio
    BY DEF Audio, IsDigit, Opened
  <2> QED BY <2>1 DEF Deliverable
<1>2. PICK base \in Nat : Kept(base)
  BY DEF Pressing
<1>3. p.press \in (base + 1)..Len(presses)
  BY <1>1, <1>2 DEF Kept
<1>4. p.press \in 1..Len(presses)
  BY <1>3, PressesAre DEF Pressing
<1> QED BY <1>1, <1>2, <1>4 DEF Kept, IsDigit

LEMMA LastHeard ==
    ASSUME Heard
    PROVE  Len(heard) \in Nat /\ DOMAIN heard = 1..Len(heard)
BY DEF Heard

LEMMA DeliverKeeps ==
    ASSUME Pressing, Opened, phase = "talking", Deliver
    PROVE  Pressing'
<1>1. PICK base \in Nat : Kept(base)
  BY DEF Pressing
<1>2. PICK L \in Nat : L = Len(presses)
  BY PressesAre DEF Pressing
<1>3. UNCHANGED <<line, stream, clock, presses, sent, busy, wire>>
  BY DEF Deliver
<1>4. PICK p \in Deliverable : HearPressed(p) \/ HearReleased(p)
  BY DEF Deliver
<1>5. IsDigit(p)
  BY <1>4 DEF HearPressed, HearReleased
<1>6. /\ p \in wire /\ p.press \in 1..L
      /\ p.event = presses[p.press].key /\ p.event \in Digit
      /\ p.end => p.duration = Ticks(presses[p.press])
  BY <1>2, <1>5, DigitsAreSent
<1>7. /\ p.press \in (base + 1)..L /\ p.ssrc = stream
      /\ p.at = presses[p.press].at /\ p.ts = p.at % Modulus
  BY <1>1, <1>2, <1>6 DEF Kept
<1>8. /\ PressTyped /\ stream \in Nat \ {0} /\ active.press \in Nat
      /\ p.press \in Nat \ {0} /\ p.at \in Nat /\ Heard
  BY <1>2, <1>6, <1>7, PressesAre DEF Pressing, PressTyped
<1>9. p.ts \in Nat
  <2>1. Modulus \in Nat \ {0}
    BY DtmfAssumption DEF Modulus
  <2> QED BY <2>1, <1>7, <1>8
<1>10. PICK H \in Nat : H = Len(heard)
  BY <1>8, LastHeard
<1>11. CASE HearPressed(p)
  <2> DEFINE new == [ssrc |-> p.ssrc, ts |-> p.ts, event |-> p.event,
                     released |-> FALSE, press |-> p.press]
             entry == [kind |-> "pressed", press |-> p.press, key |-> p.event, length |-> 0]
  <2>1. ~ Same(p) /\ ~ Straggler(p) /\ active' = new /\ heard' = Append(heard, entry)
    BY <1>11 DEF HearPressed, Told
  <2>2. active.press < p.press
    BY <2>1, <1>6, <1>8, ToldApart
  <2>3. new \in [ssrc : Nat, ts : Nat, event : Digit \cup {-1}, released : BOOLEAN,
                 press : Nat]
    BY <1>6, <1>7, <1>8, <1>9
  <2>4. entry \in [kind : {"pressed", "released"}, press : Nat, key : Digit, length : Nat]
    BY <1>6, <1>8
  <2>5. new.press = p.press /\ ~ new.released /\ new.ssrc = stream
        /\ new.event = p.event /\ new.ts = p.ts
    BY <1>7
  <2>6. entry.kind = "pressed" /\ entry.press = p.press
    OBVIOUS
  <2> HIDE DEF new, entry
  <2>7. PressTyped'
    BY <1>3, <1>8, <2>1, <2>3, <2>5 DEF PressTyped
  <2>8. Heard'
    <3>1. /\ heard' \in Seq([kind : {"pressed", "released"}, press : Nat, key : Digit,
                             length : Nat])
          /\ Len(heard') = H + 1 /\ heard'[H + 1] = entry
          /\ \A i \in 1..H : heard'[i] = heard[i]
          /\ DOMAIN heard' = 1..(H + 1)
      BY <1>8, <1>10, <2>1, <2>4, AppendProperties DEF Heard
    <3>2. \A i \in 1..H : heard[i].press \in Nat /\ heard[i].press <= active.press
      <4>1. ASSUME NEW i \in 1..H PROVE heard[i].press \in Nat
        <5>1. heard[i] \in [kind : {"pressed", "released"}, press : Nat, key : Digit,
                            length : Nat]
          BY <1>8, <1>10, ElementOfSeq DEF Heard
        <5> QED BY <5>1
      <4>2. \A i \in 1..H : heard[i].press <= active.press
        BY <1>8, <1>10, LastHeard DEF Heard
      <4> QED BY <4>1, <4>2
    <3>3. \A i \in 1..(H + 1) : heard'[i].press <= p.press
      <4>1. ASSUME NEW i \in 1..(H + 1) PROVE heard'[i].press <= p.press
        <5>1. CASE i = H + 1
          BY <3>1, <2>6, <1>8, <5>1
        <5>2. CASE i # H + 1
          <6>1. i \in 1..H
            BY <5>2
          <6>2. heard[i].press \in Nat /\ heard[i].press <= active.press
            BY <6>1, <3>2
          <6>3. heard[i].press <= p.press
            BY <6>2, <2>2, <1>8
          <6> QED BY <6>1, <6>3, <3>1
        <5> QED BY <5>1, <5>2
      <4> QED BY <4>1
    <3>4. heard' # <<>>
      BY <3>1
    <3> QED BY <2>1, <2>5, <2>6, <3>1, <3>3, <3>4 DEF Heard
  <2>9. Kept(base)'
    <3>1. active'.press \in 1..L /\ active'.ssrc \in 1..stream
          /\ active'.ssrc = stream /\ active'.press > base
          /\ active'.event = presses[active'.press].key
          /\ active'.ts = presses[active'.press].at % Modulus
      BY <1>6, <1>7, <1>8, <2>1, <2>5
    <3> QED BY <1>1, <1>2, <1>3, <3>1 DEF Kept, Ticks
  <2> QED BY <2>7, <2>8, <2>9 DEF Pressing
<1>12. CASE HearReleased(p)
  <2> DEFINE entry == [kind |-> "released", press |-> p.press, key |-> p.event,
                       length |-> p.duration]
  <2>1. /\ Same(p) /\ p.end /\ ~ active.released
        /\ active' = [active EXCEPT !.released = TRUE]
        /\ heard' = Append(heard, entry)
    BY <1>12 DEF HearReleased, Told
  <2>2. active.press = p.press
    BY <2>1, <1>6, <1>8, ToldApart
  <2>3. /\ active'.press = active.press /\ active'.ssrc = active.ssrc
        /\ active'.event = active.event /\ active'.ts = active.ts /\ active'.released
        /\ active' \in [ssrc : Nat, ts : Nat, event : Digit \cup {-1}, released : BOOLEAN,
                        press : Nat]
    BY <2>1, <1>8 DEF PressTyped
  <2>4. p.duration \in Nat
    BY <2>1, <1>2, <1>6, <1>8, PressesAre, TicksTyped DEF Opened
  <2>5. entry \in [kind : {"pressed", "released"}, press : Nat, key : Digit, length : Nat]
    BY <1>6, <1>8, <2>4
  <2>6. entry.press = p.press
    OBVIOUS
  <2> HIDE DEF entry
  <2>7. PressTyped'
    BY <1>3, <1>8, <2>2, <2>3 DEF PressTyped
  <2>8. Heard'
    <3>1. /\ heard' \in Seq([kind : {"pressed", "released"}, press : Nat, key : Digit,
                             length : Nat])
          /\ Len(heard') = H + 1 /\ heard'[H + 1] = entry
          /\ \A i \in 1..H : heard'[i] = heard[i]
          /\ DOMAIN heard' = 1..(H + 1)
      BY <1>8, <1>10, <2>1, <2>5, AppendProperties DEF Heard
    <3>2. \A i \in 1..H : heard[i].press <= active.press
      BY <1>8, <1>10, LastHeard DEF Heard
    <3>3. \A i \in 1..(H + 1) : heard'[i].press <= active.press
      <4>1. ASSUME NEW i \in 1..(H + 1) PROVE heard'[i].press <= active.press
        <5>1. CASE i = H + 1
          BY <3>1, <2>2, <2>6, <1>8, <5>1
        <5>2. CASE i # H + 1
          <6>1. i \in 1..H
            BY <5>2
          <6> QED BY <6>1, <3>1, <3>2
        <5> QED BY <5>1, <5>2
      <4> QED BY <4>1
    <3> QED BY <2>3, <3>1, <3>3 DEF Heard
  <2>9. Kept(base)'
    <3>1. active # NoEvent
      BY <1>8, <2>2 DEF NoEvent
    <3> QED BY <1>1, <1>2, <1>3, <2>3, <3>1 DEF Kept, Ticks
  <2> QED BY <2>7, <2>8, <2>9 DEF Pressing
<1> QED BY <1>4, <1>11, <1>12

LEMMA PressingStep ==
    ASSUME Pressing, Opened, [Next]_vars
    PROVE  Pressing'
<1>1. CASE /\ UNCHANGED <<stream, clock, presses, sent, busy, wire, active, heard>>
           /\ line' = line \/ wire = {}
  <2>1. PressTyped'
    BY <1>1 DEF Pressing, PressTyped
  <2>2. Heard'
    BY <1>1 DEF Pressing, Heard
  <2>3. ASSUME NEW base \in Nat, Kept(base) PROVE Kept(base)'
    BY <1>1, <2>3 DEF Kept, Ticks
  <2> QED BY <2>1, <2>2, <2>3 DEF Pressing
<1>2. CASE UNCHANGED vars
  BY <1>1, <1>2 DEF vars, media
<1>3. CASE Offer \/ Accept \/ Refuse \/ ForeignAccept \/ Establish
  BY <1>1, <1>3 DEF Offer, Accept, Refuse, ForeignAccept, Establish, media
<1>4. ASSUME NEW from \in End, NEW to \in End, OpenLine(from, to) PROVE Pressing'
  <2>1. wire = {}
    BY <1>4 DEF OpenLine, Opened, Idle
  <2> QED BY <1>1, <1>4, <2>1 DEF OpenLine
<1>5. CASE phase = "talking" /\ Talk
  BY <1>5, PressKeeps, SendPacketKeeps, AbandonKeeps, NewStreamKeeps, DeliverKeeps DEF Talk
<1> QED BY <1>2, <1>3, <1>4, <1>5 DEF Next

Agreed == Negotiated /\ Opened /\ Pressing

LEMMA AgreedInitially == Init => Agreed
BY NegotiatedInitially, OpenedInitially, PressingInitially DEF Agreed

LEMMA AgreedStep ==
    ASSUME Agreed, [Next]_vars
    PROVE  Agreed'
BY NegotiatedStep, OpenedStep, PressingStep DEF Agreed

\* However timestamps wrap, streams restart and packets are lost, repeated or
\* reordered, the receiver tells a new press from the one it heard and from one
\* before it (dtmf_recv.rs, push and timestamp_newer).
THEOREM PressesAreToldApart == Spec => []PressesToldApart
<1>1. Agreed => PressesToldApart
  BY ToldApart DEF Agreed, PressesToldApart
<1> QED BY <1>1, AgreedInitially, AgreedStep, PTL DEF Spec

\* Both ends count by the same clock.
LEMMA HeldTyped ==
    ASSUME line.ticks \in Nat \ {0}, line.unit = line.ticks, NEW p, p.hold \in Hold
    PROVE  Held(p) \in Nat \ {0} /\ Held(p) <= MaxDuration /\ Held(p) = Ticks(p)
BY TicksTyped DEF Held, Ticks

\* The presses of the near end, as Keypad sees them.
LEMMA PressedIs ==
    ASSUME PressTyped
    PROVE  /\ Len(Pressed) = Len(presses) /\ DOMAIN Pressed = 1..Len(presses)
           /\ \A n \in 1..Len(presses) :
                 Pressed[n] = [key |-> presses[n].key, length |-> Held(presses[n])]
<1>1. Len(presses) \in Nat /\ DOMAIN presses = 1..Len(presses)
  BY PressesAre
<1> QED BY <1>1 DEF Pressed

LEMMA PressMakes ==
    ASSUME Agreed, phase = "talking", NEW k \in Key, NEW h \in Hold, Press(k, h)
    PROVE  Remote!Make
<1> DEFINE new == [key |-> k, hold |-> h, at |-> clock]
           told == [key |-> k, length |-> Held(new)]
           Made == [key : Key, hold : Hold, at : Nat]
           Shown == [key : Key, length : 0..MaxDuration]
<1>1. /\ PressTyped /\ clock \in Nat /\ presses \in Seq(Made)
      /\ line.ticks \in Nat \ {0} /\ line.unit = line.ticks
  BY DEF Agreed, Opened, Pressing, PressTyped
<1>2. presses' = Append(presses, new) /\ line' = line /\ heard' = heard
  BY DEF Press
<1>3. PICK L \in Nat : L = Len(presses)
  BY <1>1, PressesAre
<1>4. new \in Made /\ new.hold \in Hold
  BY <1>1
<1>5. Held(new) \in 0..MaxDuration
  <2>1. Held(new) \in Nat /\ Held(new) <= MaxDuration /\ MaxDuration \in Nat
    <3> HIDE DEF new
    <3> QED BY <1>1, <1>4, HeldTyped, DtmfAssumption
  <2> HIDE DEF new
  <2> QED BY <2>1
<1>6. /\ Len(presses') = L + 1 /\ DOMAIN presses' = 1..(L + 1)
      /\ presses'[L + 1] = new /\ \A n \in 1..L : presses'[n] = presses[n]
  <2> HIDE DEF new, Made
  <2> QED BY <1>1, <1>2, <1>3, <1>4, AppendProperties
<1>7. /\ Pressed \in Seq(Shown) /\ Len(Pressed) = L
      /\ \A n \in 1..L : Pressed[n] = [key |-> presses[n].key, length |-> Held(presses[n])]
  <2>1. ASSUME NEW n \in 1..L
        PROVE  [key |-> presses[n].key, length |-> Held(presses[n])] \in Shown
    <3>1. presses[n].hold \in Hold /\ presses[n].key \in Key
      BY <1>1, <1>3, PressesAre
    <3>2. Held(presses[n]) \in Nat /\ Held(presses[n]) <= MaxDuration /\ MaxDuration \in Nat
      BY <1>1, <3>1, HeldTyped, DtmfAssumption
    <3> QED BY <3>1, <3>2
  <2>2. Pressed = [n \in 1..L |-> [key |-> presses[n].key, length |-> Held(presses[n])]]
    BY <1>1, <1>3, PressesAre DEF Pressed
  <2> QED BY <2>1, <2>2
<1>8. Pressed' = [n \in 1..(L + 1) |-> [key |-> presses'[n].key,
                                        length |-> Held(presses'[n])]]
  BY <1>2, <1>6 DEF Pressed, Held
<1>9. told \in Shown /\ told.key = k
  BY <1>5
<1>10. Pressed' = Append(Pressed, told)
  <2> DEFINE s == Append(Pressed, told)
  <2>1. /\ s \in Seq(Shown) /\ Len(s) = L + 1 /\ s[L + 1] = told
        /\ \A n \in 1..L : s[n] = Pressed[n]
    <3> HIDE DEF told, Shown
    <3> QED BY <1>7, <1>9, AppendProperties
  <2>2. \A n \in 1..(L + 1) : Pressed'[n] = s[n]
    <3>1. ASSUME NEW n \in 1..(L + 1) PROVE Pressed'[n] = s[n]
      <4>1. CASE n = L + 1
        BY <4>1, <1>6, <1>8, <2>1
      <4>2. CASE n # L + 1
        <5>1. n \in 1..L
          BY <4>2
        <5> HIDE DEF s
        <5> QED BY <5>1, <1>6, <1>7, <1>8, <2>1
      <4> QED BY <4>1, <4>2
    <3> QED BY <3>1
  <2>3. s = [n \in 1..(L + 1) |-> s[n]]
    <3> HIDE DEF s, Shown
    <3> QED BY <2>1
  <2> HIDE DEF s
  <2>4. PICK t : t = Pressed'
    OBVIOUS
  <2>5. t = [n \in 1..(L + 1) |-> t[n]]
    BY <1>8, <2>4
  <2>6. t = s
    BY <2>2, <2>3, <2>4, <2>5
  <2> QED BY <2>4, <2>6 DEF s
<1> QED BY <1>2, <1>5, <1>10 DEF Remote!Make

LEMMA DeliverTells ==
    ASSUME Agreed, phase = "talking", Deliver
    PROVE  Remote!Next
<1>1. Pressing /\ PressTyped /\ Heard /\ Opened /\ active.press \in Nat
  BY DEF Agreed, Pressing, PressTyped
<1>2. Pressed' = Pressed
  BY DEF Deliver, Pressed, Held
<1>3. PICK p \in Deliverable : HearPressed(p) \/ HearReleased(p)
  BY DEF Deliver
<1>4. IsDigit(p)
  BY <1>3 DEF HearPressed, HearReleased
<1>5. /\ p \in wire /\ p.press \in 1..Len(presses)
      /\ p.event = presses[p.press].key
      /\ p.end => p.duration = Ticks(presses[p.press])
  BY <1>1, <1>4, DigitsAreSent
<1>6. /\ p.press \in DOMAIN Pressed
      /\ Pressed[p.press].key = p.event
      /\ p.end => Pressed[p.press].length = p.duration
  <2>1. line.unit = line.ticks
    BY <1>1 DEF Opened
  <2>2. Held(presses[p.press]) = Ticks(presses[p.press])
    BY <2>1 DEF Held, Ticks
  <2> QED BY <1>1, <1>5, <2>2, PressedIs
<1>7. CASE HearPressed(p)
  <2>1. active.press < p.press
    <3>1. ~ Same(p) /\ ~ Straggler(p)
      BY <1>7 DEF HearPressed
    <3>2. p.press \in Nat
      BY <1>5
    <3> QED BY <3>1, <3>2, <1>1, <1>5, ToldApart
  <2>2. ASSUME NEW i \in DOMAIN heard PROVE heard[i].press < p.press
    <3>1. heard[i].press <= active.press
      BY <1>1 DEF Heard
    <3>2. heard[i].press \in Nat
      <4>1. heard[i] \in [kind : {"pressed", "released"}, press : Nat, key : Digit,
                          length : Nat]
        BY <1>1, LastHeard, ElementOfSeq DEF Heard
      <4> QED BY <4>1
    <3>3. p.press \in Nat
      BY <1>5
    <3> QED BY <2>1, <3>1, <3>2, <3>3, <1>1
  <2>3. Remote!HearPressed(p.press)
    BY <1>2, <1>6, <1>7, <2>2 DEF HearPressed, Told, Remote!HearPressed
  <2> QED BY <1>6, <2>3 DEF Remote!Next
<1>8. CASE HearReleased(p)
  <2>1. Same(p) /\ p.end /\ ~ active.released
    BY <1>8 DEF HearReleased
  <2>2. active.press = p.press
    <3>1. p.press \in Nat
      BY <1>5
    <3> QED BY <2>1, <3>1, <1>1, <1>5, ToldApart
  <2>3. Remote!HearReleased(p.press)
    BY <1>1, <1>2, <1>6, <1>8, <2>1, <2>2 DEF HearReleased, Told, Heard, Remote!HearReleased
  <2> QED BY <1>6, <2>3 DEF Remote!Next
<1> QED BY <1>3, <1>7, <1>8

LEMMA KeypadStep ==
    ASSUME Agreed, [Next]_vars
    PROVE  [Remote!Next]_<<Pressed, heard>>
<1>1. CASE line' = line /\ presses' = presses /\ heard' = heard
  BY <1>1 DEF Pressed, Held
<1>2. CASE UNCHANGED vars
  BY <1>1, <1>2 DEF vars, media
<1>3. CASE Offer \/ Accept \/ Refuse \/ ForeignAccept \/ Establish
  BY <1>1, <1>3 DEF Offer, Accept, Refuse, ForeignAccept, Establish, media
<1>4. ASSUME NEW from \in End, NEW to \in End, OpenLine(from, to)
      PROVE  UNCHANGED <<Pressed, heard>>
  <2>1. presses = <<>> /\ presses' = presses /\ heard' = heard
    BY <1>4 DEF OpenLine, Agreed, Opened, Idle
  <2>2. DOMAIN presses = {}
    BY <2>1
  <2> QED BY <2>1, <2>2 DEF Pressed
<1>5. CASE phase = "talking" /\ Talk
  <2>1. CASE SendPacket \/ Abandon \/ NewStream
    BY <1>1, <2>1 DEF SendPacket, Abandon, NewStream
  <2>2. ASSUME NEW k \in Key, NEW h \in Hold, Press(k, h) PROVE Remote!Next
    BY <1>5, <2>2, PressMakes DEF Remote!Next
  <2>3. CASE Deliver
    BY <1>5, <2>3, DeliverTells
  <2> QED BY <1>5, <2>1, <2>2, <2>3 DEF Talk
<1> QED BY <1>2, <1>3, <1>4, <1>5 DEF Next

\* The far end's keypad is the near end's, as Keypad promises: each press at most
\* once and in order, its release after it with its own length, in ticks of the
\* clock the receiver negotiated, 8 kHz or not (dtmf.rs, send_dtmf_burst;
\* dtmf_recv.rs, push).
THEOREM KeysAreHeard == Spec => KeysHeard
<1>1. Init => Remote!Init
  <2>1. Init => presses = <<>> /\ heard = <<>>
    BY DEF Init, Idle
  <2>2. presses = <<>> => Pressed = <<>>
    BY DEF Pressed
  <2> QED BY <2>1, <2>2 DEF Remote!Init
<1>2. Agreed /\ [Next]_vars => [Remote!Next]_<<Pressed, heard>>
  BY KeypadStep
<1> QED BY <1>1, <1>2, AgreedInitially, AgreedStep, PTL DEF Spec, KeysHeard, Remote!Spec

=============================================================================
