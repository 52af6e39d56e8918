-------------------------- MODULE ConnectionProofs --------------------------
(***************************************************************************)
(* Proofs about Locate, Stream and their composition in Connection.        *)
(***************************************************************************)
EXTENDS Connection, SequenceTheorems, FiniteSetTheorems, TLAPS

-----------------------------------------------------------------------------
(* Beginnings and ends of sequences. *)

LEMMA Prefix ==
    ASSUME NEW S, NEW s \in Seq(S), NEW n \in 0..Len(s)
    PROVE  /\ SubSeq(s, 1, n) \in Seq(S)
           /\ Len(SubSeq(s, 1, n)) = n
           /\ \A j \in 1..n : SubSeq(s, 1, n)[j] = s[j]
<1>1. Len(s) \in Nat /\ n \in Int
  BY LenProperties
<1>2. \A j \in 1..n : s[j] \in S
  BY <1>1, ElementOfSeq
<1> DEFINE m == 1
<1>3. /\ SubSeq(s, m, n) \in Seq(S)
      /\ Len(SubSeq(s, m, n)) = IF m <= n THEN n - m + 1 ELSE 0
      /\ \A j \in 1..(n - m + 1) : SubSeq(s, m, n)[j] = s[m + j - 1]
  <2>1. m \in Int /\ \A j \in m..n : s[j] \in S
    BY <1>2
  <2> HIDE DEF m
  <2> QED BY <2>1, <1>1, SubSeqProperties
<1> QED BY <1>1, <1>3

LEMMA Suffix ==
    ASSUME NEW S, NEW s \in Seq(S), NEW n \in 0..Len(s)
    PROVE  /\ SubSeq(s, n + 1, Len(s)) \in Seq(S)
           /\ Len(SubSeq(s, n + 1, Len(s))) = Len(s) - n
           /\ \A j \in 1..(Len(s) - n) : SubSeq(s, n + 1, Len(s))[j] = s[n + j]
<1>1. Len(s) \in Int /\ Len(s) \in Nat
  BY LenProperties
<1> DEFINE m == n + 1
           e == Len(s)
<1>2. m \in Int /\ e \in Int /\ \A j \in m..e : s[j] \in S
  BY <1>1, ElementOfSeq
<1>3. /\ SubSeq(s, m, e) \in Seq(S)
      /\ Len(SubSeq(s, m, e)) = IF m <= e THEN e - m + 1 ELSE 0
      /\ \A j \in 1..(e - m + 1) : SubSeq(s, m, e)[j] = s[m + j - 1]
  <2> HIDE DEF m, e
  <2> QED BY <1>2, SubSeqProperties
<1> QED BY <1>1, <1>3

-----------------------------------------------------------------------------
(* What is located (LocationSound). *)

Members(s) == {s[i] : i \in DOMAIN s}

\* While the walk goes on, no usable record has been put aside.
Walking ==
    step = "walking" =>
        /\ ~ Pinned(account) /\ srv # <<>>
        /\ candidates \in Seq(Members(srv))
        /\ \A r \in Members(srv) : Usable(r) => r \in Members(candidates)

Located ==
    /\ srv \in Answer \cup {<<>>}
    /\ step = "start" => srv = <<>>
    /\ step = "fallback" => ~ Pinned(account) /\ srv = <<>>
    /\ Walking
    /\ LocationSound

\* To take one record out of a list loses no other.
LEMMA WithoutKeeps ==
    ASSUME NEW S, NEW records \in Seq(S), NEW r \in Members(records)
    PROVE  /\ Without(records, r) \in Seq(S)
           /\ \A x \in Members(records) : x # r => x \in Members(Without(records, r))
<1> DEFINE i == CHOOSE j \in DOMAIN records : records[j] = r
           front == SubSeq(records, 1, i - 1)
           back == SubSeq(records, i + 1, Len(records))
<1>1. DOMAIN records = 1..Len(records) /\ Len(records) \in Nat
  BY LenProperties
<1>2. i \in 1..Len(records) /\ records[i] = r
  BY <1>1 DEF Members
<1> HIDE DEF i
<1>3. /\ front \in Seq(S) /\ Len(front) = i - 1
      /\ \A j \in 1..(i - 1) : front[j] = records[j]
  <2>1. i - 1 \in 0..Len(records)
    BY <1>1, <1>2
  <2> QED BY <2>1, Prefix
<1>4. /\ back \in Seq(S) /\ Len(back) = Len(records) - i
      /\ \A j \in 1..(Len(records) - i) : back[j] = records[i + j]
  <2>1. i \in 0..Len(records)
    BY <1>1, <1>2
  <2> QED BY <2>1, Suffix
<1> DEFINE rest == front \o back
<1>5. Without(records, r) = rest
  BY DEF Without, i
<1> HIDE DEF front, back
<1>6. /\ rest \in Seq(S) /\ Len(rest) = Len(records) - 1
      /\ \A j \in 1..(i - 1) : rest[j] = records[j]
      /\ \A j \in i..(Len(records) - 1) : rest[j] = back[j - (i - 1)]
  <2>1. /\ rest \in Seq(S) /\ Len(rest) = Len(front) + Len(back)
        /\ \A j \in 1..(Len(front) + Len(back)) :
              rest[j] = IF j <= Len(front) THEN front[j] ELSE back[j - Len(front)]
    BY <1>3, <1>4, ConcatProperties
  <2> HIDE DEF rest
  <2>2. \A j \in 1..(Len(records) - 1) :
           rest[j] = IF j <= i - 1 THEN front[j] ELSE back[j - (i - 1)]
    BY <2>1, <1>1, <1>2, <1>3, <1>4
  <2>3. Len(rest) = Len(records) - 1
    BY <2>1, <1>1, <1>2, <1>3, <1>4
  <2>4. ASSUME NEW j \in 1..(i - 1) PROVE rest[j] = records[j]
    <3>1. j \in 1..(Len(records) - 1) /\ j <= i - 1
      BY <1>1, <1>2
    <3> QED BY <3>1, <2>2, <1>3
  <2>5. ASSUME NEW j \in i..(Len(records) - 1) PROVE rest[j] = back[j - (i - 1)]
    <3>1. j \in 1..(Len(records) - 1) /\ ~ (j <= i - 1)
      BY <1>1, <1>2
    <3> QED BY <3>1, <2>2
  <2> QED BY <2>1, <2>3, <2>4, <2>5
<1> HIDE DEF rest
<1>7. ASSUME NEW x \in Members(records), x # r
      PROVE  x \in Members(rest)
  <2>1. PICK k \in 1..Len(records) : records[k] = x
    BY <1>1 DEF Members
  <2>2. DOMAIN rest = 1..(Len(records) - 1)
    BY <1>6, LenProperties
  <2>3. CASE k < i
    <3>1. k \in 1..(i - 1) /\ k \in DOMAIN rest
      BY <2>2, <2>3, <1>1, <1>2
    <3>2. rest[k] = x
      BY <3>1, <2>1, <1>6
    <3> QED BY <3>1, <3>2 DEF Members
  <2>4. CASE k > i
    <3>1. k - 1 \in i..(Len(records) - 1) /\ k - i \in 1..(Len(records) - i)
      BY <2>4, <1>1, <1>2
    <3>2. rest[k - 1] = back[k - i]
      BY <3>1, <1>6, <1>2
    <3>3. back[k - i] = x
      BY <3>1, <2>1, <1>1, <1>2, <1>4
    <3> QED BY <3>1, <3>2, <3>3, <2>2, <1>1, <1>2 DEF Members
  <2> QED BY <2>1, <2>3, <2>4, <1>2, <1>7
<1> QED BY <1>5, <1>6, <1>7

LEMMA NextsAreBest ==
    ASSUME NEW records, NEW r \in Nexts(records)
    PROVE  /\ r \in Members(records)
           /\ \A other \in Members(records) : r.priority <= other.priority
<1>1. PICK i \in Class(records) : r = records[i]
  BY DEF Nexts, Picks
<1>2. /\ i \in DOMAIN records
      /\ \A j \in DOMAIN records : records[i].priority <= records[j].priority
  BY <1>1 DEF Class
<1> QED BY <1>1, <1>2 DEF Members

LEMMA LocatedInitially == Init => Located
BY DEF Init, Unbound, Located, Walking, LocationSound

LEMMA LocatedStep == Located /\ [Next]_vars => Located'
<1> SUFFICES ASSUME Located, [Next]_vars PROVE Located'
  OBVIOUS
<1> USE DEF Located
<1>1. CASE Direct
  <2>1. CASE Found(Server(account), Port(account)) /\ failure' = failure
    BY <1>1, <2>1 DEF Direct, Found, Walking, LocationSound, Pinned, Server, Port,
                      Usable, Lookup
  <2>2. CASE Lookup(Server(account)) # "found" /\ Stop("unresolved")
    BY <1>1, <2>2 DEF Direct, Stop, Walking, LocationSound, Pinned, Server, Port,
                      Usable, Lookup
  <2> QED BY <1>1, <2>1, <2>2 DEF Direct
<1>2. CASE QuerySrv
  <2>1. srv' # <<>> => srv' \in Seq(Members(srv'))
    BY <1>2, AnswerAssumption DEF QuerySrv, Members
  <2> QED BY <1>2, <2>1 DEF QuerySrv, Walking, LocationSound, Pinned, Server
<1>3. CASE TryCandidate
  <2>1. PICK r \in Nexts(candidates) :
            /\ candidates' = Without(candidates, r)
            /\ \/ Usable(r) /\ Found(r.target, r.port)
               \/ ~ Usable(r) /\ UNCHANGED <<server, step>>
    BY <1>3 DEF TryCandidate
  <2>2. /\ step = "walking"
        /\ UNCHANGED <<account, srv, lookup, failure>>
    BY <1>3 DEF TryCandidate
  <2>3. /\ r \in Members(candidates)
        /\ \A other \in Members(candidates) : r.priority <= other.priority
    BY NextsAreBest
  <2>4. Members(candidates) \subseteq Members(srv)
    <3>1. candidates \in Seq(Members(srv))
      BY <2>2 DEF Walking
    <3> QED BY <3>1, LenProperties, ElementOfSeq DEF Members
  <2>5. \A x : Usable(x)' <=> Usable(x)
    BY <2>2 DEF Usable, Lookup
  <2>6. CASE Usable(r) /\ Found(r.target, r.port)
    <3>1. \A other \in Members(srv) : Usable(other) => r.priority <= other.priority
      BY <2>2, <2>3 DEF Walking
    <3>2. r \in Members(srv)
      BY <2>3, <2>4
    <3>3. /\ server' = [host |-> r.target, port |-> r.port]
          /\ step' = "located"
      BY <2>6 DEF Found
    <3>4. LocationSound'
      <4> DEFINE usable == {srv[i] : i \in {j \in DOMAIN srv : Usable(srv[j])}}
      <4>1. usable' = usable
        BY <2>2, <2>5
      <4>2. r \in usable /\ \A other \in usable : r.priority <= other.priority
        BY <2>6, <3>1, <3>2 DEF Members
      <4>3. ~ (Pinned(account) \/ srv = <<>>)'
        BY <2>2 DEF Walking, Pinned, Server
      <4> HIDE DEF usable
      <4>4. \E x \in usable' :
               /\ server' = [host |-> x.target, port |-> x.port]
               /\ \A other \in usable' : x.priority <= other.priority
        BY <4>1, <4>2, <3>3
      <4> USE DEF usable
      <4> QED BY <4>3, <4>4, <3>3 DEF LocationSound
    <3> QED BY <2>2, <3>3, <3>4 DEF Walking
  <2>7. CASE ~ Usable(r) /\ UNCHANGED <<server, step>>
    <3>1. candidates \in Seq(Members(srv))
      BY <2>2 DEF Walking
    <3>2. /\ candidates' \in Seq(Members(srv))
          /\ \A x \in Members(candidates) : x # r => x \in Members(candidates')
      BY <2>1, <2>3, <3>1, WithoutKeeps
    <3>3. \A x \in Members(srv) : Usable(x) => x \in Members(candidates')
      BY <2>2, <2>7, <3>2 DEF Walking
    <3>4. Walking'
      BY <2>2, <2>5, <2>7, <3>2, <3>3 DEF Walking, Pinned, Server, Members
    <3>5. LocationSound'
      BY <2>2, <2>7 DEF LocationSound
    <3> QED BY <2>2, <2>7, <3>4, <3>5
  <2> QED BY <2>1, <2>6, <2>7
<1>4. CASE Exhausted
  <2>1. Members(candidates) = {}
    BY <1>4 DEF Exhausted, Members
  <2>2. \A r \in Members(srv) : ~ Usable(r)
    BY <1>4, <2>1 DEF Exhausted, Walking
  <2>3. ~ Pinned(account) /\ srv # <<>>
    BY <1>4 DEF Exhausted, Walking
  <2>4. \A x : Usable(x)' <=> Usable(x)
    BY <1>4 DEF Exhausted, Usable, Lookup
  <2>5. LocationSound'
    BY <1>4, <2>2, <2>3, <2>4 DEF Exhausted, Stop, LocationSound, Members, Pinned, Server
  <2> QED BY <1>4, <2>5 DEF Exhausted, Stop, Walking
<1>5. CASE Fallback
  <2>1. CASE Found(Server(account), Port(account)) /\ failure' = failure
    BY <1>5, <2>1 DEF Fallback, Found, Walking, LocationSound, Pinned, Server, Port,
                      Usable, Lookup
  <2>2. CASE Lookup(Server(account)) # "found" /\ Stop("unresolved")
    BY <1>5, <2>2 DEF Fallback, Stop, Walking, LocationSound, Pinned, Server, Port,
                      Usable, Lookup
  <2> QED BY <1>5, <2>1, <2>2 DEF Fallback
<1>6. CASE Route \/ BindDatagram \/ Unsupported \/ Connect \/ Handshake
  <2>1. UNCHANGED <<account, srv, lookup, candidates, server>>
    BY <1>6 DEF Route, BindDatagram, Unsupported, Connect, Handshake
  <2>2. step \in {"located", "routed", "handshake"}
    BY <1>6 DEF Route, BindDatagram, Unsupported, Connect, Handshake
  <2>3. \/ step' \in {"routed", "handshake", "stream", "datagram"}
        \/ step' = "failed" /\ failure'.kind # "unresolved"
    <3>1. CASE Handshake
      <4>1. ASSUME NEW c \in Cert, NEW why \in Objections(c)
            PROVE  why # "unresolved"
        BY CertAssumption DEF Objections, PinnedObjections, PlatformObjections, CertFailure
      <4>2. CASE Stop("handshake")
        BY <4>2 DEF Stop
      <4>3. CASE step' = "stream"
        BY <4>3
      <4>4. ASSUME NEW c \in Cert, NEW why \in Objections(c), Refused(why, c)
            PROVE  step' = "failed" /\ failure'.kind # "unresolved"
        BY <4>1, <4>4 DEF Refused
      <4> QED BY <3>1, <4>2, <4>3, <4>4 DEF Handshake
    <3>2. CASE Route \/ Unsupported
      <4>1. ASSUME NEW why \in {"no route", "unsupported"}, Stop(why)
            PROVE  step' = "failed" /\ failure'.kind # "unresolved"
        BY <4>1 DEF Stop
      <4> QED BY <3>2, <4>1 DEF Route, Unsupported
    <3>3. CASE BindDatagram
      BY <3>3 DEF BindDatagram
    <3>4. CASE Connect
      <4>1. CASE Stop("refused")
        BY <4>1 DEF Stop
      <4>2. CASE step' = IF account.transport = "tcp" THEN "stream" ELSE "handshake"
        BY <4>2
      <4> QED BY <3>4, <4>1, <4>2 DEF Connect
    <3> QED BY <1>6, <3>1, <3>2, <3>3, <3>4
  <2>4. \A x : Usable(x)' <=> Usable(x)
    BY <2>1 DEF Usable, Lookup
  <2>5. LocationSound'
    BY <2>1, <2>2, <2>3, <2>4 DEF LocationSound, Pinned, Server, Port
  <2> QED BY <2>1, <2>2, <2>3, <2>5 DEF Walking
<1>7. CASE Spawn
  BY <1>7 DEF Spawn, Walking, LocationSound
<1>8. CASE UNCHANGED locate
  BY <1>8 DEF locate, Walking, LocationSound, Usable, Lookup, Pinned, Server, Port
<1> QED BY <1>1, <1>2, <1>3, <1>4, <1>5, <1>6, <1>7, <1>8 DEF Next, LocateNext, vars

\* Whatever DNS answers: what is located is what the account pins, or the usable
\* record of the best priority, or the server's own name when SRV knows nothing
\* (resolve.rs, resolve_with and order_candidates).
THEOREM RightServerLocated == Spec => []LocationSound
<1>1. Init => Located
  BY LocatedInitially
<1>2. Located /\ [Next]_vars => Located'
  BY LocatedStep
<1>3. Located => LocationSound
  BY DEF Located
<1> QED BY <1>1, <1>2, <1>3, PTL DEF Spec

-----------------------------------------------------------------------------
(* What certificate a connection stands on (CertificatesJudged). *)

\* Only the handshake looks at a certificate, and only a failure is blamed.
Judged ==
    /\ step # "failed" => failure = None
    /\ step \notin {"stream", "failed"} => cert = None
    /\ CertificatesJudged

LEMMA JudgedInitially == Init => Judged
BY DEF Init, Unbound, Judged, CertificatesJudged

\* An attempt that ends before the handshake, or in it, blames no certificate.
LEMMA StopBlamesNone ==
    ASSUME Judged, NEW why, Stop(why), account' = account,
           cert' = cert, why = "handshake" => cert = None
    PROVE  Judged'
BY DEF Stop, Judged, CertificatesJudged

LEMMA HandshakeJudges ==
    ASSUME Judged, Handshake
    PROVE  Judged'
<1>1. /\ step = "handshake" /\ cert = None /\ failure = None
      /\ UNCHANGED <<account, srv, lookup, candidates, server>>
  BY DEF Handshake, Judged
<1>2. CASE Stop("handshake") /\ UNCHANGED cert
  BY <1>1, <1>2, StopBlamesNone
<1>3. ASSUME NEW c \in Cert, Records(c),
             \/ Objections(c) = {} /\ Stop("handshake")
             \/ Objections(c) = {} /\ step' = "stream" /\ UNCHANGED failure
             \/ \E why \in Objections(c) : Refused(why, c)
      PROVE  Judged'
  <2>1. cert' = c /\ c # None
    BY <1>3, CertAssumption DEF Records
  <2>2. Objections(c) = {} =>
           IF account.policy # None THEN c.id = account.policy
           ELSE account.domain \in c.names /\ c.faults = {}
    BY DEF Objections, PinnedObjections, PlatformObjections, Identity
  <2>3. CASE Objections(c) = {} /\ Stop("handshake")
    BY <1>1, <2>1, <2>2, <2>3 DEF Stop, Judged, CertificatesJudged
  <2>4. CASE Objections(c) = {} /\ step' = "stream" /\ UNCHANGED failure
    BY <1>1, <2>1, <2>2, <2>4 DEF Judged, CertificatesJudged
  <2>5. ASSUME NEW why \in Objections(c), Refused(why, c)
        PROVE  Judged'
    <3>1. /\ step' = "failed" /\ failure' = [kind |-> why, cert |-> c.id]
          /\ failure'.kind = why /\ failure'.cert = c.id
      BY <2>5 DEF Refused
    <3>2. CASE account.policy # None
      <4>1. why = "pin mismatch" /\ c.id # account.policy
        BY <2>5, <3>2 DEF Objections, PinnedObjections
      <4> QED BY <1>1, <2>1, <3>1, <3>2, <4>1 DEF Judged, CertificatesJudged
    <3>3. CASE account.policy = None
      <4>1. /\ \/ why = "name mismatch" /\ account.domain \notin c.names
               \/ why \in c.faults
            /\ why # "handshake"
        BY <2>5, <3>3, CertAssumption
           DEF Objections, PlatformObjections, Identity, CertFailure
      <4> QED BY <1>1, <2>1, <3>1, <3>3, <4>1 DEF Judged, CertificatesJudged
    <3> QED BY <3>2, <3>3
  <2> QED BY <1>3, <2>3, <2>4, <2>5
<1> QED BY <1>2, <1>3 DEF Handshake

LEMMA JudgedStep == Judged /\ [Next]_vars => Judged'
<1> SUFFICES ASSUME Judged, [Next]_vars PROVE Judged'
  OBVIOUS
<1>1. CASE Direct \/ TryCandidate \/ QuerySrv \/ Exhausted \/ Fallback
  <2>1. /\ step \in {"start", "walking", "fallback"}
        /\ account' = account /\ cert' = cert
        /\ \/ /\ failure' = failure
              /\ step' \in {"fallback", "walking", "located"}
           \/ Stop("unresolved")
    BY <1>1 DEF Direct, TryCandidate, QuerySrv, Exhausted, Fallback, Found
  <2> QED BY <2>1, StopBlamesNone DEF Judged, CertificatesJudged
<1>2. CASE Route \/ BindDatagram \/ Unsupported
  <2>1. /\ step \in {"located", "routed"}
        /\ account' = account /\ cert' = cert
        /\ \/ /\ failure' = failure
              /\ step' \in {"routed", "datagram"}
           \/ Stop("no route") \/ Stop("unsupported")
    BY <1>2 DEF Route, BindDatagram, Unsupported
  <2> QED BY <2>1, StopBlamesNone DEF Judged, CertificatesJudged
<1>3. CASE Connect
  <2>1. /\ step = "routed" /\ account' = account /\ cert' = cert
        /\ \/ /\ failure' = failure
              /\ step' = IF account.transport = "tcp" THEN "stream" ELSE "handshake"
           \/ Stop("refused")
    BY <1>3 DEF Connect
  <2> QED BY <2>1, StopBlamesNone DEF Judged, CertificatesJudged
<1>4. CASE Handshake
  BY <1>4, HandshakeJudges
<1>5. CASE Spawn
  BY <1>5 DEF Spawn, Judged, CertificatesJudged
<1>6. CASE UNCHANGED locate
  BY <1>6 DEF locate, Judged, CertificatesJudged
<1> QED BY <1>1, <1>2, <1>3, <1>4, <1>5, <1>6 DEF Next, LocateNext, vars

\* Whatever accounts and certificates there are: a TLS connection stands only on
\* a certificate the policy accepts, and a refusal names the certificate and the
\* objection to it (tls.rs, PinnedVerifier and cert_failure).
THEOREM OnlyAcceptedCertificates == Spec => []CertificatesJudged
<1>1. Init => Judged
  BY JudgedInitially
<1>2. Judged /\ [Next]_vars => Judged'
  BY JudgedStep
<1>3. Judged => CertificatesJudged
  BY DEF Judged
<1> QED BY <1>1, <1>2, <1>3, PTL DEF Spec

-----------------------------------------------------------------------------
(* Items and their bytes. *)

Kind == {"message", "keepalive", "unsized", "garbled", "endless"}

StreamTyped ==
    /\ items \in Seq([kind : Kind, end : Nat])
    /\ net \in Seq(AnyByte) /\ buf \in Seq(AnyByte)
    /\ taken \in Nat /\ skipped \in Nat /\ keepalives \in Nat
    /\ pending \in Nat /\ queue \in Seq(Nat) /\ got \in Seq(Nat)

\* Every set of naturals with a member has a least one.
LEMMA Least ==
    ASSUME NEW S \in SUBSET Nat, S # {}
    PROVE  \E n \in S : \A m \in S : n <= m
<1>1. IsWellFoundedOn(OpToRel(<, Nat), Nat)
  BY NatLessThanWellFounded
<1>2. PICK n \in S : \A m \in S : ~ (<<m, n>> \in OpToRel(<, Nat))
  BY <1>1, WFMin
<1>3. \A m \in S : ~ (m < n)
  BY <1>2 DEF OpToRel
<1> QED BY <1>3

\* Count, of any list of items.
Tally(s, kind, d) == Cardinality({i \in 1..d : s[i].kind = kind})

LEMMA TallyFinite ==
    ASSUME NEW s, NEW kind, NEW d \in Nat
    PROVE  /\ IsFiniteSet({i \in 1..d : s[i].kind = kind})
           /\ Tally(s, kind, d) \in Nat
<1>1. IsFiniteSet(1..d)
  BY FS_Interval
<1>2. IsFiniteSet({i \in 1..d : s[i].kind = kind})
  BY <1>1, FS_Subset
<1> QED BY <1>2, FS_CardinalityType DEF Tally

LEMMA TallyNone ==
    ASSUME NEW s, NEW kind
    PROVE  Tally(s, kind, 0) = 0
<1>1. {i \in 1..0 : s[i].kind = kind} = {}
  OBVIOUS
<1> QED BY <1>1, FS_EmptySet DEF Tally

LEMMA TallyNext ==
    ASSUME NEW s, NEW kind, NEW d \in Nat
    PROVE  Tally(s, kind, d + 1) =
              IF s[d + 1].kind = kind THEN Tally(s, kind, d) + 1 ELSE Tally(s, kind, d)
<1> DEFINE S == {i \in 1..d : s[i].kind = kind}
           T == {i \in 1..(d + 1) : s[i].kind = kind}
<1>1. IsFiniteSet(S)
  BY TallyFinite
<1>2. CASE s[d + 1].kind = kind
  <2>1. T = S \cup {d + 1} /\ d + 1 \notin S
    BY <1>2
  <2> QED BY <1>1, <1>2, <2>1, FS_AddElement DEF Tally
<1>3. CASE s[d + 1].kind # kind
  <2>1. T = S
    BY <1>3
  <2> QED BY <1>3, <2>1 DEF Tally
<1> QED BY <1>2, <1>3

LEMMA TallyGrows ==
    ASSUME NEW s, NEW kind, NEW d \in Nat, NEW e \in Nat, d <= e
    PROVE  Tally(s, kind, d) <= Tally(s, kind, e)
<1> DEFINE S == {i \in 1..d : s[i].kind = kind}
           T == {i \in 1..e : s[i].kind = kind}
<1>1. S \in SUBSET T
  OBVIOUS
<1>2. IsFiniteSet(T)
  BY TallyFinite
<1> QED BY <1>1, <1>2, FS_Subset DEF Tally

\* Of the next k items all are keepalives.
LEMMA TallyRun ==
    ASSUME NEW s, NEW d \in Nat, NEW k \in Nat,
           \A i \in (d + 1)..(d + k) : s[i].kind = "keepalive"
    PROVE  /\ Tally(s, "keepalive", d + k) = Tally(s, "keepalive", d) + k
           /\ Tally(s, "message", d + k) = Tally(s, "message", d)
<1> DEFINE S == {i \in 1..d : s[i].kind = "keepalive"}
           R == (d + 1)..(d + k)
           T == {i \in 1..(d + k) : s[i].kind = "keepalive"}
<1>1. T = S \cup R /\ S \cap R = {}
  OBVIOUS
<1>2. IsFiniteSet(S)
  BY TallyFinite
<1>3. IsFiniteSet(R) /\ Cardinality(R) = k
  <2>1. d + 1 \in Int /\ d + k \in Int
    OBVIOUS
  <2>2. Cardinality(R) = IF d + 1 > d + k THEN 0 ELSE (d + k) - (d + 1) + 1
    BY <2>1, FS_Interval
  <2> QED BY <2>1, <2>2, FS_Interval
<1>4. Cardinality(T) = Cardinality(S) + Cardinality(R)
  <2>1. Cardinality(S \cup R) = Cardinality(S) + Cardinality(R) - Cardinality(S \cap R)
    BY <1>2, <1>3, FS_Union
  <2>2. Cardinality(S) \in Nat
    BY <1>2, FS_CardinalityType
  <2>3. Cardinality(S \cap R) = 0
    BY <1>1, FS_EmptySet
  <2> HIDE DEF S, R, T
  <2> QED BY <1>1, <1>3, <2>1, <2>2, <2>3
<1>5. {i \in 1..(d + k) : s[i].kind = "message"}
         = {i \in 1..d : s[i].kind = "message"}
  OBVIOUS
<1> QED BY <1>3, <1>4, <1>5 DEF Tally

\* t is s and the bytes of u after it.
Joined(s, u, t) ==
    /\ t \in Seq(AnyByte)
    /\ Len(t) = Len(s) + Len(u)
    /\ \A i \in 1..Len(s) : t[i] = s[i]
    /\ \A i \in 1..Len(u) : t[Len(s) + i] = u[i]

LEMMA Joining ==
    ASSUME NEW s \in Seq(AnyByte), NEW u \in Seq(AnyByte)
    PROVE  Joined(s, u, s \o u)
<1>1. Len(s) \in Nat /\ Len(u) \in Nat
  BY LenProperties
<1>2. /\ s \o u \in Seq(AnyByte)
      /\ Len(s \o u) = Len(s) + Len(u)
      /\ \A i \in 1..Len(s) + Len(u) :
            (s \o u)[i] = IF i <= Len(s) THEN s[i] ELSE u[i - Len(s)]
  BY ConcatProperties
<1>3. \A i \in 1..Len(u) : (s \o u)[Len(s) + i] = u[i]
  <2>1. ASSUME NEW i \in 1..Len(u) PROVE (s \o u)[Len(s) + i] = u[i]
    <3>1. Len(s) + i \in 1..Len(s) + Len(u) /\ ~ (Len(s) + i <= Len(s))
          /\ (Len(s) + i) - Len(s) = i
      BY <1>1
    <3> QED BY <1>2, <3>1
  <2> QED BY <2>1
<1>4. \A i \in 1..Len(s) : (s \o u)[i] = s[i]
  BY <1>1, <1>2
<1> QED BY <1>2, <1>3, <1>4 DEF Joined

LEMMA Crlf == CRLF \in Seq(AnyByte) /\ Len(CRLF) = 2 /\ CRLF[1] = CR /\ CRLF[2] = LF
BY DEF CRLF, CR, LF, Byte, AnyByte

\* t is s and a CRLF.
Closed(s, t) ==
    /\ t \in Seq(AnyByte)
    /\ Len(t) = Len(s) + 2
    /\ \A i \in 1..Len(s) : t[i] = s[i]
    /\ t[Len(s) + 1] = CR
    /\ t[Len(s) + 2] = LF

LEMMA Closing ==
    ASSUME NEW s \in Seq(AnyByte)
    PROVE  Closed(s, s \o CRLF)
<1>1. Joined(s, CRLF, s \o CRLF)
  BY Joining, Crlf
<1>2. 1 \in 1..Len(CRLF) /\ 2 \in 1..Len(CRLF)
  BY Crlf
<1> QED BY <1>1, <1>2, Crlf DEF Joined, Closed

\* The lengths and the first bytes of an item.
LEMMA BytesShape ==
    ASSUME NEW item \in Item, NEW n \in Nat
    PROVE  /\ item.kind \in Kind
           /\ Bytes(item, n) \in Seq(AnyByte)
           /\ Len(Bytes(item, n)) > 0
           /\ item.kind = "message" =>
                  LET b == Bytes(item, n)
                  IN  /\ Len(b) >= 8
                      /\ b[1] = Byte("start", n) /\ b[2] = CR /\ b[3] = LF
                      /\ b[4] = Byte("length", Len(b) - 8)
                      /\ b[5] = CR /\ b[6] = LF /\ b[7] = CR /\ b[8] = LF
           /\ item.kind = "keepalive" => Bytes(item, n) = <<CR, LF>>
           /\ item.kind \in {"unsized", "garbled"} =>
                  LET b == Bytes(item, n)
                  IN  /\ Len(b) = 5
                      /\ b[1] = IF item.kind = "unsized" THEN Byte("start", n)
                                ELSE Byte("length", 0)
                      /\ b[2] = CR /\ b[3] = LF /\ b[4] = CR /\ b[5] = LF
           /\ item.kind = "endless" =>
                  /\ Len(Bytes(item, n)) = MaxHeader + 1
                  /\ \A j \in 1..(MaxHeader + 1) : Bytes(item, n)[j] = Text
<1> USE StreamAssumption
<1>1. /\ CR \in AnyByte /\ LF \in AnyByte /\ Text \in AnyByte
      /\ \A m \in Nat : Byte("start", m) \in AnyByte /\ Byte("length", m) \in AnyByte
  BY DEF CR, LF, Text, Byte, AnyByte
<1>2. CASE item.kind = "message"
  <2> DEFINE start == <<Byte("start", n)>>
             length == <<Byte("length", Len(item.body))>>
             h1 == start \o CRLF
             h2 == h1 \o length
             h3 == h2 \o CRLF
             h == h3 \o CRLF
             b == Bytes(item, n)
  <2>1. item.body \in Seq(AnyByte) /\ Len(item.body) \in Nat
    BY <1>2, LenProperties DEF Item
  <2>2. start \in Seq(AnyByte) /\ Len(start) = 1 /\ start[1] = Byte("start", n)
    BY <1>1
  <2>3. length \in Seq(AnyByte) /\ Len(length) = 1
        /\ length[1] = Byte("length", Len(item.body))
    BY <1>1, <2>1
  <2>4. b = h \o item.body
    BY <1>2 DEF Bytes
  <2> HIDE DEF start, length, b
  <2>5. /\ h1 \in Seq(AnyByte) /\ Len(h1) = 3
        /\ h1[1] = Byte("start", n) /\ h1[2] = CR /\ h1[3] = LF
    <3>1. Closed(start, h1)
      BY <2>2, Closing
    <3> HIDE DEF h1
    <3> QED BY <2>2, <3>1 DEF Closed
  <2> HIDE DEF h1
  <2>6. /\ h2 \in Seq(AnyByte) /\ Len(h2) = 4
        /\ h2[1] = Byte("start", n) /\ h2[2] = CR /\ h2[3] = LF
        /\ h2[4] = Byte("length", Len(item.body))
    <3>1. Joined(h1, length, h2)
      BY <2>3, <2>5, Joining
    <3> HIDE DEF h2
    <3>2. 1 \in 1..Len(length)
      BY <2>3
    <3> QED BY <2>3, <2>5, <3>1, <3>2 DEF Joined
  <2> HIDE DEF h2
  <2>7. /\ h3 \in Seq(AnyByte) /\ Len(h3) = 6
        /\ h3[1] = Byte("start", n) /\ h3[2] = CR /\ h3[3] = LF
        /\ h3[4] = Byte("length", Len(item.body)) /\ h3[5] = CR /\ h3[6] = LF
    <3>1. Closed(h2, h3)
      BY <2>6, Closing
    <3> HIDE DEF h3
    <3> QED BY <2>6, <3>1 DEF Closed
  <2> HIDE DEF h3
  <2>8. /\ h \in Seq(AnyByte) /\ Len(h) = 8
        /\ h[1] = Byte("start", n) /\ h[2] = CR /\ h[3] = LF
        /\ h[4] = Byte("length", Len(item.body))
        /\ h[5] = CR /\ h[6] = LF /\ h[7] = CR /\ h[8] = LF
    <3>1. Closed(h3, h)
      BY <2>7, Closing
    <3> HIDE DEF h
    <3> QED BY <2>7, <3>1 DEF Closed
  <2> HIDE DEF h
  <2>9. b \in Seq(AnyByte) /\ Len(b) = 8 + Len(item.body)
        /\ \A i \in 1..8 : b[i] = h[i]
    <3>1. Joined(h, item.body, b)
      BY <2>1, <2>4, <2>8, Joining
    <3> QED BY <2>1, <2>8, <3>1 DEF Joined
  <2>10. Len(b) - 8 = Len(item.body)
    BY <2>1, <2>9
  <2>11. /\ b[1] = Byte("start", n) /\ b[2] = CR /\ b[3] = LF
         /\ b[4] = Byte("length", Len(b) - 8)
         /\ b[5] = CR /\ b[6] = LF /\ b[7] = CR /\ b[8] = LF
    <3>1. /\ 1 \in 1..8 /\ 2 \in 1..8 /\ 3 \in 1..8 /\ 4 \in 1..8
          /\ 5 \in 1..8 /\ 6 \in 1..8 /\ 7 \in 1..8 /\ 8 \in 1..8
      OBVIOUS
    <3> QED BY <2>8, <2>9, <2>10, <3>1
  <2>12. Len(b) >= 8 /\ Len(b) > 0 /\ b \in Seq(AnyByte)
    BY <2>1, <2>9
  <2>13. item.kind \in Kind
    BY <1>2 DEF Kind
  <2> QED BY <1>2, <2>11, <2>12, <2>13 DEF b
<1>3. CASE item.kind = "keepalive"
  BY <1>1, <1>3 DEF Bytes, CRLF, Kind
<1>4. CASE item.kind = "unsized"
  <2> DEFINE first == <<Byte("start", n)>>
             h == first \o CRLF
             b == Bytes(item, n)
  <2>1. first \in Seq(AnyByte) /\ Len(first) = 1 /\ first[1] = Byte("start", n)
    BY <1>1
  <2>2. b = h \o CRLF
    BY <1>4 DEF Bytes
  <2> HIDE DEF first, b
  <2>3. h \in Seq(AnyByte) /\ Len(h) = 3 /\ h[1] = Byte("start", n) /\ h[2] = CR /\ h[3] = LF
    <3>1. Closed(first, h)
      BY <2>1, Closing
    <3> HIDE DEF h
    <3> QED BY <2>1, <3>1 DEF Closed
  <2> HIDE DEF h
  <2>4. /\ b \in Seq(AnyByte) /\ Len(b) = 5
        /\ b[1] = Byte("start", n) /\ b[2] = CR /\ b[3] = LF /\ b[4] = CR /\ b[5] = LF
    <3>1. Closed(h, b)
      BY <2>2, <2>3, Closing
    <3> QED BY <2>3, <3>1 DEF Closed
  <2> QED BY <1>4, <2>4 DEF b, Kind
<1>5. CASE item.kind = "garbled"
  <2> DEFINE first == <<Byte("length", 0)>>
             h == first \o CRLF
             b == Bytes(item, n)
  <2>1. first \in Seq(AnyByte) /\ Len(first) = 1 /\ first[1] = Byte("length", 0)
    BY <1>1
  <2>2. b = h \o CRLF
    BY <1>5 DEF Bytes
  <2> HIDE DEF first, b
  <2>3. h \in Seq(AnyByte) /\ Len(h) = 3 /\ h[1] = Byte("length", 0) /\ h[2] = CR /\ h[3] = LF
    <3>1. Closed(first, h)
      BY <2>1, Closing
    <3> HIDE DEF h
    <3> QED BY <2>1, <3>1 DEF Closed
  <2> HIDE DEF h
  <2>4. /\ b \in Seq(AnyByte) /\ Len(b) = 5
        /\ b[1] = Byte("length", 0) /\ b[2] = CR /\ b[3] = LF /\ b[4] = CR /\ b[5] = LF
    <3>1. Closed(h, b)
      BY <2>2, <2>3, Closing
    <3> QED BY <2>3, <3>1 DEF Closed
  <2> QED BY <1>5, <2>4 DEF b, Kind
<1>6. CASE item.kind = "endless"
  BY <1>1, <1>6 DEF Bytes, Kind
<1>7. item.kind \in Kind
  BY DEF Item, Kind
<1> QED BY <1>2, <1>3, <1>4, <1>5, <1>6, <1>7 DEF Kind

-----------------------------------------------------------------------------
(* What the framer finds in a buffer. *)

LEMMA PairIs ==
    ASSUME NEW b \in Seq(AnyByte), NEW k \in Nat \ {0}
    PROVE  Pair(b, k) <=> 2 * k <= Len(b) /\ b[2 * k - 1] = CR /\ b[2 * k] = LF
<1> SUFFICES ASSUME 2 * k <= Len(b)
             PROVE  SubSeq(b, 2 * k - 1, 2 * k) = CRLF <=> b[2 * k - 1] = CR /\ b[2 * k] = LF
  BY DEF Pair
<1> DEFINE m == 2 * k - 1
           n == 2 * k
           u == SubSeq(b, m, n)
<1>1. /\ Len(b) \in Nat /\ m \in Int /\ n \in Int
      /\ \A i \in m..n : b[i] \in AnyByte
  BY LenProperties, ElementOfSeq
<1>2. n = m + 1 /\ m \in Nat
  OBVIOUS
<1> HIDE DEF m, n
<1>3. /\ u \in Seq(AnyByte)
      /\ Len(u) = IF m <= n THEN n - m + 1 ELSE 0
      /\ \A i \in 1..(n - m + 1) : u[i] = b[m + i - 1]
  BY <1>1, SubSeqProperties
<1>4. Len(u) = 2 /\ 1 \in 1..(n - m + 1) /\ 2 \in 1..(n - m + 1)
      /\ m + 1 - 1 = m /\ m + 2 - 1 = n
  BY <1>2, <1>3
<1>5. u[1] = b[m] /\ u[2] = b[n]
  BY <1>3, <1>4
<1> HIDE DEF u
<1>6. u = CRLF <=> u[1] = CR /\ u[2] = LF
  <2>1. ASSUME u[1] = CR, u[2] = LF PROVE u = CRLF
    <3>1. \A i \in 1..Len(u) : u[i] = CRLF[i]
      BY <2>1, <1>4, Crlf
    <3> QED BY <3>1, <1>3, <1>4, Crlf, SeqEqual
  <2> QED BY <2>1, Crlf
<1> QED BY <1>5, <1>6 DEF u, m, n

LEMMA LeadingIs ==
    ASSUME NEW b \in Seq(AnyByte)
    PROVE  /\ Leading(b) \in 0..Len(b)
           /\ ~ Pair(b, Leading(b) + 1)
           /\ \A i \in 1..Leading(b) : Pair(b, i)
<1> DEFINE S == {k \in Nat : ~ Pair(b, k + 1)}
<1>1. Len(b) \in Nat
  BY LenProperties
<1>2. Len(b) \in S
  BY <1>1, PairIs
<1>3. PICK n \in S : \A m \in S : n <= m
  BY <1>2, Least
<1>4. n \in 0..Len(b) /\ ~ Pair(b, n + 1)
  BY <1>1, <1>2, <1>3
<1>5. \A i \in 1..n : Pair(b, i)
  <2>1. ASSUME NEW i \in 1..n PROVE Pair(b, i)
    <3>1. i - 1 \in Nat /\ ~ (n <= i - 1) /\ (i - 1) + 1 = i
      BY <1>4, <1>1
    <3> QED BY <3>1, <1>3
  <2> QED BY <2>1
<1> QED BY <1>4, <1>5 DEF Leading

\* A blank line ends at i.
Blank(b, i) == b[i - 3] = CR /\ b[i - 2] = LF /\ b[i - 1] = CR /\ b[i] = LF

LEMMA BlankIs ==
    ASSUME NEW b \in Seq(AnyByte), NEW i \in 4..Len(b)
    PROVE  SubSeq(b, i - 3, i) = CRLF \o CRLF <=> Blank(b, i)
<1> DEFINE m == i - 3
           u == SubSeq(b, m, i)
           w == CRLF \o CRLF
<1>1. /\ Len(b) \in Nat /\ i \in Int /\ m \in Int
      /\ \A j \in m..i : b[j] \in AnyByte
  BY LenProperties, ElementOfSeq
<1>2. i = m + 3 /\ m \in Nat
  OBVIOUS
<1> HIDE DEF m
<1>3. /\ u \in Seq(AnyByte)
      /\ Len(u) = IF m <= i THEN i - m + 1 ELSE 0
      /\ \A j \in 1..(i - m + 1) : u[j] = b[m + j - 1]
  BY <1>1, SubSeqProperties
<1>4. Len(u) = 4 /\ i - m + 1 = 4
  BY <1>2, <1>3
<1>5. u[1] = b[m] /\ u[2] = b[m + 1] /\ u[3] = b[m + 2] /\ u[4] = b[m + 3]
  <2>1. /\ 1 \in 1..4 /\ 2 \in 1..4 /\ 3 \in 1..4 /\ 4 \in 1..4
        /\ m + 1 - 1 = m /\ m + 2 - 1 = m + 1 /\ m + 3 - 1 = m + 2 /\ m + 4 - 1 = m + 3
    BY <1>2
  <2> QED BY <2>1, <1>3, <1>4
<1> HIDE DEF u
<1>6. /\ w \in Seq(AnyByte) /\ Len(w) = 4
      /\ w[1] = CR /\ w[2] = LF /\ w[3] = CR /\ w[4] = LF
  <2>1. Closed(CRLF, w)
    BY Crlf, Closing
  <2> HIDE DEF w
  <2> QED BY <2>1, Crlf DEF Closed
<1> HIDE DEF w
<1>7. u = w <=> u[1] = CR /\ u[2] = LF /\ u[3] = CR /\ u[4] = LF
  <2>1. ASSUME u[1] = CR, u[2] = LF, u[3] = CR, u[4] = LF PROVE u = w
    <3>1. \A j \in 1..Len(u) : u[j] = w[j]
      BY <2>1, <1>4, <1>6
    <3> QED BY <3>1, <1>3, <1>4, <1>6, SeqEqual
  <2> QED BY <2>1, <1>6
<1>8. i - 2 = m + 1 /\ i - 1 = m + 2 /\ i = m + 3 /\ i - 3 = m
  BY <1>2
<1>9. Blank(b, i) <=> b[m] = CR /\ b[m + 1] = LF /\ b[m + 2] = CR /\ b[m + 3] = LF
  BY <1>8 DEF Blank
<1> QED BY <1>5, <1>7, <1>9 DEF u, w, m

LEMMA NoHeader ==
    ASSUME NEW b \in Seq(AnyByte), \A i \in 4..Len(b) : ~ Blank(b, i)
    PROVE  HeaderEnd(b) = 0
<1>1. {i \in 4..Len(b) : SubSeq(b, i - 3, i) = CRLF \o CRLF} = {}
  BY BlankIs
<1> QED BY <1>1 DEF HeaderEnd

LEMMA HeaderAt ==
    ASSUME NEW b \in Seq(AnyByte), NEW h \in 4..Len(b), Blank(b, h),
           \A i \in 4..(h - 1) : ~ Blank(b, i)
    PROVE  HeaderEnd(b) = h
<1> DEFINE ends == {i \in 4..Len(b) : SubSeq(b, i - 3, i) = CRLF \o CRLF}
<1>1. Len(b) \in Nat
  BY LenProperties
<1>2. h \in ends
  BY BlankIs
<1>3. ASSUME NEW i \in ends PROVE i \in Int /\ h <= i
  <2>1. i \in 4..Len(b) /\ Blank(b, i)
    BY BlankIs
  <2>2. i \in 4..(h - 1) \/ h <= i
    BY <1>1, <2>1
  <2> QED BY <1>1, <2>1, <2>2
<1> HIDE DEF ends
<1>4. ends # {} /\ h \in Int
  BY <1>2, <1>3
<1>5. (CHOOSE i \in ends : \A j \in ends : i <= j) = h
  <2>1. \E i \in ends : \A j \in ends : i <= j
    BY <1>2, <1>3
  <2> DEFINE c == CHOOSE i \in ends : \A j \in ends : i <= j
  <2>2. c \in ends /\ \A j \in ends : c <= j
    BY <2>1
  <2> HIDE DEF c
  <2>3. c <= h /\ h <= c /\ c \in Int
    BY <2>2, <1>2, <1>3
  <2> QED BY <2>3, <1>4 DEF c
<1> QED BY <1>4, <1>5 DEF HeaderEnd, ends

LEMMA WithoutHeader ==
    ASSUME NEW b \in Seq(AnyByte), HeaderEnd(b) = 0
    PROVE  Verdict(b) = IF Len(b) > MaxHeader THEN "broken" ELSE "wait"
<1>1. Len(b) \in Nat /\ MaxHeader \in Nat
  BY StreamAssumption, LenProperties
<1>2. CASE Len(b) > MaxHeader
  BY <1>1, <1>2 DEF Verdict
<1>3. CASE ~ (Len(b) > MaxHeader)
  <2>1. Len(b) <= MaxHeader
    BY <1>1, <1>3
  <2> QED BY <1>1, <1>3, <2>1 DEF Verdict
<1> QED BY <1>2, <1>3

\* The first Content-Length of a header, or none.
LEMMA LengthAt ==
    ASSUME NEW b \in Seq(AnyByte), NEW k \in 1..HeaderEnd(b), HeaderEnd(b) \in Nat,
           b[k].t = "length", \A i \in 1..(k - 1) : b[i].t # "length"
    PROVE  ContentLength(b) = b[k].n
<1> DEFINE fields == {i \in 1..HeaderEnd(b) : b[i].t = "length"}
<1>1. k \in fields
  OBVIOUS
<1>2. ASSUME NEW i \in fields PROVE i \in Int /\ k <= i
  OBVIOUS
<1> HIDE DEF fields
<1>3. fields # {} /\ \E i \in fields : \A j \in fields : i <= j
  BY <1>1, <1>2
<1> DEFINE c == CHOOSE i \in fields : \A j \in fields : i <= j
<1>4. c \in fields /\ \A j \in fields : c <= j
  BY <1>3
<1> HIDE DEF c
<1>5. c = k
  BY <1>1, <1>2, <1>4
<1> QED BY <1>3, <1>5 DEF ContentLength, fields, c

LEMMA NoLength ==
    ASSUME NEW b \in Seq(AnyByte), \A i \in 1..HeaderEnd(b) : b[i].t # "length"
    PROVE  ContentLength(b) = -1
<1>1. {i \in 1..HeaderEnd(b) : b[i].t = "length"} = {}
  OBVIOUS
<1> QED BY <1>1 DEF ContentLength

\* The buffer starts with these bytes, as far as it goes.
Starts(b, bytes) == \A j \in 1..Len(b) : j <= Len(bytes) => b[j] = bytes[j]

\* A verdict says of the item that it is not complete, or that it is a message.
Judges(b, item, m) ==
    LET n == Len(Bytes(item, m))
    IN  /\ Verdict(b) \in {"wait", "message", "broken"}
        /\ Verdict(b) = "wait" => Len(b) < n
        /\ Verdict(b) = "message" =>
              /\ item.kind = "message"
              /\ n <= Len(b) /\ Total(b) = n /\ b[1].n = m

LEMMA JudgesMessage ==
    ASSUME NEW b \in Seq(AnyByte), NEW item \in Item, NEW m \in Nat,
           item.kind = "message", Starts(b, Bytes(item, m))
    PROVE  Judges(b, item, m)
<1> DEFINE n == Len(Bytes(item, m))
<1>1. n \in Nat /\ n >= 8 /\ Len(b) \in Nat
  BY BytesShape, LenProperties
<1>2. /\ Len(b) >= 1 => b[1] = Byte("start", m)
      /\ Len(b) >= 2 => b[2] = CR
      /\ Len(b) >= 3 => b[3] = LF
      /\ Len(b) >= 4 => b[4] = Byte("length", n - 8)
      /\ Len(b) >= 5 => b[5] = CR
      /\ Len(b) >= 6 => b[6] = LF
      /\ Len(b) >= 7 => b[7] = CR
      /\ Len(b) >= 8 => b[8] = LF
  <2> DEFINE w == Bytes(item, m)
  <2>1. /\ w[1] = Byte("start", m) /\ w[2] = CR /\ w[3] = LF
        /\ w[4] = Byte("length", n - 8)
        /\ w[5] = CR /\ w[6] = LF /\ w[7] = CR /\ w[8] = LF
    BY BytesShape
  <2>2. ASSUME NEW j \in 1..8, Len(b) >= j PROVE b[j] = w[j]
    <3>1. j \in 1..Len(b) /\ j <= Len(w)
      BY <1>1, <2>2
    <3> QED BY <3>1 DEF Starts
  <2> HIDE DEF w, n
  <2> QED BY <2>1, <2>2
<1> HIDE DEF n
<1>3. CASE Len(b) < 8
  <2>1. \A i \in 4..Len(b) : ~ Blank(b, i)
    <3>1. ASSUME NEW i \in 4..Len(b) PROVE ~ Blank(b, i)
      <4>1. i \in {4, 5, 6, 7}
        BY <1>1, <1>3
      <4> QED BY <4>1, <1>1, <1>2 DEF Blank, CR, LF, Byte
    <3> QED BY <3>1
  <2> QED BY <2>1, <1>1, <1>3, NoHeader, WithoutHeader DEF Judges, n
<1>4. CASE Len(b) >= 8
  <2>1. HeaderEnd(b) = 8
    <3>1. Blank(b, 8) /\ 8 \in 4..Len(b)
      BY <1>1, <1>2, <1>4 DEF Blank
    <3>2. ASSUME NEW i \in 4..7 PROVE ~ Blank(b, i)
      <4>1. i \in {4, 5, 6, 7}
        OBVIOUS
      <4>2. b[4] # LF /\ b[5] # LF /\ b[7] # LF /\ b[4] # CR
        BY <1>1, <1>2, <1>4 DEF CR, LF, Byte
      <4> QED BY <4>1, <4>2 DEF Blank
    <3> QED BY <3>1, <3>2, HeaderAt
  <2>2. ContentLength(b) = n - 8
    <3>1. b[4].t = "length" /\ b[4].n = n - 8
      BY <1>1, <1>2, <1>4 DEF Byte
    <3>2. ASSUME NEW i \in 1..3 PROVE b[i].t # "length"
      <4>1. i \in {1, 2, 3}
        OBVIOUS
      <4> QED BY <4>1, <1>1, <1>2, <1>4 DEF Byte, CR, LF
    <3>3. 4 \in 1..HeaderEnd(b) /\ HeaderEnd(b) \in Nat /\ 4 - 1 = 3
      BY <2>1
    <3> QED BY <3>1, <3>2, <3>3, LengthAt
  <2>3. Total(b) = n
    BY <1>1, <2>1, <2>2 DEF Total
  <2>4. b[1].t = "start" /\ b[1].n = m
    BY <1>1, <1>2, <1>4 DEF Byte
  <2>5. Verdict(b) = IF Len(b) < n THEN "wait" ELSE "message"
    BY <1>1, <2>1, <2>2, <2>3, <2>4 DEF Verdict
  <2> QED BY <1>1, <2>3, <2>4, <2>5 DEF Judges, n
<1> QED BY <1>1, <1>3, <1>4

LEMMA JudgesKeepalive ==
    ASSUME NEW b \in Seq(AnyByte), NEW item \in Item, NEW m \in Nat,
           item.kind = "keepalive", Starts(b, Bytes(item, m)), ~ Pair(b, 1)
    PROVE  Judges(b, item, m)
<1>1. Len(b) \in Nat
  BY LenProperties
<1>2. Len(Bytes(item, m)) = 2 /\ Bytes(item, m)[1] = CR /\ Bytes(item, m)[2] = LF
  BY BytesShape
<1>3. Len(b) < 2
  <2>1. ASSUME Len(b) >= 2 PROVE FALSE
    <3>1. 1 \in 1..Len(b) /\ 2 \in 1..Len(b)
      BY <1>1, <2>1
    <3>2. b[1] = CR /\ b[2] = LF
      BY <1>2, <3>1 DEF Starts
    <3>3. 2 * 1 <= Len(b) /\ b[2 * 1 - 1] = CR /\ b[2 * 1] = LF
      BY <1>1, <2>1, <3>2
    <3> QED BY <3>3, PairIs
  <2> QED BY <1>1, <2>1
<1>4. HeaderEnd(b) = 0
  BY <1>1, <1>3, NoHeader
<1> QED BY <1>1, <1>2, <1>3, <1>4, WithoutHeader DEF Judges

LEMMA JudgesShort ==
    ASSUME NEW b \in Seq(AnyByte), NEW item \in Item, NEW m \in Nat,
           item.kind \in {"unsized", "garbled"}, Starts(b, Bytes(item, m))
    PROVE  Judges(b, item, m)
<1> DEFINE w == Bytes(item, m)
<1>1. Len(b) \in Nat
  BY LenProperties
<1>2. /\ Len(w) = 5
      /\ w[1] = IF item.kind = "unsized" THEN Byte("start", m) ELSE Byte("length", 0)
      /\ w[2] = CR /\ w[3] = LF /\ w[4] = CR /\ w[5] = LF
  BY BytesShape
<1>3. ASSUME NEW j \in 1..5, Len(b) >= j PROVE b[j] = w[j]
  <2>1. j \in 1..Len(b) /\ j <= Len(w)
    BY <1>1, <1>2, <1>3
  <2> QED BY <2>1 DEF Starts
<1> HIDE DEF w
<1>4. CASE Len(b) < 5
  <2>1. ASSUME NEW i \in 4..Len(b) PROVE ~ Blank(b, i)
    <3>1. i = 4 /\ Len(b) >= 1
      BY <1>1, <1>4
    <3>2. b[1] = w[1] /\ w[1].t # "cr"
      BY <1>1, <1>2, <1>3, <3>1 DEF Byte
    <3> QED BY <3>1, <3>2 DEF Blank, CR, Byte
  <2> QED BY <2>1, <1>1, <1>2, <1>4, NoHeader, WithoutHeader DEF Judges, w
<1>5. CASE Len(b) >= 5
  <2>1. b[1] = w[1] /\ b[2] = CR /\ b[3] = LF /\ b[4] = CR /\ b[5] = LF
    BY <1>1, <1>2, <1>3, <1>5
  <2>2. HeaderEnd(b) = 5
    <3>1. Blank(b, 5) /\ 5 \in 4..Len(b)
      BY <1>1, <1>5, <2>1 DEF Blank
    <3>2. ~ Blank(b, 4)
      BY <1>2, <2>1 DEF Blank, CR, Byte
    <3> QED BY <3>1, <3>2, HeaderAt
  <2>3. CASE item.kind = "unsized"
    <3>1. ASSUME NEW i \in 1..5 PROVE b[i].t # "length"
      <4>1. i \in {1, 2, 3, 4, 5}
        OBVIOUS
      <4> QED BY <4>1, <2>1, <2>3, <1>2 DEF CR, LF, Byte
    <3>2. ContentLength(b) = -1
      BY <3>1, <2>2, NoLength
    <3>3. Verdict(b) = "broken"
      BY <3>2, <2>2 DEF Verdict
    <3> QED BY <3>3 DEF Judges
  <2>4. CASE item.kind = "garbled"
    <3>1. b[1].t = "length" /\ b[1].n = 0
      BY <2>1, <2>4, <1>2 DEF Byte
    <3>2. ContentLength(b) = 0
      <4>1. 1 \in 1..HeaderEnd(b) /\ HeaderEnd(b) \in Nat
        BY <2>2
      <4> QED BY <3>1, <4>1, LengthAt
    <3>3. Total(b) = 5
      BY <2>2, <3>2 DEF Total
    <3>4. Verdict(b) = "broken"
      BY <3>1, <3>2, <3>3, <2>2, <1>1, <1>5 DEF Verdict
    <3> QED BY <3>4 DEF Judges
  <2> QED BY <2>3, <2>4
<1> QED BY <1>1, <1>4, <1>5

LEMMA JudgesEndless ==
    ASSUME NEW b \in Seq(AnyByte), NEW item \in Item, NEW m \in Nat,
           item.kind = "endless", Starts(b, Bytes(item, m)),
           Len(b) <= Len(Bytes(item, m))
    PROVE  Judges(b, item, m)
<1>1. Len(b) \in Nat /\ MaxHeader \in Nat
  BY LenProperties, StreamAssumption
<1>2. /\ Len(Bytes(item, m)) = MaxHeader + 1
      /\ \A j \in 1..(MaxHeader + 1) : Bytes(item, m)[j] = Text
  BY BytesShape
<1>3. ASSUME NEW j \in 1..Len(b) PROVE b[j] = Text
  <2>1. j \in 1..(MaxHeader + 1) /\ j <= Len(Bytes(item, m))
    BY <1>1, <1>2
  <2> QED BY <2>1, <1>2 DEF Starts
<1>4. HeaderEnd(b) = 0
  <2>1. ASSUME NEW i \in 4..Len(b) PROVE ~ Blank(b, i)
    <3>1. i \in 1..Len(b)
      BY <1>1
    <3>2. b[i] = Text
      BY <3>1, <1>3
    <3> QED BY <3>2 DEF Blank, Text, LF, Byte
  <2> QED BY <2>1, NoHeader
<1> QED BY <1>1, <1>2, <1>4, WithoutHeader DEF Judges

LEMMA Judging ==
    ASSUME NEW b \in Seq(AnyByte), NEW item \in Item, NEW m \in Nat,
           Starts(b, Bytes(item, m)), ~ Pair(b, 1),
           item.kind \notin {"message", "keepalive"} => Len(b) <= Len(Bytes(item, m))
    PROVE  Judges(b, item, m)
<1>1. item.kind \in Kind
  BY BytesShape
<1> QED BY <1>1, JudgesMessage, JudgesKeepalive, JudgesShort, JudgesEndless DEF Kind

-----------------------------------------------------------------------------
(* Where the framer stands (FramedAsSent). *)

\* The end of the k-th item in the stream of bytes, and the byte at a place that
\* is in the buffer or on its way.
Edge(k) == IF k = 0 THEN 0 ELSE items[k].end
At(q) == IF q <= taken THEN buf[q - (taken - Len(buf))] ELSE net[q - taken]

\* The bytes of the i-th item stand at its place.
Spelled(i) ==
    \E item \in Item, m \in Nat :
        /\ item.kind = items[i].kind
        /\ item.kind = "message" => m = Count("message", i)
        /\ Len(Bytes(item, m)) = Edge(i) - Edge(i - 1)
        /\ \A j \in 1..Len(Bytes(item, m)) : At(Edge(i - 1) + j) = Bytes(item, m)[j]

\* Items follow one another, and what cannot be framed is the last.
Laid ==
    /\ \A i, j \in 0..Len(items) : i < j => Edge(i) < Edge(j)
    /\ \A i \in 1..Len(items) :
          i < Len(items) => items[i].kind \in {"message", "keepalive"}

Waits == IF reader = "sending" THEN 1 ELSE 0

\* The messages passed on are the first ones, in their order.
Ordered ==
    /\ \A i \in 1..Len(got) : got[i] = i
    /\ \A i \in 1..Len(queue) : queue[i] = Len(got) + i
    /\ reader = "sending" => pending = Len(got) + Len(queue) + 1
    /\ Len(got) + Len(queue) + Waits <= Count("message", Len(items))

\* The buffer starts after the d-th item, what is on its way ends with the e-th;
\* what stands before d has been told.
Cut(d, e) ==
    /\ d \in 0..Len(items) /\ e \in d..Len(items)
    /\ Edge(d) = taken - Len(buf)
    /\ Edge(e) = taken + Len(net)
    /\ path # "broken" => e = Len(items)
    /\ \A i \in (d + 1)..e : Spelled(i)
    /\ Count("message", d) = Len(got) + Len(queue) + Waits
    /\ Count("keepalive", d) = keepalives + skipped
    /\ reader = "reading" => skipped = 0 /\ (d = Len(items) \/ taken < Edge(d + 1))

Framing ==
    /\ StreamTyped /\ Laid /\ Ordered
    /\ reader \in {"reading", "framing", "sending", "gone"}
    /\ reader # "gone" => \E d, e \in Nat : Cut(d, e)

LEMMA EdgeTyped ==
    ASSUME StreamTyped, NEW k \in 0..Len(items)
    PROVE  Edge(k) \in Nat
<1>1. ASSUME NEW i \in 1..Len(items) PROVE items[i].end \in Nat
  <2>1. items[i] \in [kind : Kind, end : Nat]
    BY ElementOfSeq DEF StreamTyped
  <2> QED BY <2>1
<1>2. Len(items) \in Nat
  BY LenProperties DEF StreamTyped
<1> QED BY <1>1, <1>2 DEF Edge

LEMMA EdgeOrder ==
    ASSUME StreamTyped, Laid, NEW i \in 0..Len(items), NEW j \in 0..Len(items), i <= j
    PROVE  Edge(i) \in Nat /\ Edge(j) \in Nat /\ Edge(i) <= Edge(j)
<1>1. Edge(i) \in Nat /\ Edge(j) \in Nat
  BY EdgeTyped
<1>2. CASE i = j
  BY <1>1, <1>2
<1>3. CASE i < j
  BY <1>1, <1>3 DEF Laid
<1> QED BY <1>1, <1>2, <1>3

\* Items are only added.
ItemsKept ==
    /\ Len(items) <= Len(items')
    /\ \A i \in 1..Len(items) : items'[i] = items[i]

LEMMA CountKept ==
    ASSUME StreamTyped, ItemsKept, NEW kind, NEW d \in 0..Len(items)
    PROVE  Count(kind, d)' = Count(kind, d)
<1>1. Len(items) \in Nat
  BY LenProperties DEF StreamTyped
<1>2. {i \in 1..d : items'[i].kind = kind} = {i \in 1..d : items[i].kind = kind}
  BY <1>1 DEF ItemsKept
<1> QED BY <1>2 DEF Count

LEMMA EdgeKept ==
    ASSUME StreamTyped, ItemsKept, NEW k \in 0..Len(items)
    PROVE  Edge(k)' = Edge(k)
<1>1. Len(items) \in Nat
  BY LenProperties DEF StreamTyped
<1> QED BY <1>1 DEF Edge, ItemsKept

LEMMA SpelledKept ==
    ASSUME StreamTyped, ItemsKept, NEW i \in 1..Len(items), Spelled(i),
           \A q \in (Edge(i - 1) + 1)..Edge(i) : At(q)' = At(q)
    PROVE  Spelled(i)'
<1>1. Len(items) \in Nat
  BY LenProperties DEF StreamTyped
<1>2. i \in 0..Len(items) /\ i - 1 \in 0..Len(items)
  BY <1>1
<1>3. Edge(i)' = Edge(i) /\ Edge(i - 1)' = Edge(i - 1)
      /\ Edge(i) \in Nat /\ Edge(i - 1) \in Nat
  BY <1>2, EdgeKept, EdgeTyped
<1>4. Count("message", i)' = Count("message", i) /\ items'[i].kind = items[i].kind
  BY <1>2, CountKept DEF ItemsKept
<1>5. PICK item \in Item, m \in Nat :
         /\ item.kind = items[i].kind
         /\ item.kind = "message" => m = Count("message", i)
         /\ Len(Bytes(item, m)) = Edge(i) - Edge(i - 1)
         /\ \A j \in 1..Len(Bytes(item, m)) : At(Edge(i - 1) + j) = Bytes(item, m)[j]
  BY DEF Spelled
<1>6. ASSUME NEW j \in 1..Len(Bytes(item, m))
      PROVE  At(Edge(i - 1) + j)' = Bytes(item, m)[j]
  <2>1. Edge(i - 1) + j \in (Edge(i - 1) + 1)..Edge(i)
    BY <1>3, <1>5
  <2>2. \A q : q = Edge(i - 1) + j => At(q)' = At(q)
    BY <2>1
  <2>3. At(Edge(i - 1) + j)' = At(Edge(i - 1) + j)
    BY <2>2, <1>3 DEF At
  <2> QED BY <2>3, <1>5
<1>7. Bytes(item, m)' = Bytes(item, m)
  BY DEF Bytes
<1> QED BY <1>3, <1>4, <1>5, <1>6, <1>7 DEF Spelled

\* What stands in place from the k-th item on is spelled as before.
LEMMA SpelledRest ==
    ASSUME StreamTyped, Laid, ItemsKept, NEW d \in Nat, NEW e \in Nat, Cut(d, e),
           NEW k \in d..e, \A q \in (Edge(k) + 1)..Edge(e) : At(q)' = At(q)
    PROVE  \A i \in (k + 1)..e : Spelled(i)'
<1>1. Len(items) \in Nat /\ d \in 0..Len(items) /\ e \in d..Len(items)
  BY LenProperties DEF StreamTyped, Cut
<1>2. ASSUME NEW i \in (k + 1)..e PROVE Spelled(i)'
  <2>1. /\ i \in 1..Len(items) /\ i - 1 \in 0..Len(items) /\ k <= i - 1 /\ i <= e
        /\ i \in 0..Len(items) /\ k \in 0..Len(items) /\ e \in 0..Len(items)
        /\ i \in (d + 1)..e
    BY <1>1
  <2>2. Edge(k) <= Edge(i - 1) /\ Edge(k) \in Nat /\ Edge(i - 1) \in Nat
    BY <2>1, EdgeOrder
  <2>3. Edge(i) <= Edge(e) /\ Edge(i) \in Nat /\ Edge(e) \in Nat
    BY <2>1, EdgeOrder
  <2>4. \A q \in (Edge(i - 1) + 1)..Edge(i) : At(q)' = At(q)
    BY <2>2, <2>3
  <2>5. Spelled(i)
    BY <2>1 DEF Cut
  <2> QED BY <2>1, <2>4, <2>5, SpelledKept
<1> QED BY <1>2

\* The bytes that are read move from the path to the buffer, and stay in place.
LEMMA ReadKeeps ==
    ASSUME Framing, Read
    PROVE  Framing'
<1>1. PICK n \in 1..ReadChunk :
         /\ n <= Len(net)
         /\ buf' = buf \o SubSeq(net, 1, n)
         /\ net' = SubSeq(net, n + 1, Len(net))
         /\ taken' = taken + n
  BY DEF Read
<1>2. /\ reader = "reading" /\ reader' = "framing"
      /\ UNCHANGED <<items, path, skipped, pending, keepalives, queue, got>>
  BY DEF Read
<1> DEFINE front == SubSeq(net, 1, n)
           back == SubSeq(net, n + 1, Len(net))
<1>3. /\ Len(net) \in Nat /\ Len(buf) \in Nat /\ Len(items) \in Nat
      /\ n \in Nat /\ n \in 0..Len(net)
  BY <1>1, LenProperties, StreamAssumption DEF Framing, StreamTyped
<1>4. /\ front \in Seq(AnyByte) /\ Len(front) = n
      /\ \A j \in 1..n : front[j] = net[j]
  BY <1>3, Prefix DEF Framing, StreamTyped
<1>5. /\ back \in Seq(AnyByte) /\ Len(back) = Len(net) - n
      /\ \A j \in 1..(Len(net) - n) : back[j] = net[n + j]
  BY <1>3, Suffix DEF Framing, StreamTyped
<1> HIDE DEF front, back
<1>6. Joined(buf, front, buf')
  BY <1>1, <1>4, Joining DEF Framing, StreamTyped, front
<1>7. /\ buf' \in Seq(AnyByte) /\ Len(buf') = Len(buf) + n
      /\ net' \in Seq(AnyByte) /\ Len(net') = Len(net) - n
      /\ taken' \in Nat
  <2>1. buf' \in Seq(AnyByte) /\ Len(buf') = Len(buf) + n
    BY <1>4, <1>6 DEF Joined
  <2>2. net' \in Seq(AnyByte) /\ Len(net') = Len(net) - n
    BY <1>1, <1>5 DEF back
  <2>3. taken' \in Nat
    BY <1>1, <1>3 DEF Framing, StreamTyped
  <2> QED BY <2>1, <2>2, <2>3
<1>8. StreamTyped'
  BY <1>2, <1>7 DEF Framing, StreamTyped
<1>9. ItemsKept
  BY <1>2, <1>3 DEF ItemsKept
<1>10. Laid' /\ Ordered'
  BY <1>2 DEF Framing, Laid, Ordered, Edge, Waits, Count
<1>11. PICK d \in Nat, e \in Nat : Cut(d, e)
  BY <1>2 DEF Framing
<1>12. ASSUME NEW q \in (Edge(d) + 1)..Edge(e)
       PROVE  At(q)' = At(q)
  <2>1. /\ q \in Int /\ q >= taken - Len(buf) + 1 /\ q <= taken + Len(net)
        /\ taken \in Nat
    BY <1>3, <1>11 DEF Cut, Framing, StreamTyped
  <2>2. CASE q <= taken
    <3>1. q - (taken - Len(buf)) \in 1..Len(buf)
      BY <1>3, <2>1, <2>2
    <3>2. q - (taken' - Len(buf')) = q - (taken - Len(buf)) /\ q <= taken'
      BY <1>1, <1>3, <1>7, <2>1, <2>2
    <3>3. buf'[q - (taken - Len(buf))] = buf[q - (taken - Len(buf))]
      BY <3>1, <1>6 DEF Joined
    <3> QED BY <2>2, <3>2, <3>3 DEF At
  <2>3. CASE q > taken /\ q <= taken + n
    <3>1. q - taken \in 1..n
      BY <1>3, <2>1, <2>3
    <3>2. q - (taken' - Len(buf')) = Len(buf) + (q - taken) /\ q <= taken'
      BY <1>1, <1>3, <1>7, <2>1, <2>3
    <3>3. buf'[Len(buf) + (q - taken)] = front[q - taken]
      BY <3>1, <1>4, <1>6 DEF Joined
    <3>4. front[q - taken] = net[q - taken]
      BY <3>1, <1>4
    <3>5. ~ (q <= taken)
      BY <2>1, <2>3
    <3> QED BY <3>2, <3>3, <3>4, <3>5 DEF At
  <2>4. CASE q > taken + n
    <3>1. q - taken' \in 1..(Len(net) - n) /\ n + (q - taken') = q - taken
      BY <1>1, <1>3, <2>1, <2>4
    <3>2. net'[q - taken'] = net[q - taken]
      BY <3>1, <1>1, <1>5 DEF back
    <3>3. ~ (q <= taken) /\ ~ (q <= taken')
      BY <1>1, <1>3, <2>1, <2>4
    <3> QED BY <3>2, <3>3 DEF At
  <2> QED BY <1>3, <2>1, <2>2, <2>3, <2>4
<1>13. Cut(d, e)'
  <2>1. /\ d \in 0..Len(items) /\ e \in d..Len(items)
        /\ d \in Nat /\ e \in Nat
    BY <1>3, <1>11 DEF Cut
  <2>2. \A i \in (d + 1)..e : Spelled(i)'
    BY <1>9, <1>11, <1>12, <2>1, SpelledRest DEF Framing
  <2>3. Edge(d)' = Edge(d) /\ Edge(e)' = Edge(e)
    BY <1>2 DEF Edge
  <2>4. Edge(d)' = taken' - Len(buf') /\ Edge(e)' = taken' + Len(net')
    <3>1. /\ Edge(d) = taken - Len(buf) /\ Edge(e) = taken + Len(net)
          /\ taken \in Nat
      BY <1>11 DEF Cut, Framing, StreamTyped
    <3>2. taken' = taken + n /\ Len(buf') = Len(buf) + n /\ Len(net') = Len(net) - n
      BY <1>1, <1>7
    <3>3. /\ taken - Len(buf) = (taken + n) - (Len(buf) + n)
          /\ taken + Len(net) = (taken + n) + (Len(net) - n)
      BY <1>3, <3>1
    <3> QED BY <3>1, <3>2, <3>3, <2>3
  <2>5. Count("message", d)' = Count("message", d) /\ Count("keepalive", d)' = Count("keepalive", d)
    BY <1>2 DEF Count
  <2>6. Waits' = Waits
    BY <1>2 DEF Waits
  <2> QED BY <1>2, <1>11, <2>2, <2>4, <2>5, <2>6 DEF Cut
<1> QED BY <1>2, <1>8, <1>10, <1>11, <1>13 DEF Framing

\* What the peer writes stands after what it has written.
LEMMA WriteKeeps ==
    ASSUME Framing, NEW item \in Item, Write(item)
    PROVE  Framing'
<1>0. Len(items) \in Nat /\ Count("message", Len(items)) \in Nat
  <2>1. Len(items) \in Nat
    BY LenProperties DEF Framing, StreamTyped
  <2>2. \A k \in Nat : Count("message", k) \in Nat
    BY TallyFinite DEF Count, Tally
  <2> QED BY <2>1, <2>2
<1>a. PICK L \in Nat : L = Len(items)
  BY <1>0
<1>b. PICK n \in Nat : n = Count("message", L) + 1 /\ n - 1 = Count("message", L)
  BY <1>0, <1>a
<1>c. PICK bytes : bytes = Bytes(item, n)
  OBVIOUS
<1>1. /\ items' = Append(items, [kind |-> item.kind, end |-> Written + Len(bytes)])
      /\ net' = IF path = "broken" THEN net ELSE net \o bytes
      /\ \A i \in DOMAIN items : items[i].kind \in {"message", "keepalive"}
      /\ UNCHANGED <<path, taken, buf, skipped, reader, pending, keepalives, queue, got>>
  BY <1>a, <1>b, <1>c DEF Write, reading
<1>2. /\ Len(net) \in Nat /\ Len(buf) \in Nat /\ taken \in Nat
      /\ DOMAIN items = 1..L
  BY <1>a, LenProperties DEF Framing, StreamTyped
<1>4. /\ item.kind \in Kind /\ bytes \in Seq(AnyByte) /\ Len(bytes) > 0 /\ Len(bytes) \in Nat
  <2>1. item.kind \in Kind /\ bytes \in Seq(AnyByte) /\ Len(bytes) > 0
    BY <1>c, BytesShape
  <2> QED BY <2>1, LenProperties
<1>5. Written = Edge(L) /\ Edge(L) \in Nat
  <2>1. Written = Edge(L)
    <3>1. items = <<>> <=> L = 0
      BY <1>a, EmptySeq DEF Framing, StreamTyped
    <3> QED BY <1>a, <3>1 DEF Written, Edge
  <2>2. L \in 0..Len(items)
    BY <1>a
  <2> QED BY <2>1, <2>2, EdgeTyped DEF Framing
<1>d. PICK new : new = [kind |-> item.kind, end |-> Written + Len(bytes)]
  OBVIOUS
<1>6. new \in [kind : Kind, end : Nat] /\ new.kind = item.kind /\ new.end = Edge(L) + Len(bytes)
  BY <1>d, <1>4, <1>5
<1>7. /\ items' \in Seq([kind : Kind, end : Nat]) /\ Len(items') = L + 1
      /\ \A i \in 1..L : items'[i] = items[i]
      /\ items'[L + 1] = new
  BY <1>1, <1>a, <1>d, <1>6, AppendProperties DEF Framing, StreamTyped
<1>8. ItemsKept
  BY <1>a, <1>7 DEF ItemsKept
<1>9. /\ \A k \in 0..L : Edge(k)' = Edge(k) /\ Edge(k) \in Nat
      /\ Edge(L + 1)' = Edge(L) + Len(bytes)
  <2>1. \A k \in 0..Len(items) : Edge(k)' = Edge(k) /\ Edge(k) \in Nat
    BY <1>8, EdgeKept, EdgeTyped DEF Framing
  <2>2. Edge(L + 1)' = Edge(L) + Len(bytes)
    BY <1>6, <1>7 DEF Edge
  <2> QED BY <1>a, <2>1, <2>2
<1>10. Count("message", L + 1)' = IF item.kind = "message" THEN n ELSE n - 1
  <2>1. Tally(items', "message", L + 1) =
           IF items'[L + 1].kind = "message" THEN Tally(items', "message", L) + 1
           ELSE Tally(items', "message", L)
    BY TallyNext
  <2>2. L \in 0..Len(items)
    BY <1>a
  <2>3. Count("message", L)' = Count("message", L)
    BY <1>8, <2>2, CountKept DEF Framing
  <2>4. Tally(items', "message", L) = Count("message", L)'
        /\ Tally(items', "message", L + 1) = Count("message", L + 1)'
    BY DEF Count, Tally
  <2> QED BY <1>b, <1>6, <1>7, <2>1, <2>3, <2>4
<1>11. StreamTyped'
  <2>1. net' \in Seq(AnyByte)
    BY <1>1, <1>4, ConcatProperties DEF Framing, StreamTyped
  <2> QED BY <2>1, <1>1, <1>7 DEF Framing, StreamTyped
<1>12. Laid'
  <2>1. ASSUME NEW i \in 0..(L + 1), NEW j \in 0..(L + 1), i < j
        PROVE  Edge(i)' < Edge(j)'
    <3>1. CASE j <= L
      <4>1. i \in 0..Len(items) /\ j \in 0..Len(items) /\ i \in 0..L /\ j \in 0..L
        BY <1>a, <2>1, <3>1
      <4>2. Edge(i) < Edge(j)
        BY <2>1, <4>1 DEF Framing, Laid
      <4>3. Edge(i)' = Edge(i) /\ Edge(j)' = Edge(j)
        BY <1>9, <4>1
      <4> QED BY <4>2, <4>3
    <3>2. CASE j = L + 1
      <4>1. i \in 0..Len(items) /\ L \in 0..Len(items) /\ i <= L /\ i \in 0..L
        BY <1>a, <2>1, <3>2
      <4>2. /\ Edge(i) <= Edge(L) /\ Edge(i) \in Nat /\ Edge(L) \in Nat
        BY <4>1, EdgeOrder DEF Framing
      <4>3. Edge(i)' = Edge(i) /\ Edge(j)' = Edge(L) + Len(bytes)
        BY <1>9, <3>2, <4>1
      <4> QED BY <1>4, <4>2, <4>3
    <3> QED BY <2>1, <3>1, <3>2
  <2>2. ASSUME NEW i \in 1..(L + 1), i < L + 1
        PROVE  items'[i].kind \in {"message", "keepalive"}
    <3>1. i \in 1..L
      BY <2>2
    <3> QED BY <1>1, <1>2, <1>7, <3>1
  <2>3. \A i, j \in 0..Len(items') : i < j => Edge(i)' < Edge(j)'
    BY <1>7, <2>1
  <2>4. \A i \in 1..Len(items') :
           i < Len(items') => items'[i].kind \in {"message", "keepalive"}
    BY <1>7, <2>2
  <2> QED BY <2>3, <2>4 DEF Laid
<1>14. Ordered'
  <2>1. Waits' = Waits /\ Waits \in Nat
    BY <1>1 DEF Waits
  <2>2. Len(got) \in Nat /\ Len(queue) \in Nat
    BY LenProperties DEF Framing, StreamTyped
  <2>3. Len(got) + Len(queue) + Waits <= Count("message", L + 1)'
    <3>1. Len(got) + Len(queue) + Waits <= n - 1
      BY <1>a, <1>b DEF Framing, Ordered
    <3> QED BY <3>1, <1>10, <2>1, <2>2
  <2>4. (Count("message", Len(items)))' = Count("message", L + 1)'
    BY <1>7 DEF Count
  <2>5. /\ \A i \in 1..Len(got') : got'[i] = i
        /\ \A i \in 1..Len(queue') : queue'[i] = Len(got') + i
        /\ reader' = "sending" => pending' = Len(got') + Len(queue') + 1
    BY <1>1 DEF Framing, Ordered
  <2> QED BY <1>1, <2>1, <2>3, <2>4, <2>5 DEF Ordered
<1>15. ASSUME reader # "gone"
       PROVE  (\E d, e \in Nat : Cut(d, e))'
  <2>1. PICK d \in Nat, e \in Nat : Cut(d, e)
    BY <1>15 DEF Framing
  <2>2. /\ d \in 0..L /\ e \in d..L /\ e \in 0..L
        /\ d \in 0..Len(items) /\ e \in 0..Len(items)
        /\ Edge(d) = taken - Len(buf) /\ Edge(e) = taken + Len(net)
    BY <1>a, <2>1 DEF Cut
  <2>b. Edge(d)' = Edge(d) /\ Edge(e)' = Edge(e)
    BY <1>9, <2>2
  <2>3. Count("message", d)' = Count("message", d) /\ Count("keepalive", d)' = Count("keepalive", d)
    BY <1>8, <2>2, CountKept DEF Framing
  <2>4. ASSUME NEW q \in (Edge(d) + 1)..Edge(e)
        PROVE  At(q)' = At(q)
    <3>1. /\ q \in Int /\ q <= taken + Len(net)
      BY <1>2, <2>2
    <3>2. q > taken => net'[q - taken] = net[q - taken]
      <4>1. CASE path = "broken"
        BY <1>1, <4>1
      <4>2. CASE path # "broken"
        <5>1. Joined(net, bytes, net')
          BY <1>1, <1>4, <4>2, Joining DEF Framing, StreamTyped
        <5>2. q > taken => q - taken \in 1..Len(net)
          BY <1>2, <3>1
        <5> QED BY <5>1, <5>2 DEF Joined
      <4> QED BY <4>1, <4>2
    <3>3. q <= taken \/ q > taken
      BY <1>2, <3>1
    <3> QED BY <1>1, <1>2, <3>1, <3>2, <3>3 DEF At
  <2>5. \A i \in (d + 1)..e : Spelled(i)'
    <3>1. d \in d..e
      BY <2>2
    <3> QED BY <1>8, <2>1, <2>4, <3>1, SpelledRest DEF Framing
  <2>6. reader = "reading" => skipped = 0 /\ taken < Edge(d + 1)'
    <3>1. ASSUME reader = "reading" PROVE taken < Edge(d + 1)'
      <4>1. CASE d = L
        <5>1. e = d
          BY <2>2, <4>1
        <5>2. Edge(d) = taken
          BY <1>2, <2>2, <5>1
        <5> QED BY <1>4, <1>9, <4>1, <5>2, <1>2
      <4>2. CASE d # L
        <5>1. d + 1 \in 0..L /\ taken < Edge(d + 1)
          BY <1>a, <2>1, <2>2, <3>1, <4>2 DEF Cut
        <5>2. Edge(d + 1)' = Edge(d + 1)
          BY <1>9, <5>1
        <5> QED BY <5>1, <5>2
      <4> QED BY <4>1, <4>2
    <3> QED BY <2>1, <3>1 DEF Cut
  <2>c. /\ Count("message", d)' = Len(got') + Len(queue') + Waits'
        /\ Count("keepalive", d)' = keepalives' + skipped'
        /\ Edge(d)' = taken' - Len(buf')
        /\ reader' = "reading" => skipped' = 0 /\ (d = Len(items') \/ taken' < Edge(d + 1)')
    BY <1>1, <2>1, <2>3, <2>2, <2>b, <2>6 DEF Cut, Waits
  <2>7. CASE path = "broken"
    <3>1. Edge(e)' = taken' + Len(net') /\ ~ (path' # "broken")
      BY <1>1, <2>7, <2>2, <2>b
    <3>2. d \in 0..Len(items') /\ e \in d..Len(items')
      BY <1>7, <2>2
    <3>3. Cut(d, e)'
      BY <2>5, <2>c, <3>1, <3>2 DEF Cut
    <3> QED BY <3>3
  <2>8. CASE path # "broken"
    <3>1. e = L
      BY <1>a, <2>1, <2>8 DEF Cut
    <3>2. Joined(net, bytes, net')
      BY <1>1, <1>4, <2>8, Joining DEF Framing, StreamTyped
    <3>3. Len(net') = Len(net) + Len(bytes)
      BY <3>2 DEF Joined
    <3>4. Edge(L + 1)' = taken' + Len(net')
      BY <1>1, <1>2, <1>4, <1>9, <2>2, <3>1, <3>3
    <3>5. Spelled(L + 1)'
      <4>1. Edge(L)' = Edge(L) /\ Edge(L) = taken + Len(net)
        BY <1>9, <2>2, <3>1
      <4>2. ASSUME NEW j \in 1..Len(bytes)
            PROVE  \A q : q = (Edge(L) + j)' => At(q)' = bytes[j]
        <5>1. (Edge(L) + j)' = taken + Len(net) + j
          BY <4>1
        <5>2. ~ (taken + Len(net) + j <= taken) /\ (taken + Len(net) + j) - taken = Len(net) + j
          BY <1>2
        <5>3. net'[Len(net) + j] = bytes[j]
          BY <3>2 DEF Joined
        <5> QED BY <1>1, <5>1, <5>2, <5>3 DEF At
      <4>3. Len(bytes) = Edge(L + 1)' - Edge(L)'
        BY <1>4, <1>5, <1>9, <4>1
      <4>4. item.kind = items'[L + 1].kind /\ (item.kind = "message" => n = Count("message", L + 1)')
        BY <1>6, <1>7, <1>10
      <4>5. Bytes(item, n)' = bytes
        BY <1>c DEF Bytes
      <4>6. \A j \in 1..Len(bytes) : At(Edge(L) + j)' = bytes[j]
        <5>1. ASSUME NEW j \in 1..Len(bytes) PROVE At(Edge(L) + j)' = bytes[j]
          <6>1. \A q : q = (Edge(L) + j)' => At(q)' = bytes[j]
            BY <4>2
          <6> QED BY <6>1 DEF At
        <5> QED BY <5>1
      <4>7. \A i : i = L + 1 => i - 1 = L
        OBVIOUS
      <4> QED BY <4>3, <4>4, <4>5, <4>6, <4>7 DEF Spelled
    <3>6. \A i \in (d + 1)..(L + 1) : Spelled(i)'
      <4>1. ASSUME NEW i \in (d + 1)..(L + 1) PROVE Spelled(i)'
        <5>1. i \in (d + 1)..e \/ i = L + 1
          BY <3>1, <2>2
        <5> QED BY <2>5, <3>5, <5>1
      <4> QED BY <4>1
    <3>7. d \in 0..Len(items') /\ L + 1 \in d..Len(items') /\ L + 1 = Len(items')
      BY <1>7, <2>2
    <3>8. Cut(d, L + 1)'
      BY <2>c, <3>4, <3>6, <3>7 DEF Cut
    <3>9. L + 1 \in Nat
      OBVIOUS
    <3> QED BY <3>8, <3>9
  <2> QED BY <2>7, <2>8
<1> QED BY <1>1, <1>11, <1>12, <1>14, <1>15 DEF Framing

\* A read task that is gone tells nothing more.
LEMMA GoneKeeps ==
    ASSUME Framing, StreamTyped', reader' = "gone", queue' \in {queue, <<>>},
           UNCHANGED <<items, got>>
    PROVE  Framing'
<1>1. Len(got) \in Nat /\ Len(queue) \in Nat /\ (Waits = 1 \/ Waits = 0) /\ Waits' = 0
  BY LenProperties DEF Framing, StreamTyped, Waits
<1>2. (Count("message", Len(items)))' = Count("message", Len(items))
  BY DEF Count
<1>3. Count("message", Len(items)) \in Nat
  <2>1. Len(items) \in Nat
    BY LenProperties DEF Framing, StreamTyped
  <2>2. \A k \in Nat : Count("message", k) \in Nat
    BY TallyFinite DEF Count, Tally
  <2> QED BY <2>1, <2>2
<1>4. Len(queue') <= Len(queue) /\ Len(queue') \in Nat
      /\ \A i \in 1..Len(queue') : queue'[i] = queue[i]
  BY <1>1
<1>5. Len(got') + Len(queue') + Waits' <= Count("message", Len(items))
  BY <1>1, <1>3, <1>4 DEF Framing, Ordered
<1>6. \A i \in 1..Len(queue') : queue'[i] = Len(got') + i
  <2>1. CASE queue' = queue
    BY <2>1 DEF Framing, Ordered
  <2>2. CASE queue' = <<>>
    BY <2>2
  <2> QED BY <2>1, <2>2
<1>7. Ordered'
  BY <1>2, <1>5, <1>6 DEF Framing, Ordered
<1>8. Laid'
  BY DEF Framing, Laid, Edge
<1> QED BY <1>7, <1>8 DEF Framing

\* Where the buffer has bytes there is an item, and what is there of it.
LEMMA SpelledHere ==
    ASSUME Framing, NEW d \in Nat, NEW e \in Nat, Cut(d, e), NEW k \in d..e,
           NEW off \in Nat, Edge(k) = Edge(d) + off, off < Len(buf)
    PROVE  /\ k < e
           /\ \E item \in Item, m \in Nat :
                 /\ item.kind = items[k + 1].kind
                 /\ item.kind = "message" => m = Count("message", k + 1)
                 /\ Len(Bytes(item, m)) \in Nat \ {0}
                 /\ Edge(k + 1) = Edge(k) + Len(Bytes(item, m))
                 /\ \A j \in 1..Len(Bytes(item, m)) :
                       off + j <= Len(buf) => buf[off + j] = Bytes(item, m)[j]
<1>1. /\ Len(net) \in Nat /\ Len(buf) \in Nat /\ taken \in Nat
      /\ Edge(d) = taken - Len(buf) /\ Edge(e) = taken + Len(net)
  BY LenProperties DEF Framing, StreamTyped, Cut
<1>2. k < e
  BY <1>1
<1>3. k + 1 \in (d + 1)..e /\ (k + 1) - 1 = k
  BY <1>2
<1>4. PICK i \in (d + 1)..e : i = k + 1
  BY <1>3
<1>5. Spelled(i) /\ i - 1 = k
  BY <1>4 DEF Cut
<1>6. PICK item \in Item, m \in Nat :
         /\ item.kind = items[i].kind
         /\ item.kind = "message" => m = Count("message", i)
         /\ Len(Bytes(item, m)) = Edge(i) - Edge(k)
         /\ \A j \in 1..Len(Bytes(item, m)) : At(Edge(k) + j) = Bytes(item, m)[j]
  BY <1>5 DEF Spelled
<1>7. Len(Bytes(item, m)) \in Nat \ {0}
  <2>1. Bytes(item, m) \in Seq(AnyByte) /\ Len(Bytes(item, m)) > 0
    BY BytesShape
  <2> QED BY <2>1, LenProperties
<1>8. ASSUME NEW j \in 1..Len(Bytes(item, m)), off + j <= Len(buf)
      PROVE  buf[off + j] = Bytes(item, m)[j]
  <2>1. Edge(k) + j <= taken /\ (Edge(k) + j) - (taken - Len(buf)) = off + j
    BY <1>1, <1>7, <1>8
  <2>2. At(Edge(k) + j) = buf[off + j]
    BY <2>1 DEF At
  <2> QED BY <2>2, <1>6
<1>9. Edge(i) = Edge(k) + Len(Bytes(item, m))
  <2>1. i \in 0..Len(items)
    BY <1>4, <1>3, LenProperties DEF Cut, Framing, StreamTyped
  <2>2. Edge(i) \in Nat
    BY <2>1, EdgeTyped DEF Framing
  <2> QED BY <2>2, <1>1, <1>6, <1>7
<1>10. /\ item.kind = items[k + 1].kind
       /\ item.kind = "message" => m = Count("message", k + 1)
       /\ Edge(k + 1) = Edge(k) + Len(Bytes(item, m))
  BY <1>4, <1>6, <1>9
<1> QED BY <1>2, <1>7, <1>8, <1>10

\* The CRLFs a buffer starts with are keepalives, one each.
LEMMA LeadingAreKeepalives ==
    ASSUME Framing, NEW d \in Nat, NEW e \in Nat, Cut(d, e),
           NEW K \in Nat, \A i \in 1..K : Pair(buf, i)
    PROVE  \A i \in 0..K :
              /\ d + i <= e /\ Edge(d + i) = Edge(d) + 2 * i
              /\ i > 0 => items[d + i].kind = "keepalive"
<1> DEFINE Told(i) == /\ d + i <= e /\ Edge(d + i) = Edge(d) + 2 * i
                      /\ i > 0 => items[d + i].kind = "keepalive"
           S == {i \in Nat : i <= K /\ ~ Told(i)}
<1>0. d <= e /\ Len(buf) \in Nat /\ buf \in Seq(AnyByte)
      /\ Edge(d) = taken - Len(buf) /\ taken \in Nat
  BY LenProperties DEF Cut, Framing, StreamTyped
<1>1. SUFFICES ASSUME S # {} PROVE FALSE
  <2>1. ASSUME NEW i \in 0..K, S = {} PROVE Told(i)
    <3>1. i \in Nat /\ i <= K
      OBVIOUS
    <3> HIDE DEF Told
    <3> QED BY <2>1, <3>1
  <2> QED BY <2>1
<1>2. PICK i \in S : \A j \in S : i <= j
  BY <1>1, Least
<1>3. i # 0
  <2>1. Told(0)
    BY <1>0
  <2> QED BY <2>1, <1>2
<1>4. PICK k \in Nat : i = k + 1
  <2>1. i - 1 \in Nat /\ i = (i - 1) + 1
    BY <1>2, <1>3
  <2> QED BY <2>1
<1>5. Told(k) /\ i \in 1..K
  <2>1. k <= K /\ ~ (i <= k) /\ i \in 1..K
    BY <1>2, <1>4
  <2> QED BY <2>1, <1>2
<1>6. 2 * i <= Len(buf) /\ buf[2 * k + 1] = CR /\ buf[2 * k + 2] = LF
  <2>1. 2 * i <= Len(buf) /\ buf[2 * i - 1] = CR /\ buf[2 * i] = LF
    <3>1. Pair(buf, i) /\ i \in Nat \ {0}
      BY <1>4, <1>5
    <3> QED BY <3>1, <1>0, PairIs
  <2>2. 2 * i - 1 = 2 * k + 1 /\ 2 * i = 2 * k + 2
    BY <1>4
  <2> QED BY <2>1, <2>2
<1>7. PICK f \in d..e : f = d + k
  BY <1>5
<1>8. PICK off \in Nat : off = 2 * k
  OBVIOUS
<1>9. Edge(f) = Edge(d) + off /\ off < Len(buf)
  BY <1>4, <1>5, <1>6, <1>7, <1>8, <1>0
<1>10. /\ f < e
       /\ \E item \in Item, m \in Nat :
             /\ item.kind = items[f + 1].kind
             /\ Len(Bytes(item, m)) \in Nat \ {0}
             /\ Edge(f + 1) = Edge(f) + Len(Bytes(item, m))
             /\ \A j \in 1..Len(Bytes(item, m)) :
                   off + j <= Len(buf) => buf[off + j] = Bytes(item, m)[j]
  BY <1>9, SpelledHere
<1>11. PICK item \in Item, m \in Nat :
          /\ item.kind = items[f + 1].kind
          /\ Len(Bytes(item, m)) \in Nat \ {0}
          /\ Edge(f + 1) = Edge(f) + Len(Bytes(item, m))
          /\ \A j \in 1..Len(Bytes(item, m)) :
                off + j <= Len(buf) => buf[off + j] = Bytes(item, m)[j]
  BY <1>10
<1>12. Bytes(item, m)[1] = CR
  <2>1. 1 \in 1..Len(Bytes(item, m)) /\ off + 1 <= Len(buf) /\ off + 1 = 2 * k + 1
    BY <1>0, <1>4, <1>6, <1>8, <1>11
  <2> QED BY <2>1, <1>6, <1>11
<1>13. item.kind = "keepalive"
  <2> DEFINE w == Bytes(item, m)
  <2>1. CASE item.kind = "message"
    <3>1. w[1] = Byte("start", m)
      BY <2>1, BytesShape
    <3> QED BY <3>1, <1>12 DEF CR, Byte
  <2>2. CASE item.kind \in {"unsized", "garbled"}
    <3>1. w[1] = IF item.kind = "unsized" THEN Byte("start", m) ELSE Byte("length", 0)
      BY <2>2, BytesShape
    <3> QED BY <3>1, <1>12 DEF CR, Byte
  <2>3. CASE item.kind = "endless"
    <3>1. 1 \in 1..(MaxHeader + 1)
      BY StreamAssumption
    <3>2. w[1] = Text
      BY <2>3, <3>1, BytesShape
    <3> QED BY <3>2, <1>12 DEF CR, Text, Byte
  <2>4. item.kind \in Kind
    BY BytesShape
  <2> QED BY <2>1, <2>2, <2>3, <2>4 DEF Kind
<1>14. Len(Bytes(item, m)) = 2
  BY <1>13, BytesShape
<1>15. f + 1 = d + i /\ d + i <= e /\ Edge(d) \in Int
  <2>1. f < e
    BY <1>10
  <2>2. f + 1 = d + i /\ d + i <= e
    BY <2>1, <1>4, <1>7
  <2> QED BY <1>0, <2>2
<1>16. Edge(d + i) = Edge(d) + 2 * i
  BY <1>4, <1>8, <1>9, <1>11, <1>14, <1>15
<1>17. Told(i)
  BY <1>11, <1>13, <1>15, <1>16
<1> QED BY <1>2, <1>17

LEMMA CountNat ==
    ASSUME NEW kind, NEW k \in Nat
    PROVE  Count(kind, k) \in Nat
BY TallyFinite DEF Count, Tally

LEMMA CountNext ==
    ASSUME NEW kind, NEW k \in Nat
    PROVE  Count(kind, k + 1) =
              IF items[k + 1].kind = kind THEN Count(kind, k) + 1 ELSE Count(kind, k)
<1>1. Count(kind, k + 1) = Tally(items, kind, k + 1) /\ Count(kind, k) = Tally(items, kind, k)
  BY DEF Count, Tally
<1> QED BY <1>1, TallyNext

LEMMA CountGrows ==
    ASSUME NEW kind, NEW k \in Nat, NEW l \in Nat, k <= l
    PROVE  Count(kind, k) <= Count(kind, l)
<1>1. Count(kind, k) = Tally(items, kind, k) /\ Count(kind, l) = Tally(items, kind, l)
  BY DEF Count, Tally
<1> QED BY <1>1, TallyGrows

\* What next_message finds once it has dropped the keepalives: nothing, or the
\* beginning of the next item, judged for what it is.
Finds(b, d, e, K) ==
    LET f == d + K
    IN  /\ f <= e /\ Edge(f) = taken - Len(b)
        /\ b \in Seq(AnyByte)
        /\ \A j \in 1..Len(b) : b[j] = buf[2 * K + j]
        /\ Count("message", f) = Count("message", d)
        /\ Count("keepalive", f) = Count("keepalive", d) + K
        /\ Verdict(b) \in {"wait", "message", "broken"}
        /\ Verdict(b) = "wait" => f = Len(items) \/ taken < Edge(f + 1)
        /\ Verdict(b) = "message" =>
              /\ f + 1 <= e /\ Edge(f + 1) = Edge(f) + Total(b)
              /\ Total(b) \in Nat /\ Total(b) <= Len(b)
              /\ items[f + 1].kind = "message"
              /\ b[1].n = Count("message", f + 1)

LEMMA Finding ==
    ASSUME Framing, NEW d \in Nat, NEW e \in Nat, Cut(d, e),
           NEW K \in Nat, K = Leading(buf), NEW b, b = Stripped(buf)
    PROVE  Finds(b, d, e, K)
<1>1. /\ buf \in Seq(AnyByte) /\ Len(buf) \in Nat /\ Len(net) \in Nat /\ taken \in Nat
      /\ Len(items) \in Nat /\ d <= e /\ e <= Len(items)
      /\ Edge(d) = taken - Len(buf) /\ Edge(e) = taken + Len(net)
  BY LenProperties DEF Framing, StreamTyped, Cut
<1>2. /\ K \in 0..Len(buf) /\ ~ Pair(buf, K + 1) /\ \A i \in 1..K : Pair(buf, i)
  BY <1>1, LeadingIs
<1>3. \A i \in 0..K : /\ d + i <= e /\ Edge(d + i) = Edge(d) + 2 * i
                      /\ i > 0 => items[d + i].kind = "keepalive"
  BY <1>2, LeadingAreKeepalives
<1>4. PICK f \in d..e : f = d + K
  <2>1. K \in 0..K
    OBVIOUS
  <2>2. d + K <= e
    BY <2>1, <1>3
  <2> QED BY <2>2
<1>5. PICK off \in Nat : off = 2 * K
  OBVIOUS
<1>6. Edge(f) = Edge(d) + off /\ off <= Len(buf)
  <2>1. K \in 0..K
    OBVIOUS
  <2>2. Edge(d + K) = Edge(d) + 2 * K
    BY <2>1, <1>3
  <2>3. CASE K = 0
    BY <2>2, <2>3, <1>1, <1>4, <1>5
  <2>4. CASE K # 0
    <3>1. K \in 1..K /\ K \in Nat \ {0}
      BY <2>4
    <3>2. 2 * K <= Len(buf)
      BY <3>1, <1>1, <1>2, PairIs
    <3> QED BY <3>2, <2>2, <1>1, <1>4, <1>5
  <2> QED BY <2>3, <2>4
<1>7. /\ b \in Seq(AnyByte) /\ Len(b) = Len(buf) - off /\ Len(b) \in Nat
      /\ \A j \in 1..Len(b) : b[j] = buf[off + j]
  <2>1. b = SubSeq(buf, off + 1, Len(buf))
    BY <1>5 DEF Stripped
  <2>2. off \in 0..Len(buf)
    BY <1>1, <1>5, <1>6
  <2> QED BY <2>1, <2>2, <1>1, Suffix
<1>8. ~ Pair(b, 1)
  <2>1. ASSUME Pair(b, 1) PROVE FALSE
    <3>1. 2 * 1 <= Len(b) /\ b[2 * 1 - 1] = CR /\ b[2 * 1] = LF
      BY <2>1, <1>7, PairIs
    <3>2. 1 \in 1..Len(b) /\ 2 \in 1..Len(b) /\ 2 <= Len(b) /\ b[1] = CR /\ b[2] = LF
      BY <3>1, <1>7
    <3>3. buf[off + 1] = CR /\ buf[off + 2] = LF /\ off + 2 <= Len(buf)
      <4>1. b[1] = buf[off + 1] /\ b[2] = buf[off + 2]
        BY <3>2, <1>7
      <4>2. off + 2 <= Len(buf)
        BY <3>2, <1>1, <1>7
      <4> QED BY <4>1, <4>2, <3>2
    <3>4. 2 * (K + 1) <= Len(buf) /\ buf[2 * (K + 1) - 1] = CR /\ buf[2 * (K + 1)] = LF
      <4>1. 2 * (K + 1) - 1 = off + 1 /\ 2 * (K + 1) = off + 2
        BY <1>5
      <4> QED BY <4>1, <3>3
    <3>5. K + 1 \in Nat \ {0}
      OBVIOUS
    <3>6. Pair(buf, K + 1)
      BY <3>4, <3>5, <1>1, PairIs
    <3> QED BY <3>6, <1>2
  <2> QED BY <2>1
<1>9. /\ Count("message", f) = Count("message", d)
      /\ Count("keepalive", f) = Count("keepalive", d) + K
  <2>1. ASSUME NEW i \in (d + 1)..(d + K) PROVE items[i].kind = "keepalive"
    <3>1. PICK k \in 1..K : i = d + k
      <4>1. i - d \in 1..K /\ i = d + (i - d)
        OBVIOUS
      <4> QED BY <4>1
    <3>2. k \in 0..K /\ k > 0
      OBVIOUS
    <3> QED BY <3>1, <3>2, <1>3
  <2>2. /\ Tally(items, "keepalive", d + K) = Tally(items, "keepalive", d) + K
        /\ Tally(items, "message", d + K) = Tally(items, "message", d)
    BY <2>1, TallyRun
  <2> QED BY <2>2, <1>4 DEF Count, Tally
<1>10. Edge(f) = taken - Len(b)
  BY <1>1, <1>5, <1>6, <1>7
<1>11. CASE Len(b) = 0
  <2>1. HeaderEnd(b) = 0
    <3>1. \A i \in 4..Len(b) : ~ Blank(b, i)
      BY <1>11
    <3> QED BY <3>1, <1>7, NoHeader
  <2>2. MaxHeader \in Nat
    BY StreamAssumption
  <2>3. Verdict(b) = "wait"
    <3>1. Verdict(b) = IF Len(b) > MaxHeader THEN "broken" ELSE "wait"
      BY <2>1, <1>7, WithoutHeader
    <3> QED BY <3>1, <2>2, <1>11
  <2>4. f = Len(items) \/ taken < Edge(f + 1)
    <3>1. CASE f # Len(items)
      <4>1. f \in 0..Len(items) /\ f + 1 \in 0..Len(items)
        <5>1. f \in 0..Len(items)
          BY <1>1, <1>4
        <5> QED BY <5>1, <3>1, <1>1
      <4>2. \A i, j \in 0..Len(items) : i < j => Edge(i) < Edge(j)
        BY DEF Framing, Laid
      <4>3. PICK g \in 0..Len(items) : g = f + 1
        BY <4>1
      <4>4. Edge(f) < Edge(g)
        BY <4>1, <4>2, <4>3
      <4> QED BY <4>3, <4>4, <1>10, <1>11, <1>1
    <3> QED BY <3>1
  <2> QED BY <1>4, <1>5, <1>7, <1>9, <1>10, <2>3, <2>4 DEF Finds
<1>12. CASE Len(b) # 0
  <2>1. off < Len(buf)
    BY <1>1, <1>7, <1>12
  <2>2. /\ f < e
        /\ \E item \in Item, m \in Nat :
              /\ item.kind = items[f + 1].kind
              /\ item.kind = "message" => m = Count("message", f + 1)
              /\ Len(Bytes(item, m)) \in Nat \ {0}
              /\ Edge(f + 1) = Edge(f) + Len(Bytes(item, m))
              /\ \A j \in 1..Len(Bytes(item, m)) :
                    off + j <= Len(buf) => buf[off + j] = Bytes(item, m)[j]
    <3>1. Edge(f) = Edge(d) + off /\ off < Len(buf)
      BY <2>1, <1>6
    <3>2. f \in d..e
      OBVIOUS
    <3> QED BY <3>1, <3>2, SpelledHere
  <2>3. PICK item \in Item, m \in Nat :
           /\ item.kind = items[f + 1].kind
           /\ item.kind = "message" => m = Count("message", f + 1)
           /\ Len(Bytes(item, m)) \in Nat \ {0}
           /\ Edge(f + 1) = Edge(f) + Len(Bytes(item, m))
           /\ \A j \in 1..Len(Bytes(item, m)) :
                 off + j <= Len(buf) => buf[off + j] = Bytes(item, m)[j]
    BY <2>2
  <2>4. f < e
    BY <2>2
  <2>5. Starts(b, Bytes(item, m))
    <3>1. ASSUME NEW j \in 1..Len(b), j <= Len(Bytes(item, m))
          PROVE  b[j] = Bytes(item, m)[j]
      <4>1. j \in 1..Len(Bytes(item, m)) /\ off + j <= Len(buf)
        BY <3>1, <2>3, <1>7, <1>1
      <4> QED BY <4>1, <2>3, <1>7
    <3> QED BY <3>1 DEF Starts
  <2>6. item.kind \notin {"message", "keepalive"} => Len(b) <= Len(Bytes(item, m))
    <3>1. ASSUME item.kind \notin {"message", "keepalive"} PROVE f + 1 = e
      <4>1. f + 1 \in 1..Len(items)
        BY <2>4, <1>1, <1>4
      <4>2. ~ (f + 1 < Len(items))
        <5>1. PICK g \in 1..Len(items) : g = f + 1
          BY <4>1
        <5>2. g < Len(items) => items[g].kind \in {"message", "keepalive"}
          BY DEF Framing, Laid
        <5> QED BY <5>1, <5>2, <3>1, <2>3
      <4>3. f + 1 = Len(items)
        BY <4>1, <4>2
      <4> QED BY <4>3, <2>4, <1>1, <1>4
    <3>2. ASSUME f + 1 = e PROVE Len(b) <= Len(Bytes(item, m))
      <4>1. Edge(f + 1) = taken + Len(net)
        BY <3>2, <1>1
      <4>2. Edge(f + 1) = (taken - Len(b)) + Len(Bytes(item, m))
        BY <2>3, <1>10
      <4>3. Len(Bytes(item, m)) \in Nat
        BY <2>3
      <4> QED BY <4>1, <4>2, <4>3, <1>1, <1>7
    <3> QED BY <3>1, <3>2
  <2>7. Judges(b, item, m)
    BY <2>5, <2>6, <1>7, <1>8, Judging
  <2>8. /\ Verdict(b) \in {"wait", "message", "broken"}
        /\ Verdict(b) = "wait" => Len(b) < Len(Bytes(item, m))
        /\ Verdict(b) = "message" =>
              /\ item.kind = "message"
              /\ Len(Bytes(item, m)) <= Len(b) /\ Total(b) = Len(Bytes(item, m))
              /\ b[1].n = m
    BY <2>7 DEF Judges
  <2>9. Verdict(b) = "wait" => taken < Edge(f + 1)
    BY <2>3, <2>8, <1>1, <1>7, <1>10
  <2>10. Verdict(b) = "message" =>
            /\ f + 1 <= e /\ Edge(f + 1) = Edge(f) + Total(b)
            /\ Total(b) \in Nat /\ Total(b) <= Len(b)
            /\ items[f + 1].kind = "message"
            /\ b[1].n = Count("message", f + 1)
    <3> SUFFICES ASSUME Verdict(b) = "message"
                 PROVE  /\ f + 1 <= e /\ Edge(f + 1) = Edge(f) + Total(b)
                        /\ Total(b) \in Nat /\ Total(b) <= Len(b)
                        /\ items[f + 1].kind = "message"
                        /\ b[1].n = Count("message", f + 1)
      OBVIOUS
    <3>1. f + 1 <= e
      BY <2>4, <1>4
    <3>2. /\ item.kind = "message"
          /\ Len(Bytes(item, m)) <= Len(b) /\ Total(b) = Len(Bytes(item, m))
          /\ b[1].n = m
      BY <2>8
    <3>3. /\ items[f + 1].kind = "message" /\ m = Count("message", f + 1)
          /\ Len(Bytes(item, m)) \in Nat
          /\ Edge(f + 1) = Edge(f) + Len(Bytes(item, m))
      BY <2>3, <3>2
    <3> QED BY <3>1, <3>2, <3>3
  <2> QED BY <1>4, <1>5, <1>7, <1>9, <1>10, <2>8, <2>9, <2>10 DEF Finds
<1> QED BY <1>11, <1>12

\* The keepalives, or the keepalives and a message, are taken from the buffer.
LEMMA FrameKeeps ==
    ASSUME Framing, Frame
    PROVE  Framing'
<1>1. PICK b : b = Stripped(buf)
  OBVIOUS
<1>2. buf \in Seq(AnyByte) /\ Len(buf) \in Nat /\ Leading(buf) \in 0..Len(buf)
  BY LenProperties, LeadingIs DEF Framing, StreamTyped
<1>3. PICK K \in Nat : K = Leading(buf)
  BY <1>2
<1>4. /\ reader = "framing"
      /\ buf' = CASE Verdict(b) = "message" -> Rest(b)
                  [] Verdict(b) = "wait"    -> b
                  [] Verdict(b) = "broken"  -> <<>>
      /\ pending' = IF Verdict(b) = "message" THEN b[1].n ELSE 0
      /\ skipped' = IF Verdict(b) = "message" THEN skipped + K ELSE 0
      /\ keepalives' = IF Verdict(b) = "wait" THEN keepalives + (skipped + K) ELSE keepalives
      /\ reader' = CASE Verdict(b) = "message" -> "sending"
                     [] Verdict(b) = "wait"    -> "reading"
                     [] Verdict(b) = "broken"  -> "gone"
      /\ UNCHANGED <<items, net, path, taken, queue, got>>
  BY <1>1, <1>3 DEF Frame, Counted, wire
<1>5. PICK d \in Nat, e \in Nat : Cut(d, e)
  BY <1>4 DEF Framing
<1>6. Finds(b, d, e, K)
  BY <1>1, <1>3, <1>5, Finding
<1>7. PICK f \in Nat : f = d + K
  OBVIOUS
<1>8. /\ f <= e /\ Edge(f) = taken - Len(b)
      /\ b \in Seq(AnyByte)
      /\ Count("message", f) = Count("message", d)
      /\ Count("keepalive", f) = Count("keepalive", d) + K
      /\ Verdict(b) \in {"wait", "message", "broken"}
      /\ Verdict(b) = "wait" => f = Len(items) \/ taken < Edge(f + 1)
      /\ Verdict(b) = "message" =>
            /\ f + 1 <= e /\ Edge(f + 1) = Edge(f) + Total(b)
            /\ Total(b) \in Nat /\ Total(b) <= Len(b)
            /\ items[f + 1].kind = "message"
            /\ b[1].n = Count("message", f + 1)
  BY <1>6, <1>7 DEF Finds
<1>9. /\ d \in 0..Len(items) /\ e \in d..Len(items) /\ Len(items) \in Nat
      /\ f \in d..e
      /\ Edge(d) = taken - Len(buf) /\ Edge(e) = taken + Len(net)
      /\ path # "broken" => e = Len(items)
      /\ Count("message", d) = Len(got) + Len(queue)
      /\ Count("keepalive", d) = keepalives + skipped
      /\ Len(got) \in Nat /\ Len(queue) \in Nat /\ Len(net) \in Nat /\ Len(b) \in Nat
      /\ taken \in Nat /\ skipped \in Nat /\ keepalives \in Nat
  <2>1. Waits = 0
    BY <1>4 DEF Waits
  <2>2. Len(got) \in Nat /\ Len(queue) \in Nat /\ Len(net) \in Nat /\ Len(items) \in Nat
        /\ Len(b) \in Nat
    BY <1>8, LenProperties DEF Framing, StreamTyped
  <2> QED BY <2>1, <2>2, <1>5, <1>7, <1>8 DEF Cut, Framing, StreamTyped
<1>10. ItemsKept
  BY <1>4, <1>9 DEF ItemsKept
<1>11. \A k \in Nat : Edge(k)' = Edge(k) /\ \A kind : Count(kind, k)' = Count(kind, k)
  BY <1>4 DEF Edge, Count
<1>12. Laid'
  BY <1>4 DEF Framing, Laid, Edge
<1>13. CASE Verdict(b) = "wait"
  <2>1. /\ buf' = b /\ pending' = 0 /\ skipped' = 0 /\ keepalives' = keepalives + (skipped + K)
        /\ reader' = "reading"
    BY <1>4, <1>13
  <2>2. StreamTyped'
    <3>1. keepalives' \in Nat /\ pending' \in Nat /\ skipped' \in Nat
      BY <2>1, <1>9
    <3> QED BY <3>1, <2>1, <1>4, <1>8 DEF Framing, StreamTyped
  <2>3. Ordered'
    BY <2>1, <1>4 DEF Framing, Ordered, Waits, Count
  <2>4. ASSUME NEW q \in (Edge(f) + 1)..Edge(e) PROVE At(q)' = At(q)
    <3>1. CASE q <= taken
      <4>0. q \in Int /\ taken - Len(b) + 1 <= q
        BY <1>8, <1>9
      <4>a. q - (taken - Len(b)) \in 1..Len(b)
        BY <4>0, <3>1, <1>9
      <4>1. PICK j \in 1..Len(b) : j = q - (taken - Len(b))
        BY <4>a
      <4>2. b[j] = buf[2 * K + j]
        BY <1>6 DEF Finds
      <4>3. 2 * K + j = q - (taken - Len(buf))
        <5>1. Edge(d + K) = Edge(d) + 2 * K
          <6>1. K \in 0..K /\ \A i \in 1..K : Pair(buf, i)
            BY <1>2, <1>3, LeadingIs
          <6> QED BY <6>1, <1>5, LeadingAreKeepalives
        <5>2. taken - Len(b) = (taken - Len(buf)) + 2 * K
          BY <5>1, <1>7, <1>8, <1>9
        <5>3. /\ taken \in Int /\ Len(buf) \in Int /\ Len(b) \in Int /\ q \in Int
              /\ j \in Int /\ 2 * K \in Int
          BY <4>0, <1>2, <1>9
        <5> QED BY <5>2, <5>3, <4>1
      <4> QED BY <4>1, <4>2, <4>3, <3>1, <2>1, <1>4 DEF At
    <3>2. CASE ~ (q <= taken)
      BY <3>2, <1>4 DEF At
    <3> QED BY <3>1, <3>2
  <2>5. \A i \in (f + 1)..e : Spelled(i)'
    BY <2>4, <1>5, <1>9, <1>10, SpelledRest DEF Framing
  <2>6. Cut(f, e)'
    <3>1. Edge(f)' = taken' - Len(buf') /\ Edge(e)' = taken' + Len(net')
      BY <2>1, <1>4, <1>8, <1>9, <1>11
    <3>2. Count("message", f)' = Len(got') + Len(queue') + Waits'
      BY <2>1, <1>4, <1>8, <1>9, <1>11 DEF Waits
    <3>3. Count("keepalive", f)' = keepalives' + skipped'
      BY <2>1, <1>8, <1>9, <1>11
    <3>4. f = Len(items') \/ taken' < Edge(f + 1)'
      <4>1. f + 1 \in Nat
        OBVIOUS
      <4>2. Edge(f + 1)' = Edge(f + 1)
        BY <4>1, <1>11
      <4> QED BY <4>2, <1>4, <1>8, <1>13
    <3>5. f \in 0..Len(items') /\ e \in f..Len(items')
      BY <1>4, <1>9
    <3>6. path' # "broken" => e = Len(items')
      BY <1>4, <1>9
    <3> QED BY <2>1, <2>5, <3>1, <3>2, <3>3, <3>4, <3>5, <3>6 DEF Cut
  <2> QED BY <2>1, <2>2, <2>3, <2>6, <1>12 DEF Framing
<1>14. CASE Verdict(b) = "message"
  <2>0. PICK g \in Nat : g = f + 1
    OBVIOUS
  <2>1. /\ buf' = Rest(b) /\ pending' = b[1].n /\ skipped' = skipped + K
        /\ keepalives' = keepalives /\ reader' = "sending"
    BY <1>4, <1>14
  <2>a. /\ g \in d..e /\ Edge(g) = Edge(f) + Total(b)
        /\ Total(b) \in 0..Len(b) /\ Total(b) \in Nat
        /\ items[g].kind = "message"
        /\ b[1].n = Count("message", g)
    BY <2>0, <1>8, <1>9, <1>14
  <2>b. /\ buf' \in Seq(AnyByte) /\ Len(buf') = Len(b) - Total(b)
        /\ \A j \in 1..(Len(b) - Total(b)) : buf'[j] = b[Total(b) + j]
    BY <2>1, <2>a, <1>8, Suffix DEF Rest
  <2>c. /\ Count("message", g) = Count("message", f) + 1
        /\ Count("keepalive", g) = Count("keepalive", f)
    BY <2>0, <2>a, CountNext
  <2>2. StreamTyped'
    <3>1. pending' \in Nat
      BY <2>1, <2>a, CountNat
    <3>2. skipped' \in Nat /\ keepalives' \in Nat /\ reader' = "sending"
      BY <2>1, <1>9
    <3> QED BY <3>1, <3>2, <2>b, <1>4 DEF Framing, StreamTyped
  <2>3. Ordered'
    <3>1. Waits' = 1
      BY <2>1 DEF Waits
    <3>2. Count("message", g) = Len(got) + Len(queue) + 1
      BY <2>c, <1>8, <1>9
    <3>3. \A k \in Nat : k = Len(items) => Count("message", g) <= Count("message", k)
      <4>1. g <= Len(items)
        BY <2>a, <1>9
      <4> QED BY <4>1, CountGrows
    <3>4. Count("message", g) <= Count("message", Len(items))
      BY <3>3, <1>9
    <3>5. (Count("message", Len(items)))' = Count("message", Len(items))
      BY <1>4 DEF Count
    <3> QED BY <2>1, <2>a, <3>1, <3>2, <3>4, <3>5, <1>4 DEF Framing, Ordered
  <2>4. ASSUME NEW q \in (Edge(g) + 1)..Edge(e) PROVE At(q)' = At(q)
    <3>1. CASE q <= taken
      <4>b. Total(b) \in Nat /\ Total(b) <= Len(b) /\ taken \in Nat /\ Len(b) \in Nat
        BY <2>a, <1>9
      <4>c. Edge(g) = taken - (Len(b) - Total(b)) /\ Edge(e) \in Int
        <5>1. Edge(g) = (taken - Len(b)) + Total(b)
          BY <2>a, <1>8
        <5>2. Edge(e) \in Int
          BY <1>9
        <5> QED BY <5>1, <5>2, <4>b
      <4>d. q \in Int /\ taken - (Len(b) - Total(b)) + 1 <= q
        BY <4>b, <4>c
      <4>0. /\ q \in Int /\ taken - (Len(b) - Total(b)) + 1 <= q
            /\ Total(b) \in Nat /\ Total(b) <= Len(b) /\ taken \in Nat /\ Len(b) \in Nat
        BY <4>b, <4>d
      <4>a. q - (taken - (Len(b) - Total(b))) \in 1..(Len(b) - Total(b))
        BY <4>0, <3>1
      <4>1. PICK j \in Nat : j = q - (taken - Len(buf')) /\ j \in 1..(Len(b) - Total(b))
        BY <4>a, <2>b
      <4>2. Total(b) + j \in 1..Len(b) /\ buf'[j] = b[Total(b) + j]
        <5>1. Total(b) + j \in 1..Len(b)
          BY <4>0, <4>1
        <5> QED BY <5>1, <4>1, <2>b
      <4>3. b[Total(b) + j] = buf[2 * K + (Total(b) + j)]
        BY <4>2, <1>6 DEF Finds
      <4>4. 2 * K + (Total(b) + j) = q - (taken - Len(buf))
        <5>1. Edge(d + K) = Edge(d) + 2 * K
          <6>1. K \in 0..K /\ \A i \in 1..K : Pair(buf, i)
            BY <1>2, <1>3, LeadingIs
          <6> QED BY <6>1, <1>5, LeadingAreKeepalives
        <5>2. taken - Len(b) = (taken - Len(buf)) + 2 * K
          BY <5>1, <1>7, <1>8, <1>9
        <5>3. Len(buf) \in Int /\ 2 * K \in Int /\ Len(buf') = Len(b) - Total(b)
          BY <2>b, <1>2
        <5>4. j = q - (taken - (Len(b) - Total(b))) /\ j \in Int
          BY <5>3, <4>1
        <5>5. taken - (Len(b) - Total(b)) = (taken - Len(buf)) + 2 * K + Total(b)
          BY <5>2, <5>3, <4>b
        <5>6. PICK u \in Int : u = taken - Len(buf)
          <6>1. taken - Len(buf) \in Int
            BY <1>2, <4>b
          <6> QED BY <6>1
        <5>7. PICK z \in Int : z = taken - (Len(b) - Total(b))
          BY <4>b
        <5>8. PICK w \in Int : w = Total(b)
          BY <4>b
        <5>9. j = q - z /\ z = u + 2 * K + w
          BY <5>4, <5>5, <5>6, <5>7, <5>8
        <5>10. 2 * K + (w + j) = q - u
          BY <5>9, <5>4, <4>0
        <5> QED BY <5>10, <5>6, <5>8
      <4> QED BY <4>1, <4>2, <4>3, <4>4, <3>1, <1>4 DEF At
    <3>2. CASE ~ (q <= taken)
      BY <3>2, <1>4 DEF At
    <3> QED BY <3>1, <3>2
  <2>5. \A i \in (g + 1)..e : Spelled(i)'
    BY <2>4, <2>a, <1>5, <1>10, SpelledRest DEF Framing
  <2>6. Cut(g, e)'
    <3>1. Edge(g)' = taken' - Len(buf') /\ Edge(e)' = taken' + Len(net')
      <4>1. Edge(g)' = Edge(g) /\ Edge(e)' = Edge(e)
        BY <1>11
      <4>2. taken' = taken /\ net' = net
        BY <1>4
      <4>3. Edge(g) = (taken - Len(b)) + Total(b) /\ Edge(e) = taken + Len(net)
        BY <2>a, <1>8, <1>9
      <4>4. Total(b) \in Nat /\ Len(b) \in Nat /\ taken \in Nat
            /\ Len(buf') = Len(b) - Total(b)
        BY <2>a, <2>b, <1>9
      <4>5. Edge(g) = taken - (Len(b) - Total(b))
        BY <4>3, <4>4
      <4> QED BY <4>1, <4>2, <4>3, <4>4, <4>5
    <3>2. Count("message", g)' = Len(got') + Len(queue') + Waits'
      BY <2>1, <2>c, <1>4, <1>8, <1>9, <1>11 DEF Waits
    <3>3. Count("keepalive", g)' = keepalives' + skipped'
      <4>1. Count("keepalive", g) = (keepalives + skipped) + K
        BY <2>c, <1>8, <1>9
      <4>2. Count("keepalive", g)' = Count("keepalive", g)
        BY <1>11
      <4>3. (keepalives + skipped) + K = keepalives + (skipped + K)
        BY <1>2, <1>9
      <4> QED BY <4>1, <4>2, <4>3, <2>1
    <3>5. g \in 0..Len(items') /\ e \in g..Len(items')
      <4>1. items' = items
        BY <1>4
      <4>2. g \in 0..Len(items) /\ e \in g..Len(items)
        BY <1>9, <2>a
      <4> QED BY <4>1, <4>2
    <3>6. path' # "broken" => e = Len(items')
      BY <1>4, <1>9
    <3> QED BY <2>1, <2>5, <3>1, <3>2, <3>3, <3>5, <3>6 DEF Cut
  <2> QED BY <2>1, <2>2, <2>3, <2>6, <1>12 DEF Framing
<1>15. CASE Verdict(b) = "broken"
  <2>1. /\ buf' = <<>> /\ pending' = 0 /\ skipped' = 0 /\ keepalives' = keepalives
        /\ reader' = "gone"
    BY <1>4, <1>15
  <2>2. StreamTyped'
    BY <2>1, <1>4 DEF Framing, StreamTyped
  <2> QED BY <2>1, <2>2, <1>4, GoneKeeps
<1> QED BY <1>8, <1>13, <1>14, <1>15

\* What only passes messages on, or does not touch the bytes.
LEMMA PassingKeeps ==
    ASSUME Framing, UNCHANGED <<items, net, taken, buf, skipped, keepalives>>,
           StreamTyped', Ordered',
           Len(got') + Len(queue') + Waits' = Len(got) + Len(queue) + Waits,
           path' # "broken" => path # "broken",
           reader' \in {"reading", "framing", "sending", "gone"},
           reader' # "gone" => reader # "gone",
           reader' = "reading" => reader = "reading"
    PROVE  Framing'
<1>1. Laid'
  BY DEF Framing, Laid, Edge
<1>2. ASSUME reader' # "gone"
      PROVE  (\E d, e \in Nat : Cut(d, e))'
  <2>1. PICK d \in Nat, e \in Nat : Cut(d, e)
    BY <1>2 DEF Framing
  <2>2. /\ \A k \in Nat : Edge(k)' = Edge(k)
        /\ \A kind : \A k \in Nat : Count(kind, k)' = Count(kind, k)
        /\ \A q : At(q)' = At(q)
    BY DEF Edge, Count, At
  <2>3. ItemsKept
    <3>1. Len(items) \in Nat
      BY LenProperties DEF Framing, StreamTyped
    <3> QED BY <3>1 DEF ItemsKept
  <2>4. d \in d..e /\ d + 1 \in Nat
    <3>1. e \in d..Len(items) /\ Len(items) \in Nat
      BY <2>1, LenProperties DEF Cut, Framing, StreamTyped
    <3> QED BY <3>1
  <2>5. \A i \in (d + 1)..e : Spelled(i)'
    BY <2>1, <2>2, <2>3, <2>4, SpelledRest DEF Framing
  <2>6. Edge(d)' = Edge(d) /\ Edge(e)' = Edge(e) /\ Edge(d + 1)' = Edge(d + 1)
        /\ Count("message", d)' = Count("message", d)
        /\ Count("keepalive", d)' = Count("keepalive", d)
    BY <2>2, <2>4
  <2>7. Cut(d, e)'
    BY <2>1, <2>5, <2>6 DEF Cut
  <2> QED BY <2>7
<1> QED BY <1>1, <1>2 DEF Framing

LEMMA EnqueueKeeps ==
    ASSUME Framing, Enqueue
    PROVE  Framing'
<1>1. /\ reader = "sending" /\ reader' = "framing"
      /\ queue' = Append(queue, pending) /\ pending' = 0
      /\ UNCHANGED <<items, net, path, taken, buf, skipped, keepalives, got>>
  BY DEF Enqueue, wire, framer
<1>2. /\ queue \in Seq(Nat) /\ pending \in Nat /\ got \in Seq(Nat)
      /\ Len(queue) \in Nat /\ Len(got) \in Nat
  BY LenProperties DEF Framing, StreamTyped
<1>3. /\ queue' \in Seq(Nat) /\ Len(queue') = Len(queue) + 1
      /\ \A i \in 1..Len(queue) : queue'[i] = queue[i]
      /\ queue'[Len(queue) + 1] = pending
  BY <1>1, <1>2, AppendProperties
<1>4. Waits = 1 /\ Waits' = 0
  BY <1>1 DEF Waits
<1>5. StreamTyped'
  BY <1>1, <1>3 DEF Framing, StreamTyped
<1>6. Len(got') + Len(queue') + Waits' = Len(got) + Len(queue) + Waits
  BY <1>1, <1>2, <1>3, <1>4
<1>7. Ordered'
  <2>1. \A i \in 1..Len(queue') : queue'[i] = Len(got') + i
    <3>1. ASSUME NEW i \in 1..Len(queue') PROVE queue'[i] = Len(got') + i
      <4>1. CASE i \in 1..Len(queue)
        BY <4>1, <1>1, <1>3 DEF Framing, Ordered
      <4>2. CASE i = Len(queue) + 1
        <5>1. queue'[i] = pending /\ pending = Len(got) + Len(queue) + 1
          BY <4>2, <1>1, <1>3 DEF Framing, Ordered
        <5> QED BY <5>1, <4>2, <1>1, <1>2
      <4> QED BY <4>1, <4>2, <1>2, <1>3
    <3> QED BY <3>1
  <2>2. (Count("message", Len(items)))' = Count("message", Len(items))
    BY <1>1 DEF Count
  <2>3. Len(got') + Len(queue') + Waits' <= (Count("message", Len(items)))'
    BY <1>6, <2>2 DEF Framing, Ordered
  <2> QED BY <1>1, <2>1, <2>3 DEF Framing, Ordered
<1> QED BY <1>1, <1>5, <1>6, <1>7, PassingKeeps

LEMMA RecvKeeps ==
    ASSUME Framing, Recv
    PROVE  Framing'
<1>1. /\ queue # <<>> /\ got' = Append(got, Head(queue)) /\ queue' = Tail(queue)
      /\ UNCHANGED <<items, net, path, taken, buf, skipped, keepalives, reader, pending>>
  BY DEF Recv, wire, reading
<1>2. /\ queue \in Seq(Nat) /\ got \in Seq(Nat)
      /\ Len(queue) \in Nat /\ Len(got) \in Nat /\ Len(queue) > 0
  <2>1. queue \in Seq(Nat) /\ got \in Seq(Nat)
    BY DEF Framing, StreamTyped
  <2> QED BY <1>1, <2>1, LenProperties, EmptySeq
<1>3. /\ Head(queue) = queue[1] /\ Head(queue) \in Nat
      /\ queue' \in Seq(Nat) /\ Len(queue') = Len(queue) - 1
      /\ \A i \in 1..Len(queue') : queue'[i] = queue[i + 1]
  BY <1>1, <1>2, HeadTailProperties
<1>4. /\ got' \in Seq(Nat) /\ Len(got') = Len(got) + 1
      /\ \A i \in 1..Len(got) : got'[i] = got[i]
      /\ got'[Len(got) + 1] = Head(queue)
  BY <1>1, <1>2, <1>3, AppendProperties
<1>5. StreamTyped'
  BY <1>1, <1>3, <1>4 DEF Framing, StreamTyped
<1>6. Waits' = Waits /\ Waits \in Nat
  BY <1>1 DEF Waits
<1>7. Len(got') + Len(queue') = Len(got) + Len(queue)
  BY <1>2, <1>3, <1>4
<1>8. Ordered'
  <2>1. queue[1] = Len(got) + 1
    <3>1. 1 \in 1..Len(queue)
      BY <1>2
    <3> QED BY <3>1 DEF Framing, Ordered
  <2>2. \A i \in 1..Len(got') : got'[i] = i
    <3>1. ASSUME NEW i \in 1..Len(got') PROVE got'[i] = i
      <4>1. CASE i \in 1..Len(got)
        BY <4>1, <1>4 DEF Framing, Ordered
      <4>2. CASE i = Len(got) + 1
        BY <4>2, <1>3, <1>4, <2>1
      <4> QED BY <4>1, <4>2, <1>2, <1>4
    <3> QED BY <3>1
  <2>3. \A i \in 1..Len(queue') : queue'[i] = Len(got') + i
    <3>1. ASSUME NEW i \in 1..Len(queue') PROVE queue'[i] = Len(got') + i
      <4>1. i + 1 \in 1..Len(queue)
        BY <1>2, <1>3
      <4>2. \A j \in 1..Len(queue) : queue[j] = Len(got) + j
        BY DEF Framing, Ordered
      <4>3. queue[i + 1] = Len(got) + (i + 1)
        BY <4>1, <4>2
      <4> QED BY <4>3, <1>2, <1>3, <1>4
    <3> QED BY <3>1
  <2>4. (Count("message", Len(items)))' = Count("message", Len(items))
    BY <1>1 DEF Count
  <2>5. Len(got') + Len(queue') + Waits' <= (Count("message", Len(items)))'
    BY <1>6, <1>7, <2>4 DEF Framing, Ordered
  <2>6. reader' = "sending" => pending' = Len(got') + Len(queue') + 1
    BY <1>1, <1>7 DEF Framing, Ordered
  <2> QED BY <2>2, <2>3, <2>5, <2>6 DEF Ordered
<1>9. Len(got') + Len(queue') + Waits' = Len(got) + Len(queue) + Waits
  BY <1>6, <1>7
<1>10. reader \in {"reading", "framing", "sending", "gone"}
  BY DEF Framing
<1> QED BY <1>1, <1>5, <1>8, <1>9, <1>10, PassingKeeps

LEMMA PathKeeps ==
    ASSUME Framing, UNCHANGED <<items, net, reading, queue, got>>,
           path' # "broken" => path # "broken"
    PROVE  Framing'
<1>1. UNCHANGED <<items, net, taken, buf, skipped, keepalives, reader, pending, queue, got>>
  BY DEF reading
<1>2. StreamTyped' /\ Ordered'
  BY <1>1 DEF Framing, StreamTyped, Ordered, Waits, Count
<1>3. Len(got') + Len(queue') + Waits' = Len(got) + Len(queue) + Waits
  BY <1>1 DEF Waits
<1>4. reader \in {"reading", "framing", "sending", "gone"}
  BY DEF Framing
<1> QED BY <1>1, <1>2, <1>3, <1>4, PassingKeeps

LEMMA ReturnKeeps ==
    ASSUME Framing, ReaderReturns
    PROVE  Framing'
<1>1. /\ reader' = "gone" /\ buf' = <<>> /\ skipped' = 0
      /\ UNCHANGED <<items, net, taken, pending, keepalives, queue, got>>
  BY DEF ReaderReturns, wire
<1>2. StreamTyped'
  BY <1>1 DEF Framing, StreamTyped
<1> QED BY <1>1, <1>2, GoneKeeps

LEMMA DropKeeps ==
    ASSUME Framing, Drop
    PROVE  Framing'
<1>1. /\ reader' = "gone" /\ buf' = <<>> /\ skipped' = 0 /\ net' = <<>>
      /\ pending' = 0 /\ queue' = <<>>
      /\ UNCHANGED <<items, taken, keepalives, got>>
  BY DEF Drop
<1>2. StreamTyped'
  BY <1>1 DEF Framing, StreamTyped
<1> QED BY <1>1, <1>2, GoneKeeps

LEMMA FramingInitially == Init => Framing
<1> SUFFICES ASSUME Init PROVE Framing
  OBVIOUS
<1>1. /\ items = <<>> /\ net = <<>> /\ path = "open"
      /\ taken = 0 /\ buf = <<>> /\ skipped = 0
      /\ reader = "reading" /\ pending = 0 /\ queue = <<>> /\ got = <<>>
      /\ keepalives = 0
  BY DEF Init, Connected
<1>2. StreamTyped
  BY <1>1 DEF StreamTyped
<1>3. Count("message", 0) = 0 /\ Count("keepalive", 0) = 0
  BY TallyNone DEF Count, Tally
<1>4. Laid
  BY <1>1 DEF Laid
<1>5. Waits = 0 /\ Len(items) = 0 /\ Len(got) = 0 /\ Len(queue) = 0
      /\ Len(net) = 0 /\ Len(buf) = 0
  BY <1>1 DEF Waits
<1>6. Ordered
  BY <1>1, <1>3, <1>5 DEF Ordered
<1>7. Cut(0, 0)
  <2>1. \A i \in (0 + 1)..0 : Spelled(i)
    OBVIOUS
  <2>2. Edge(0) = 0
    BY DEF Edge
  <2> QED BY <1>1, <1>3, <1>5, <2>1, <2>2 DEF Cut
<1> QED BY <1>1, <1>2, <1>4, <1>6, <1>7 DEF Framing

LEMMA FramingStep == Framing /\ [Next]_vars => Framing'
<1> SUFFICES ASSUME Framing, [Next]_vars PROVE Framing'
  OBVIOUS
<1>1. CASE UNCHANGED stream
  BY <1>1, PathKeeps DEF stream, wire
<1>2. CASE Peer
  <2>1. ASSUME NEW item \in Item, Write(item) PROVE Framing'
    BY <2>1, WriteKeeps
  <2>2. CASE PeerCloses \/ PathBreaks
    BY <2>2, PathKeeps DEF PeerCloses, PathBreaks
  <2> QED BY <1>2, <2>1, <2>2 DEF Peer
<1>3. CASE Reader
  <2>1. CASE ReadEnds \/ ReadFails \/ ReaderStops
    BY <2>1, ReturnKeeps DEF ReadEnds, ReadFails, ReaderStops
  <2> QED BY <1>3, <2>1, ReadKeeps, FrameKeeps, EnqueueKeeps DEF Reader
<1>4. CASE Engine
  <2>1. CASE RecvFails \/ Shutdown
    BY <2>1, DropKeeps DEF RecvFails, Shutdown
  <2>2. CASE Send \/ SendLocks \/ SendDone \/ SendFails
    BY <2>2, PathKeeps DEF Send, SendLocks, SendDone, SendFails, wire
  <2> QED BY <1>4, <2>1, <2>2, RecvKeeps DEF Engine
<1>5. CASE Pinger
  BY <1>5, PathKeeps
     DEF Pinger, PingDue, PingLocks, PingDone, PingFails, PongDue, PingerStops, wire
<1> QED BY <1>1, <1>2, <1>3, <1>4, <1>5 DEF Next, StreamNext, Spawn, vars

\* While the read task reads, what it has told is what is complete.
LEMMA FramingSound == Framing => FramedAsSent
<1> SUFFICES ASSUME Framing, reader = "reading"
             PROVE  /\ got \o queue = [n \in 1..Cardinality(Complete("message")) |-> n]
                    /\ keepalives = Cardinality(Complete("keepalive"))
  BY DEF FramedAsSent
<1>1. PICK d \in Nat, e \in Nat : Cut(d, e)
  BY DEF Framing
<1>2. /\ d \in 0..Len(items) /\ Len(items) \in Nat
      /\ Edge(d) = taken - Len(buf) /\ taken \in Nat /\ Len(buf) \in Nat
      /\ Count("message", d) = Len(got) + Len(queue)
      /\ Count("keepalive", d) = keepalives
      /\ d = Len(items) \/ taken < Edge(d + 1)
      /\ keepalives \in Nat
  BY <1>1, LenProperties DEF Cut, Waits, Framing, StreamTyped
<1>3. ASSUME NEW kind
      PROVE  Complete(kind) = {i \in 1..d : items[i].kind = kind}
  <2>1. ASSUME NEW i \in 1..Len(items)
        PROVE  items[i].end <= taken <=> i <= d
    <3>1. i \in 0..Len(items) /\ items[i].end = Edge(i)
      BY DEF Edge
    <3>2. ASSUME i <= d PROVE Edge(i) <= taken
      <4>1. Edge(i) \in Nat /\ Edge(d) \in Nat /\ Edge(i) <= Edge(d)
        BY <1>2, <3>1, <3>2, EdgeOrder DEF Framing
      <4> QED BY <4>1, <1>2
    <3>3. ASSUME ~ (i <= d) PROVE ~ (Edge(i) <= taken)
      <4>1. PICK g \in 0..Len(items) : g = d + 1
        BY <1>2, <3>3
      <4>2. Edge(g) \in Nat /\ Edge(i) \in Nat /\ Edge(g) <= Edge(i)
        <5>1. g <= i
          BY <1>2, <3>3, <4>1
        <5> QED BY <5>1, <3>1, EdgeOrder DEF Framing
      <4>3. taken < Edge(g)
        BY <1>2, <3>3, <4>1
      <4> QED BY <1>2, <4>2, <4>3
    <3> QED BY <3>1, <3>2, <3>3
  <2>2. DOMAIN items = 1..Len(items)
    BY DEF Framing, StreamTyped
  <2>3. \A i : i \in Complete(kind) <=> i \in {j \in 1..d : items[j].kind = kind}
    <3>1. \A i \in 1..d : i \in 1..Len(items)
      BY <1>2
    <3> QED BY <2>1, <2>2, <3>1 DEF Complete
  <2> QED BY <2>3
<1>4. Cardinality(Complete("message")) = Len(got) + Len(queue)
      /\ Cardinality(Complete("keepalive")) = keepalives
  BY <1>2, <1>3 DEF Count
<1>5. got \o queue = [n \in 1..(Len(got) + Len(queue)) |-> n]
  <2>1. got \in Seq(Nat) /\ queue \in Seq(Nat)
        /\ Len(got) \in Nat /\ Len(queue) \in Nat
    BY LenProperties DEF Framing, StreamTyped
  <2>2. /\ got \o queue \in Seq(Nat) /\ Len(got \o queue) = Len(got) + Len(queue)
        /\ \A i \in 1..Len(got) + Len(queue) :
              (got \o queue)[i] = IF i <= Len(got) THEN got[i] ELSE queue[i - Len(got)]
    BY <2>1, ConcatProperties
  <2> DEFINE t == got \o queue
             N == Len(got) + Len(queue)
  <2>3. \A i \in 1..N : t[i] = i
    <3>1. ASSUME NEW i \in 1..N PROVE t[i] = i
      <4>1. CASE i <= Len(got)
        <5>1. i \in 1..Len(got)
          BY <2>1, <4>1
        <5> QED BY <5>1, <4>1, <2>2 DEF Framing, Ordered
      <4>2. CASE ~ (i <= Len(got))
        <5>1. i - Len(got) \in 1..Len(queue) /\ Len(got) + (i - Len(got)) = i
          BY <2>1, <4>2
        <5>2. queue[i - Len(got)] = Len(got) + (i - Len(got))
          BY <5>1 DEF Framing, Ordered
        <5> QED BY <5>1, <5>2, <4>2, <2>2
      <4> QED BY <4>1, <4>2
    <3> QED BY <3>1
  <2>4. t \in Seq(Nat) /\ Len(t) = N
    BY <2>2
  <2>5. t = [i \in 1..N |-> t[i]]
    <3> HIDE DEF t, N
    <3> QED BY <2>4
  <2> HIDE DEF t, N
  <2>6. t = [i \in 1..N |-> i]
    BY <2>3, <2>5
  <2> QED BY <2>6 DEF t, N
<1> QED BY <1>4, <1>5

\* Whatever the peer writes and however the bytes are cut up on the way: the
\* engine's queue holds the complete messages and no others, and the counter the
\* complete keepalives between them (framing.rs, next_message; stream.rs, read_task).
THEOREM MessagesFramedAsSent == Spec => []FramedAsSent
<1>1. Init => Framing
  BY FramingInitially
<1>2. Framing /\ [Next]_vars => Framing'
  BY FramingStep
<1>3. Framing => FramedAsSent
  BY FramingSound
<1> QED BY <1>1, <1>2, <1>3, PTL DEF Spec

-----------------------------------------------------------------------------
(* The order of the messages (InOrder). *)

LEMMA WriteCounts ==
    ASSUME Framing, NEW item \in Item, Write(item)
    PROVE  /\ Count("message", Len(items)) \in 0..Len(items) /\ Len(items) < MaxItems
           /\ (Count("message", Len(items)))' =
                 IF item.kind = "message" THEN Count("message", Len(items)) + 1
                 ELSE Count("message", Len(items))
<1>1. Len(items) \in Nat /\ Len(items) < MaxItems
  BY LenProperties DEF Framing, StreamTyped, Write
<1>2. PICK L \in Nat : L = Len(items)
  BY <1>1
<1>3. PICK new : items' = Append(items, new) /\ new.kind = item.kind
                 /\ new \in [kind : Kind, end : Nat]
  <2> DEFINE n == Count("message", Len(items)) + 1
             new == [kind |-> item.kind, end |-> Written + Len(Bytes(item, n))]
  <2>1. n \in Nat
    BY <1>2, CountNat
  <2>2. item.kind \in Kind /\ Bytes(item, n) \in Seq(AnyByte)
    BY <2>1, BytesShape
  <2>3. Len(Bytes(item, n)) \in Nat
    BY <2>2, LenProperties
  <2>4. Written \in Nat
    <3>1. CASE items = <<>>
      BY <3>1 DEF Written
    <3>2. CASE items # <<>>
      <4>1. Len(items) \in 1..Len(items)
        BY <1>1, <3>2, EmptySeq DEF Framing, StreamTyped
      <4>2. items[Len(items)] \in [kind : Kind, end : Nat]
        BY <4>1, ElementOfSeq DEF Framing, StreamTyped
      <4> QED BY <3>2, <4>2 DEF Written
    <3> QED BY <3>1, <3>2
  <2>5. items' = Append(items, new)
    BY DEF Write
  <2> QED BY <2>2, <2>3, <2>4, <2>5
<1>4. /\ Len(items') = L + 1
      /\ \A i \in 1..L : items'[i] = items[i]
      /\ items'[L + 1].kind = item.kind
  BY <1>2, <1>3, AppendProperties DEF Framing, StreamTyped
<1>5. ItemsKept /\ L \in 0..Len(items)
  BY <1>2, <1>4 DEF ItemsKept
<1>6. Tally(items', "message", L + 1) =
         IF items'[L + 1].kind = "message" THEN Tally(items', "message", L) + 1
         ELSE Tally(items', "message", L)
  BY TallyNext
<1>7. Count("message", L)' = Count("message", L)
  BY <1>5, CountKept DEF Framing
<1>8. Tally(items', "message", L) = Count("message", L)'
      /\ Tally(items', "message", L + 1) = (Count("message", Len(items)))'
  BY <1>4 DEF Count, Tally
<1>9. Count("message", L) \in 0..L
  <2> DEFINE S == {i \in 1..L : items[i].kind = "message"}
  <2>1. IsFiniteSet(1..L) /\ Cardinality(1..L) = L
    <3>1. Cardinality(1..L) = IF 1 > L THEN 0 ELSE L - 1 + 1
      BY FS_Interval
    <3> QED BY <3>1, FS_Interval
  <2>2. S \in SUBSET (1..L)
    OBVIOUS
  <2>3. Cardinality(S) <= Cardinality(1..L)
    BY <2>1, <2>2, FS_Subset
  <2>4. Count("message", L) = Cardinality(S)
    BY DEF Count
  <2>5. Count("message", L) \in Nat
    BY CountNat
  <2> HIDE DEF S
  <2> QED BY <2>1, <2>3, <2>4, <2>5
<1> QED BY <1>1, <1>2, <1>4, <1>6, <1>7, <1>8, <1>9

\* Every step is one of Fifo's, or none.
LEMMA FifoStep ==
    ASSUME Framing, [Next]_vars
    PROVE  [Transport!Send \/ Transport!Receive]_<<Sent, got>>
<1>1. ASSUME items' = items, got' = got
      PROVE  UNCHANGED <<Sent, got>>
  BY <1>1 DEF Sent, Count
<1>2. ASSUME NEW item \in Item, Write(item)
      PROVE  Transport!Send \/ UNCHANGED <<Sent, got>>
  <2>1. PICK c \in Nat : c = Count("message", Len(items)) /\ c < MaxItems
    <3>1. /\ Count("message", Len(items)) \in 0..Len(items) /\ Len(items) < MaxItems
          /\ MaxItems \in Nat /\ Len(items) \in Nat
      BY <1>2, WriteCounts, LenProperties, StreamAssumption DEF Framing, StreamTyped
    <3> QED BY <3>1
  <2>2. (Count("message", Len(items)))' = IF item.kind = "message" THEN c + 1 ELSE c
    BY <1>2, <2>1, WriteCounts
  <2>3. got' = got
    BY <1>2 DEF Write
  <2>4. Sent = [n \in 1..c |-> n]
    BY <2>1 DEF Sent
  <2>5. CASE item.kind = "message"
    <3>1. Sent' = [n \in 1..(c + 1) |-> n]
      BY <2>2, <2>5 DEF Sent
    <3>2. [n \in 1..(c + 1) |-> n] = Append([n \in 1..c |-> n], c + 1)
      <4> DEFINE s == [n \in 1..c |-> n]
                 t == [n \in 1..(c + 1) |-> n]
                 u == Append(s, c + 1)
      <4>1. s \in Seq(Nat) /\ Len(s) = c /\ t \in Seq(Nat) /\ Len(t) = c + 1
        OBVIOUS
      <4>2. /\ u \in Seq(Nat) /\ Len(u) = Len(s) + 1
            /\ \A i \in 1..Len(s) : u[i] = s[i]
            /\ u[Len(s) + 1] = c + 1
        <5> HIDE DEF s
        <5> QED BY <4>1, AppendProperties
      <4>3. \A i \in 1..Len(t) : t[i] = u[i]
        <5> HIDE DEF u
        <5> QED BY <4>1, <4>2
      <4> HIDE DEF s, t, u
      <4>4. t = u
        BY <4>1, <4>2, <4>3, SeqEqual
      <4> QED BY <4>4 DEF s, t, u
    <3>3. c + 1 \in 1..MaxItems
      BY <2>1, StreamAssumption
    <3> QED BY <2>3, <2>4, <3>1, <3>2, <3>3 DEF Transport!Send
  <2>6. CASE item.kind # "message"
    BY <2>2, <2>3, <2>4, <2>6 DEF Sent
  <2> QED BY <2>5, <2>6
<1>3. ASSUME Recv
      PROVE  Transport!Receive
  <2>1. /\ queue # <<>> /\ got' = Append(got, Head(queue)) /\ items' = items
    BY <1>3 DEF Recv, wire
  <2>2. /\ queue \in Seq(Nat) /\ got \in Seq(Nat)
        /\ Len(queue) \in Nat /\ Len(got) \in Nat /\ Len(queue) > 0
    <3>1. queue \in Seq(Nat) /\ got \in Seq(Nat)
      BY DEF Framing, StreamTyped
    <3> QED BY <2>1, <3>1, LenProperties, EmptySeq
  <2>3. Head(queue) = Len(got) + 1
    <3>1. 1 \in 1..Len(queue) /\ Head(queue) = queue[1]
      BY <2>1, <2>2, HeadTailProperties
    <3> QED BY <3>1 DEF Framing, Ordered
  <2>4. PICK c \in Nat : c = Count("message", Len(items)) /\ Len(got) + 1 <= c
    <3>1. \A k \in Nat : Count("message", k) \in Nat
      BY CountNat
    <3>2. Len(items) \in Nat /\ Waits \in Nat
      BY LenProperties DEF Framing, StreamTyped, Waits
    <3>3. Count("message", Len(items)) \in Nat
      BY <3>1, <3>2
    <3>4. Len(got) + Len(queue) + Waits <= Count("message", Len(items))
      BY DEF Framing, Ordered
    <3> QED BY <3>2, <3>3, <3>4, <2>2
  <2>5. Sent = [n \in 1..c |-> n] /\ Len(Sent) = c
    BY <2>4 DEF Sent
  <2>6. Sent' = Sent
    BY <2>1 DEF Sent, Count
  <2>7. Sent[Len(got) + 1] = Len(got) + 1 /\ Len(got) < Len(Sent)
    BY <2>2, <2>4, <2>5
  <2> QED BY <2>1, <2>3, <2>6, <2>7 DEF Transport!Receive
<1>4. CASE UNCHANGED stream
  BY <1>1, <1>4 DEF stream, wire
<1>5. CASE Peer
  <2>1. CASE PeerCloses \/ PathBreaks
    BY <1>1, <2>1 DEF PeerCloses, PathBreaks
  <2> QED BY <1>2, <1>5, <2>1 DEF Peer
<1>6. CASE Reader
  BY <1>1, <1>6
     DEF Reader, Read, ReadEnds, ReadFails, ReaderStops, ReaderReturns, Frame, Enqueue, wire
<1>7. CASE Engine
  <2>1. CASE RecvFails \/ Shutdown \/ Send \/ SendLocks \/ SendDone \/ SendFails
    BY <1>1, <2>1
       DEF RecvFails, Shutdown, Drop, Send, SendLocks, SendDone, SendFails, wire
  <2> QED BY <1>3, <1>7, <2>1 DEF Engine
<1>8. CASE Pinger
  BY <1>1, <1>8
     DEF Pinger, PingDue, PingLocks, PingDone, PingFails, PongDue, PingerStops, wire
<1> QED BY <1>4, <1>5, <1>6, <1>7, <1>8 DEF Next, StreamNext, Spawn, vars

\* The connection is a Fifo to the engine: the peer's messages reach it whole,
\* each once, in the order they were sent (stream.rs, read_task and recv).
THEOREM MessagesInOrder == Spec => InOrder
<1>1. Init => Framing
  BY FramingInitially
<1>2. Framing /\ [Next]_vars => Framing'
  BY FramingStep
<1>3. Init => Transport!Init
  <2> SUFFICES ASSUME Init PROVE Transport!Init
    OBVIOUS
  <2>1. items = <<>> /\ got = <<>>
    BY DEF Init, Connected
  <2>2. Count("message", 0) = 0
    BY TallyNone DEF Count, Tally
  <2>3. Sent = <<>>
    BY <2>1, <2>2 DEF Sent
  <2> QED BY <2>1, <2>3 DEF Transport!Init
<1>4. Framing /\ [Next]_vars => [Transport!Send \/ Transport!Receive]_<<Sent, got>>
  BY FifoStep
<1> QED BY <1>1, <1>2, <1>3, <1>4, PTL DEF Spec, InOrder, Transport!Spec

-----------------------------------------------------------------------------
(* The pinger's verdict (FairVerdict). *)

\* What the pinger compares with is older than its ping.
Baselined ==
    /\ before \in Nat /\ atPing \in Nat
    /\ before <= keepalives
    /\ pinger \in {"writing", "waiting"} => before <= atPing /\ atPing <= keepalives

LEMMA KeepalivesGrow ==
    ASSUME Framing, [Next]_vars
    PROVE  keepalives \in Nat /\ keepalives' \in Nat /\ keepalives <= keepalives'
<1>1. keepalives \in Nat /\ skipped \in Nat /\ buf \in Seq(AnyByte)
  BY DEF Framing, StreamTyped
<1>2. CASE UNCHANGED keepalives
  BY <1>1, <1>2
<1>3. CASE Frame
  <2>1. Leading(buf) \in Nat
    BY <1>1, LeadingIs, LenProperties
  <2>2. keepalives' = keepalives \/ keepalives' = keepalives + (skipped + Leading(buf))
    BY <1>3 DEF Frame, Counted
  <2> QED BY <1>1, <2>1, <2>2
<1>4. CASE UNCHANGED stream
  BY <1>2, <1>4 DEF stream, reading
<1>5. CASE Peer
  BY <1>2, <1>5 DEF Peer, Write, PeerCloses, PathBreaks, reading
<1>6. CASE Read \/ ReadEnds \/ ReadFails \/ ReaderStops \/ Enqueue
  BY <1>2, <1>6 DEF Read, ReadEnds, ReadFails, ReaderStops, ReaderReturns, Enqueue
<1>7. CASE Engine
  BY <1>2, <1>7
     DEF Engine, Recv, RecvFails, Shutdown, Drop, Send, SendLocks, SendDone, SendFails, reading
<1>8. CASE Pinger
  BY <1>2, <1>8
     DEF Pinger, PingDue, PingLocks, PingDone, PingFails, PongDue, PingerStops, reading
<1> QED BY <1>3, <1>4, <1>5, <1>6, <1>7, <1>8 DEF Next, StreamNext, Spawn, Reader, vars

LEMMA BaselinedStep ==
    ASSUME Framing, Baselined, [Next]_vars
    PROVE  Baselined'
<1>1. keepalives \in Nat /\ keepalives' \in Nat /\ keepalives <= keepalives'
  BY KeepalivesGrow
<1>2. CASE UNCHANGED pinging
  BY <1>1, <1>2 DEF pinging, Baselined
<1>3. CASE UNCHANGED stream
  BY <1>2, <1>3 DEF stream
<1>4. CASE Peer
  BY <1>2, <1>4 DEF Peer, Write, PeerCloses, PathBreaks
<1>5. CASE Reader
  BY <1>2, <1>5
     DEF Reader, Read, ReadEnds, ReadFails, ReaderStops, ReaderReturns, Frame, Enqueue
<1>6. CASE Engine
  <2>1. CASE RecvFails \/ Shutdown
    BY <1>1, <2>1 DEF RecvFails, Shutdown, Drop, Baselined
  <2>2. CASE Recv \/ Send \/ SendLocks \/ SendDone \/ SendFails
    BY <1>2, <2>2 DEF Recv, Send, SendLocks, SendDone, SendFails
  <2> QED BY <1>6, <2>1, <2>2 DEF Engine
<1>7. CASE Pinger
  <2>1. CASE PingDue
    BY <1>1, <2>1 DEF PingDue, reading, Baselined
  <2>2. CASE PingLocks
    BY <1>1, <2>2 DEF PingLocks, reading, Baselined
  <2>3. CASE PingDone
    BY <1>1, <2>3 DEF PingDone, Baseline, reading, Baselined
  <2>4. CASE PingFails \/ PingerStops
    BY <1>1, <2>4 DEF PingFails, PingerStops, reading, Baselined
  <2>5. CASE PongDue
    BY <1>1, <2>5 DEF PongDue, reading, Baselined
  <2> QED BY <1>7, <2>1, <2>2, <2>3, <2>4, <2>5 DEF Pinger
<1> QED BY <1>3, <1>4, <1>5, <1>6, <1>7 DEF Next, StreamNext, Spawn, vars

LEMMA VerdictFair ==
    ASSUME Framing, Baselined, [Next]_vars
    PROVE  [pinger' = "judged" /\ pinger # "judged" =>
               keepalives > 0 /\ keepalives = atPing]_vars
<1> SUFFICES ASSUME pinger' = "judged", pinger # "judged"
             PROVE  keepalives > 0 /\ keepalives = atPing
  OBVIOUS
<1>1. CASE PongDue
  BY <1>1 DEF PongDue, PongMissed, Baselined, Framing, StreamTyped
<1>2. ~ UNCHANGED pinger
  OBVIOUS
<1>3. ~ UNCHANGED stream /\ ~ Peer /\ ~ Reader
  BY <1>2
     DEF stream, pinging, Peer, Write, PeerCloses, PathBreaks,
         Reader, Read, ReadEnds, ReadFails, ReaderStops, ReaderReturns, Frame, Enqueue
<1>4. ~ Engine
  BY <1>2 DEF Engine, Recv, RecvFails, Shutdown, Drop, Send, SendLocks, SendDone, SendFails,
              pinging
<1>5. ~ (PingDue \/ PingLocks \/ PingDone \/ PingFails \/ PingerStops)
  BY DEF PingDue, PingLocks, PingDone, PingFails, PingerStops
<1> QED BY <1>1, <1>3, <1>4, <1>5 DEF Next, StreamNext, Spawn, vars, Pinger

\* A connection is judged dead only when the peer has ponged before and nothing
\* was counted since the ping could leave (keepalive.rs, run and pong_missed).
THEOREM VerdictsAreFair == Spec => FairVerdict
<1>1. Init => Framing /\ Baselined
  <2>1. Init => Baselined
    BY DEF Init, Connected, Baselined
  <2> QED BY <2>1, FramingInitially
<1>2. Framing /\ Baselined /\ [Next]_vars => (Framing /\ Baselined)'
  BY FramingStep, BaselinedStep
<1>3. Framing /\ Baselined /\ [Next]_vars =>
         [pinger' = "judged" /\ pinger # "judged" =>
             keepalives > 0 /\ keepalives = atPing]_vars
  BY VerdictFair
<1> QED BY <1>1, <1>2, <1>3, PTL DEF Spec, FairVerdict
=============================================================================
