------------------------------- MODULE Locate -------------------------------
(***************************************************************************)
(* From an account to a transport: location_plan, the SRV walk and the     *)
(* fallbacks of resolve.rs, the route lookup of SipEndpoint::new, and the  *)
(* connection and TLS handshake of transport.rs, stream.rs and tls.rs.     *)
(*                                                                         *)
(* Hosts are names or IP literals; DNS answers the same name alike until   *)
(* the endpoint is up.  An address is the host and port it was found for.  *)
(***************************************************************************)
EXTENDS Integers, Sequences

LOCAL INSTANCE FiniteSetsExt

CONSTANTS
    None,     \* an absent option
    Literal,  \* hosts that are IP literals
    Nowhere,  \* the target "." of RFC 2782
    Account,  \* accounts: server, domain, port, transport, policy, and whether
              \* the build has the transport (the `tls` feature)
    Answer,   \* SRV records DNS may answer with
    Lookups,  \* what host lookups may yield: "found", "empty" or "failed"
    Cert      \* certificates: id, names, and the faults of their chain

CertFailure ==
    {"expired", "not yet valid", "name mismatch", "unknown issuer", "revoked",
     "bad signature", "pin mismatch", "malformed", "other"}

ASSUME AnswerAssumption ==
    \A s \in Answer :
        /\ s \in Seq({s[i] : i \in DOMAIN s})
        /\ \A i \in DOMAIN s : s[i].priority \in Nat /\ s[i].weight \in Nat

ASSUME CertAssumption ==
    /\ None \notin Cert
    /\ \A c \in Cert : c.faults \subseteq CertFailure \ {"name mismatch", "pin mismatch"}

VARIABLES
    account,
    srv,         \* the records DNS answered with
    lookup,      \* what lookups of the hosts yield
    step,        \* how far SipEndpoint::new has come
    candidates,  \* SRV records still to be tried, in order
    server,      \* the address located
    cert,        \* the certificate the server presented (RecordingVerifier::seen)
    failure      \* what new returns when it fails

locate == <<account, srv, lookup, step, candidates, server, cert, failure>>

-----------------------------------------------------------------------------
(* The account's defaults. *)

Server(a) == IF a.server = None THEN a.domain ELSE a.server

Port(a) ==
    CASE a.port # None -> a.port
      [] a.port = None /\ a.transport = "tls" -> 5061
      [] a.port = None /\ a.transport # "tls" -> 5060

\* location_plan: an explicit port or an IP literal skips SRV.
Pinned(a) == a.port # None \/ Server(a) \in Literal

-----------------------------------------------------------------------------
(* order_candidates. *)

\* The places of the best priority left.
Class(records) ==
    {i \in DOMAIN records :
        \A j \in DOMAIN records : records[i].priority <= records[j].priority}

\* The order of the walk: records without weight, then as they were answered.
Ahead(records, i, j) ==
    IF (records[i].weight = 0) = (records[j].weight = 0)
    THEN i < j
    ELSE records[i].weight = 0

Weight(records, places) ==
    LET WeightAt(i) == records[i].weight IN MapThenSumSet(WeightAt, places)

\* The sum of the weights up to place i.
Running(records, i) ==
    Weight(records, {j \in Class(records) : j = i \/ Ahead(records, j, i)})

\* What a roll of the dice can choose: the first record whose running sum
\* reaches it; any, when no record has weight.
Picks(records) ==
    LET total == Weight(records, Class(records))
    IN  {i \in Class(records) :
            \/ total = 0
            \/ \E roll \in 0..total :
                  /\ Running(records, i) >= roll
                  /\ \A j \in Class(records) :
                        Ahead(records, j, i) => Running(records, j) < roll}

\* Fault: priorities are not looked at.
Nexts_AnyPriority(records) == {records[i] : i \in DOMAIN records}

\* The records that may be tried next.
Nexts(records) == {records[i] : i \in Picks(records)}

Without(records, r) ==
    LET i == CHOOSE j \in DOMAIN records : records[j] = r
    IN  SubSeq(records, 1, i - 1) \o SubSeq(records, i + 1, Len(records))

-----------------------------------------------------------------------------
(* resolve_with. *)

Stop(why) == step' = "failed" /\ failure' = [kind |-> why, cert |-> None]

Found(host, port) ==
    /\ server' = [host |-> host, port |-> port]
    /\ step' = "located"

Lookup(host) == IF host \in Literal THEN "found" ELSE lookup[host]

Usable(r) == r.target # Nowhere /\ Lookup(r.target) = "found"

Direct ==
    /\ step = "start"
    /\ Pinned(account)
    /\ \/ /\ Lookup(Server(account)) = "found"
          /\ Found(Server(account), Port(account))
          /\ failure' = failure
       \/ /\ Lookup(Server(account)) # "found"
          /\ Stop("unresolved")
          /\ server' = server
    /\ UNCHANGED <<account, srv, lookup, candidates, cert>>

\* A query that fails counts as one without records.
QuerySrv ==
    /\ step = "start"
    /\ ~Pinned(account)
    /\ srv' \in Answer \cup {<<>>}
    /\ candidates' = srv'
    /\ step' = IF srv' = <<>> THEN "fallback" ELSE "walking"
    /\ UNCHANGED <<account, lookup, server, cert, failure>>

\* One round of the walk: the target is not available, or resolves, or not.
TryCandidate ==
    /\ step = "walking"
    /\ candidates # <<>>
    /\ \E r \in Nexts(candidates) :
          /\ candidates' = Without(candidates, r)
          /\ \/ Usable(r) /\ Found(r.target, r.port)
             \/ ~Usable(r) /\ UNCHANGED <<server, step>>
    /\ UNCHANGED <<account, srv, lookup, cert, failure>>

\* There were records and none is of use: no fallback.
Exhausted ==
    /\ step = "walking"
    /\ candidates = <<>>
    /\ Stop("unresolved")
    /\ UNCHANGED <<account, srv, lookup, candidates, server, cert>>

Fallback ==
    /\ step = "fallback"
    /\ \/ /\ Lookup(Server(account)) = "found"
          /\ Found(Server(account), Port(account))
          /\ failure' = failure
       \/ /\ Lookup(Server(account)) # "found"
          /\ Stop("unresolved")
          /\ server' = server
    /\ UNCHANGED <<account, srv, lookup, candidates, cert>>

-----------------------------------------------------------------------------
(* SipEndpoint::new and the transport. *)

\* detect_local_ip: the account's own server again, not the address located.
Routed == Lookup(Server(account)) = "found"

Route ==
    /\ step = "located"
    /\ \/ Routed /\ step' = "routed" /\ failure' = failure
       \/ ~Routed /\ Stop("no route")
    /\ UNCHANGED <<account, srv, lookup, candidates, server, cert>>

BindDatagram ==
    /\ step = "routed"
    /\ account.transport = "udp"
    /\ step' = "datagram"
    /\ UNCHANGED <<account, srv, lookup, candidates, server, cert, failure>>

Unsupported ==
    /\ step = "routed"
    /\ ~account.built
    /\ Stop("unsupported")
    /\ UNCHANGED <<account, srv, lookup, candidates, server, cert>>

\* TcpStream::connect, which the server may refuse.
Connect ==
    /\ step = "routed"
    /\ account.transport # "udp" /\ account.built
    /\ \/ /\ step' = IF account.transport = "tcp" THEN "stream" ELSE "handshake"
          /\ failure' = failure
       \/ Stop("refused")
    /\ UNCHANGED <<account, srv, lookup, candidates, server, cert>>

\* Fault: the name is that of the host the connection goes to.
Identity_OfTarget == server.host

\* The name the certificate must be for.
Identity == account.domain

\* PinnedVerifier: the fingerprint is all that counts.
PinnedObjections(c) == {why \in {"pin mismatch"} : c.id # account.policy}

\* The platform's verifier, as cert_failure translates what it finds.
PlatformObjections(c) ==
    c.faults \cup {why \in {"name mismatch"} : Identity \notin c.names}

\* config_with_recorder chooses one by the policy.
Objections(c) ==
    IF account.policy = None THEN PlatformObjections(c) ELSE PinnedObjections(c)

\* RecordingVerifier keeps the leaf before it is judged.
Records(c) == cert' = c

\* An UntrustedCertificate: a reason and the certificate to compare with.
Refused(why, c) == step' = "failed" /\ failure' = [kind |-> why, cert |-> c.id]

\* Only the verifier's verdict is reported as a refusal, with the certificate;
\* the handshake may fail before and after it for other reasons, and then
\* blames none.
Handshake ==
    /\ step = "handshake"
    /\ \/ Stop("handshake") /\ UNCHANGED cert
       \/ \E c \in Cert :
            /\ Records(c)
            /\ \/ Objections(c) = {} /\ Stop("handshake")
               \/ Objections(c) = {} /\ step' = "stream" /\ UNCHANGED failure
               \/ \E why \in Objections(c) : Refused(why, c)
    /\ UNCHANGED <<account, srv, lookup, candidates, server>>

-----------------------------------------------------------------------------
Unbound ==
    /\ account \in Account
    /\ srv = <<>>
    /\ lookup \in Lookups
    /\ step = "start"
    /\ candidates = <<>>
    /\ server = None
    /\ cert = None
    /\ failure = None

LocateNext ==
    \/ Direct \/ QuerySrv \/ TryCandidate \/ Exhausted \/ Fallback
    \/ Route \/ BindDatagram \/ Unsupported \/ Connect \/ Handshake

=============================================================================
