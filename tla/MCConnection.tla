---------------------------- MODULE MCConnection ----------------------------
(***************************************************************************)
(* Instances of Connection for TLC: accounts with and without a server, a  *)
(* port and a pin; up to two SRV records of two priorities and weights;    *)
(* a body that looks like a keepalive.                                     *)
(***************************************************************************)
EXTENDS Connection

MCAccount ==
    {a \in [server : {None, "a", "literal"}, domain : {"domain"}, port : {None, 5070},
             transport : {"udp", "tcp", "tls"}, policy : {None, 1}, built : BOOLEAN] :
        /\ a.policy # None => a.transport = "tls"
        /\ ~a.built => a.transport = "tls" /\ a.policy = None /\ a.port = None}

Record == [priority : {1, 2}, weight : {0, 1}, port : {5080}, target : {"a", "b", Nowhere}]

MCAnswer == {<<r>> : r \in Record}
            \cup {<<r, s>> : r \in Record, s \in {t \in Record : t.target = "a"}}

MCLookups == [{"domain", "a", "b"} -> {"found", "empty"}]

MCCert == [id : {1, 2}, names : {{"domain"}, {"a", "host"}}, faults : {{}, {"expired"}}]

MCBodies == {CRLF}
=============================================================================
